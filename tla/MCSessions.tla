----------------------------- MODULE MCSessions -----------------------------
(* Instance of Sessions for TLC. *)
EXTENDS Sessions

MCCalled == {"Register", "Login", "RefreshToken", "Sync", "Unknown"}
=============================================================================
