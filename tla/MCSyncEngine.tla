---------------------------- MODULE MCSyncEngine ----------------------------
(* Small instances of SyncEngine for TLC. *)
EXTENDS SyncEnginePromises, TLC

\* Activations are interchangeable.
Symmetry == Permutations(Calls)
=============================================================================
