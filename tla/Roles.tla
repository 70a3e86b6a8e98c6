------------------------------- MODULE Roles -------------------------------
(***************************************************************************)
(* What the other services see of families: each has an owner from the     *)
(* moment it is founded, users get a role and lose it again.  Membership   *)
(* without the question of who may do so.                                  *)
(***************************************************************************)
CONSTANTS
    Families,
    Users,
    None       \* no user

VARIABLES
    owner,     \* the owner of a family, None before it is founded
    role       \* role of a user in a family

roles == <<owner, role>>

Init ==
    /\ owner = [f \in Families |-> None]
    /\ role = [f \in Families |-> [u \in Users |-> "none"]]

Found(f, u) ==
    /\ owner[f] = None
    /\ owner' = [owner EXCEPT ![f] = u]
    /\ UNCHANGED role

Enter(f, u, as) ==
    /\ owner[f] # None /\ role[f][u] = "none"
    /\ role' = [role EXCEPT ![f][u] = as]
    /\ UNCHANGED owner

Leave(f, u) ==
    /\ owner[f] \notin {None, u} /\ role[f][u] # "none"
    /\ role' = [role EXCEPT ![f][u] = "none"]
    /\ UNCHANGED owner

Next ==
    \E f \in Families, u \in Users :
        \/ Found(f, u) \/ Leave(f, u)
        \/ \E as \in {"member", "admin", "owner"} : Enter(f, u, as)

Spec == Init /\ [][Next]_roles
=============================================================================
