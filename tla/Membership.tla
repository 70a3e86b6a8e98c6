----------------------------- MODULE Membership -----------------------------
(***************************************************************************)
(* What the family service promises about who belongs to a family,         *)
(* whatever requests overlap and whatever statement fails: a family keeps  *)
(* its founder as owner, nobody enters it but on behalf of the owner or of *)
(* someone who has been an administrator of that very family, and nobody   *)
(* removes its owner.                                                      *)
(***************************************************************************)
CONSTANTS
    Families,
    Users,
    None       \* no user

VARIABLES
    owner,     \* the owner of a family, None before it is founded
    member,    \* role of a user in a family, and who vouched for it
    trusted    \* pairs: who has ever been owner or administrator of what

view == <<owner, member, trusted>>

Trust(role) == role \in {"admin", "owner"}

Init ==
    /\ owner = [f \in Families |-> None]
    /\ member = [f \in Families |-> [u \in Users |-> [role |-> "none", by |-> None]]]
    /\ trusted = {}

Found(f, u) ==
    /\ owner[f] = None
    /\ owner' = [owner EXCEPT ![f] = u]
    /\ trusted' = trusted \cup {<<f, u>>}
    /\ UNCHANGED member

Enrol(f, u, role, by) ==
    /\ member[f][u].role = "none"
    /\ <<f, by>> \in trusted
    /\ member' = [member EXCEPT ![f][u] = [role |-> role, by |-> by]]
    /\ trusted' = IF Trust(role) THEN trusted \cup {<<f, u>>} ELSE trusted
    /\ UNCHANGED owner

Dismiss(f, u) ==
    /\ owner[f] \notin {None, u}
    /\ member[f][u].role # "none"
    /\ member' = [member EXCEPT ![f][u] = [role |-> "none", by |-> None]]
    /\ UNCHANGED <<owner, trusted>>

Next ==
    \E f \in Families, u \in Users :
        \/ Found(f, u)
        \/ Dismiss(f, u)
        \/ \E role \in {"member", "admin", "owner"}, by \in Users : Enrol(f, u, role, by)

Spec == Init /\ [][Next]_view
=============================================================================
