---------------------------- MODULE FamilyLedger ----------------------------
(***************************************************************************)
(* The family service as its callers think of it: every operation takes    *)
(* effect in one step, on what is true in that step, or not at all.        *)
(***************************************************************************)
CONSTANTS
    Families,
    Users,
    Codes,     \* invitation codes
    Names,
    None

VARIABLES
    book,        \* owner and name of a family, owner None before it is founded
    member,      \* role of a user in a family, and who vouched for it
    invitation   \* an invitation, by its code

ledger == <<book, member, invitation>>

Trusted(f, u) == book[f].owner = u \/ member[f][u].role \in {"admin", "owner"}
Revoker(f, u) == book[f].owner = u \/ member[f][u].role = "admin"

Enrolled(f, u, role, by) ==
    /\ member[f][u].role = "none"
    /\ member' = [member EXCEPT ![f][u] = [role |-> role, by |-> by]]

Init ==
    /\ book = [f \in Families |-> [owner |-> None, name |-> None]]
    /\ member = [f \in Families |-> [u \in Users |-> [role |-> "none", by |-> None]]]
    /\ invitation = [c \in Codes |-> [status |-> "none", family |-> None, to |-> None,
                                      by |-> None]]

\* A family and its owner's membership appear together.
Found(u, f, n) ==
    /\ book[f].owner = None
    /\ book' = [book EXCEPT ![f] = [owner |-> u, name |-> n]]
    /\ Enrolled(f, u, "owner", u)
    /\ UNCHANGED invitation

Rename(u, f, n) ==
    /\ book[f].owner = u
    /\ book' = [book EXCEPT ![f].name = n]
    /\ UNCHANGED <<member, invitation>>

Add(u, f, v, role) ==
    /\ Trusted(f, u)
    /\ Enrolled(f, v, role, u)
    /\ UNCHANGED <<book, invitation>>

Remove(u, f, v) ==
    /\ book[f].owner = u /\ v # u /\ member[f][v].role # "none"
    /\ member' = [member EXCEPT ![f][v] = [role |-> "none", by |-> None]]
    /\ UNCHANGED <<book, invitation>>

Invite(u, f, v, c) ==
    /\ Trusted(f, u)
    /\ invitation[c].status = "none"
    /\ invitation' = [invitation EXCEPT ![c] = [status |-> "pending", family |-> f,
                                                to |-> v, by |-> u]]
    /\ UNCHANGED <<book, member>>

\* An invitation is used up in the step in which it admits its addressee.
Accept(c) ==
    LET inv == invitation[c] IN
    /\ inv.status = "pending"
    /\ Enrolled(inv.family, inv.to, "member", inv.by)
    /\ invitation' = [invitation EXCEPT ![c].status = "accepted"]
    /\ UNCHANGED book

Revoke(u, c) ==
    /\ invitation[c].status # "none"
    /\ Revoker(invitation[c].family, u)
    /\ invitation' = [invitation EXCEPT ![c].status = "revoked"]
    /\ UNCHANGED <<book, member>>

Lapse(c) ==
    /\ invitation[c].status = "pending"
    /\ invitation' = [invitation EXCEPT ![c].status = "lapsed"]
    /\ UNCHANGED <<book, member>>

Next ==
    \/ \E u \in Users, f \in Families :
          \/ \E n \in Names : Found(u, f, n) \/ Rename(u, f, n)
          \/ \E v \in Users, role \in {"member", "admin", "owner"} : Add(u, f, v, role)
          \/ \E v \in Users : Remove(u, f, v) \/ \E c \in Codes : Invite(u, f, v, c)
    \/ \E c \in Codes : Accept(c) \/ Lapse(c) \/ \E u \in Users : Revoke(u, c)

Spec == Init /\ [][Next]_ledger
=============================================================================
