--------------------------- MODULE FamiliesServed ---------------------------
(***************************************************************************)
(* The family service when requests are served one at a time and no        *)
(* statement fails: the statements of a request together are one step of   *)
(* FamilyLedger.                                                           *)
(***************************************************************************)
EXTENDS Families

\* An accept between its check of the invitation and its insertion of the
\* member, and one that has inserted it and not yet marked the invitation.
Admitting(c) == \E r \in Requests : req[r].code = c
                    /\ \/ At(r, "AcceptInvitation", "FindUser")
                       \/ At(r, "AcceptInvitation", "AddMember")
Admitted(c)  == \E r \in Requests : req[r].code = c
                    /\ At(r, "AcceptInvitation", "UpdateInvitation")

StatusSeen(c) ==
    CASE Admitted(c) -> "accepted"
      [] invitations[c].status = "pending" /\ invitations[c].expired
         /\ ~Admitting(c) /\ ~Admitted(c) -> "lapsed"
      [] OTHER -> invitations[c].status

\* A family is there for its callers when its owner's row is.
Founding(f) == \E r \in Requests : At(r, "Create", "AddMember") /\ req[r].family = f

FamiliesSeen == [f \in Families |-> IF Founding(f) THEN NoFamily ELSE families[f]]
InvitationsSeen ==
    [c \in Codes |-> [status |-> StatusSeen(c), family |-> invitations[c].family,
                      to |-> invitations[c].to, by |-> invitations[c].by]]

Ledger == INSTANCE FamilyLedger WITH
    book <- FamiliesSeen, member <- members, invitation <- InvitationsSeen

\* Each request takes effect at once or not at all: a family appears with its
\* owner, an invitation admits one user once, not after it was revoked or has
\* expired, and who acts has the right to in that very step.
LedgerImplemented == Ledger!Spec
=============================================================================
