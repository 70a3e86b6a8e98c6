--------------------------- MODULE FamiliesProofs ---------------------------
(***************************************************************************)
(* The safety of the family service for any number of overlapping requests *)
(* and any failures: type correctness, its invariants, and that it         *)
(* implements Membership.                                                  *)
(***************************************************************************)
EXTENDS Families, TLAPS

-----------------------------------------------------------------------------
(* The invariant *)

Exists(c) == invitations[c].status # "none"

\* What a running request of each operation carries, and what its earlier
\* statements have established.
CreateInv(q) ==
    /\ q.at \in {"Create", "AddMember"}
    /\ q.family \in Families /\ q.target = q.user /\ q.by = q.user /\ q.role = "owner"
    /\ q.name \in Names
    /\ q.at = "Create" => families[q.family].owner = None
    /\ q.at = "AddMember" => families[q.family].owner = q.user

AddInv(q) ==
    /\ q.at \in {"FindByID", "ListMembers", "AddMember"}
    /\ q.family \in Families /\ q.target \in Users /\ q.by = q.user /\ q.role \in Roles
    /\ q.at = "AddMember" => <<q.family, q.user>> \in trusted

RemoveInv(q) ==
    /\ q.at \in {"FindByID", "RemoveMember"}
    /\ q.family \in Families /\ q.target \in Users
    /\ q.at = "RemoveMember" => families[q.family].owner = q.user /\ q.target # q.user

InviteInv(q) ==
    /\ q.at \in {"FindByID", "ListMembers", "CreateInvitation"}
    /\ q.family \in Families /\ q.target \in Users
    /\ q.at = "CreateInvitation" => <<q.family, q.user>> \in trusted

AcceptInv(q) ==
    LET inv == invitations[q.code] IN
    /\ q.at \in {"FindInvitationByCode", "FindUser", "AddMember", "UpdateInvitation"}
    /\ q.code \in Codes
    /\ q.at # "FindInvitationByCode" =>
          /\ Exists(q.code)
          /\ q.family = inv.family /\ q.by = inv.by /\ q.target = q.user
          /\ q.role = "member"
    /\ q.at \in {"AddMember", "UpdateInvitation"} => q.user = inv.to
    /\ q.at = "UpdateInvitation" => <<inv.family, inv.to>> \in joined

RevokeInv(q) ==
    /\ q.at \in {"ListByUser", "ListMembers", "ListInvitations", "UpdateInvitation"}
    /\ q.code \in Codes
    /\ q.at \in {"ListMembers", "ListInvitations"} => q.family \in Families
    /\ q.at = "UpdateInvitation" => Exists(q.code)

UpdateInv(q) ==
    /\ q.at \in {"FindByID", "Update"}
    /\ q.family \in Families /\ q.name \in Names

OpInv(q) ==
    q.at \in Running =>
        /\ q.user \in Users
        /\ q.op = "Create" => CreateInv(q)
        /\ q.op = "Update" => UpdateInv(q)
        /\ q.op = "AddMember" => AddInv(q)
        /\ q.op = "RemoveMember" => RemoveInv(q)
        /\ q.op = "Invite" => InviteInv(q)
        /\ q.op = "AcceptInvitation" => AcceptInv(q)
        /\ q.op = "RevokeInvitation" => RevokeInv(q)

\* A request has written nothing before the last statement of its function.
WroteInv(q) ==
    faults = 0 /\ q.wrote =>
        \/ q.at = "answered"
        \/ q.op = "Create" /\ q.at = "AddMember"
        \/ q.op = "AcceptInvitation" /\ q.at = "UpdateInvitation"
        \/ /\ q.op = "Create" /\ q.at = "refused"
           /\ q.family \in Families /\ q.user \in Users
           /\ families[q.family].owner = q.user /\ IsMember(q.family, q.user)

\* Two running creates insert different families.
DistinctFamilies ==
    \A r, s \in Requests :
        At(r, "Create", "Create") /\ At(s, "Create", "Create")
            /\ req[r].family = req[s].family => r = s

\* Whoever administers a family now, or invited somebody to it, has been
\* trusted with it.
TrustInv ==
    /\ \A f \in Families : families[f].owner # None => <<f, families[f].owner>> \in trusted
    /\ \A f \in Families, u \in Users :
          members[f][u].role \in {"admin", "owner"} => <<f, u>> \in trusted
    /\ \A c \in Codes : Exists(c) =>
          /\ invitations[c].family \in Families /\ invitations[c].to \in Users
          /\ invitations[c].by \in Users
          /\ <<invitations[c].family, invitations[c].by>> \in trusted
    /\ \A c \in Codes : ~Exists(c) => invitations[c].family = None

\* As ListedCanBeOpened, for the owner.
OwnerRow ==
    faults = 0 => \A f \in Families : families[f].owner # None =>
        \/ IsMember(f, families[f].owner)
        \/ \E r \in Requests : At(r, "Create", "AddMember") /\ req[r].family = f

IInv ==
    /\ TypeOK
    /\ \A r \in Requests : OpInv(req[r]) /\ WroteInv(req[r])
    /\ DistinctFamilies
    /\ TrustInv
    /\ OwnerRow
    /\ AcceptedJoined

-----------------------------------------------------------------------------
(* What survives a step *)

TablesType ==
    /\ families \in [Families -> Family]
    /\ members \in [Families -> [Users -> Member]]
    /\ invitations \in [Codes -> Invitation]
    /\ asked \in Nat /\ faults \in Nat
    /\ trusted \subseteq Families \X Users /\ joined \subseteq Families \X Users

\* What no step takes back.
Grown ==
    /\ trusted \subseteq trusted' /\ joined \subseteq joined'
    /\ faults' = 0 => faults = 0
    /\ \A f \in Families : families[f].owner # None => families'[f].owner = families[f].owner
    /\ \A f \in Families : families[f].owner # None /\ IsMember(f, families[f].owner)
                            => IsMember(f, families[f].owner)'
    /\ \A c \in Codes : Exists(c) =>
          /\ Exists(c)'
          /\ invitations'[c].family = invitations[c].family
          /\ invitations'[c].to = invitations[c].to
          /\ invitations'[c].by = invitations[c].by

\* A request that does not move keeps its part of the invariant.
LEMMA Frame ==
    ASSUME IInv, Grown, NEW s \in Requests, req'[s] = req[s],
           At(s, "Create", "Create") => families'[req[s].family].owner = None
    PROVE  OpInv(req[s])' /\ WroteInv(req[s])'
<1> DEFINE q == req[s]
<1>1. OpInv(q) /\ WroteInv(q) /\ q \in Request
  BY DEF IInv, TypeOK
<1>2. q.op = "Create" /\ q.at = "Create" => families'[q.family].owner = None
  BY DEF At
<1>3. TrustInv
  BY DEF IInv
<1>4. None \notin Users
  BY ConstantsAssumption DEF ConstantsAssumption
<1>5. ASSUME q.at \in Running PROVE OpInv(req[s])'
  <2>1. q.op = "Create" => CreateInv(req[s])'
    BY <1>1, <1>2, <1>4, <1>5 DEF OpInv, CreateInv, Grown
  <2>2. q.op = "Update" => UpdateInv(req[s])'
    BY <1>1, <1>5 DEF OpInv, UpdateInv
  <2>3. q.op = "AddMember" => AddInv(req[s])'
    BY <1>1, <1>5 DEF OpInv, AddInv, Grown
  <2>4. q.op = "RemoveMember" => RemoveInv(req[s])'
    BY <1>1, <1>4, <1>5 DEF OpInv, RemoveInv, Grown
  <2>5. q.op = "Invite" => InviteInv(req[s])'
    BY <1>1, <1>5 DEF OpInv, InviteInv, Grown
  <2>6. q.op = "AcceptInvitation" => AcceptInv(req[s])'
    BY <1>1, <1>5 DEF OpInv, AcceptInv, Grown, Exists
  <2>7. q.op = "RevokeInvitation" => RevokeInv(req[s])'
    BY <1>1, <1>5 DEF OpInv, RevokeInv, Grown, Exists
  <2>8. QED
    BY <1>1, <1>5, <2>1, <2>2, <2>3, <2>4, <2>5, <2>6, <2>7 DEF OpInv
<1>6. q.at \notin Running => OpInv(req[s])'
  BY DEF OpInv
<1>7. WroteInv(req[s])'
  <2>1. families[q.family].owner = q.user /\ q.user \in Users /\ q.family \in Families
            /\ IsMember(q.family, q.user)
        => families'[q.family].owner = q.user /\ IsMember(q.family, q.user)'
    BY <1>4 DEF Grown
  <2>2. QED
    BY <1>1, <2>1 DEF WroteInv, Grown, Request
<1>8. QED
  BY <1>5, <1>6, <1>7

\* One request moves to the state q, which meets its own part of the invariant.
LEMMA StepInv ==
    ASSUME IInv, NEW r \in Requests, NEW q \in Request, Become(r, q), Grown,
           OpInv(q)', WroteInv(q)', TablesType', TrustInv', AcceptedJoined',
           \A s \in Requests \ {r} : At(s, "Create", "Create") =>
               /\ families'[req[s].family].owner = None
               /\ ~(q.op = "Create" /\ q.at = "Create" /\ q.family = req[s].family),
           \A f \in Families : families'[f].owner # families[f].owner =>
               q.op = "Create" /\ q.at = "AddMember" /\ q.family = f,
           At(r, "Create", "AddMember") /\ faults' = 0 =>
               members'[req[r].family][families'[req[r].family].owner].role # "none"
    PROVE  IInv'
<1>1. req' = [req EXCEPT ![r] = q] /\ req \in [Requests -> Request]
  BY DEF Become, IInv, TypeOK
<1>2. req'[r] = q /\ \A s \in Requests \ {r} : req'[s] = req[s]
  BY <1>1
<1>3. TypeOK'
  BY <1>1 DEF TypeOK, TablesType
<1>4. ASSUME NEW s \in Requests PROVE OpInv(req[s])' /\ WroteInv(req[s])'
  <2>1. CASE s = r
    BY <1>2, <2>1 DEF OpInv, WroteInv, CreateInv, UpdateInv, AddInv, RemoveInv, InviteInv,
                      AcceptInv, RevokeInv
  <2>2. CASE s # r
    BY <1>2, <2>2, Frame
  <2>3. QED
    BY <2>1, <2>2
<1>5. DistinctFamilies'
  <2>1. DistinctFamilies
    BY DEF IInv
  <2>2. QED
    BY <1>2, <2>1 DEF DistinctFamilies, At
<1>6. OwnerRow'
  <2> SUFFICES ASSUME faults' = 0, NEW f \in Families, families'[f].owner # None
               PROVE  \/ IsMember(f, families[f].owner)'
                      \/ \E s \in Requests : At(s, "Create", "AddMember")'
                                           /\ req'[s].family = f
    BY DEF OwnerRow
  <2>1. CASE families'[f].owner # families[f].owner
    <3>1. q.op = "Create" /\ q.at = "AddMember" /\ q.family = f
      BY <2>1
    <3>2. QED
      BY <1>2, <3>1 DEF At
  <2>2. CASE families'[f].owner = families[f].owner
    <3>1. \/ IsMember(f, families[f].owner)
          \/ \E s \in Requests : At(s, "Create", "AddMember") /\ req[s].family = f
      BY <2>2 DEF IInv, OwnerRow, Grown
    <3>2. CASE IsMember(f, families[f].owner)
      BY <2>2, <3>2 DEF Grown
    <3>3. CASE \E s \in Requests : At(s, "Create", "AddMember") /\ req[s].family = f
      <4>1. PICK s \in Requests : At(s, "Create", "AddMember") /\ req[s].family = f
        BY <3>3
      <4>2. CASE s = r
        BY <4>1, <4>2 DEF IsMember
      <4>3. CASE s # r
        BY <1>2, <4>1, <4>3 DEF At
      <4>4. QED
        BY <4>2, <4>3
    <3>4. QED
      BY <3>1, <3>2, <3>3
  <2>3. QED
    BY <2>1, <2>2
<1>7. QED
  BY <1>3, <1>4, <1>5, <1>6 DEF IInv

\* A step of Membership or one it does not see.
Kept == Promise!Next \/ UNCHANGED Promise!view

\* A statement that only reads, and every other move that leaves the tables.
LEMMA QuietStep ==
    ASSUME IInv, NEW r \in Requests, NEW q \in Request, Become(r, q),
           UNCHANGED <<database, history>>, asked' \in Nat, faults' \in Nat,
           faults' = 0 => faults = 0, OpInv(q), faults' = 0 => WroteInv(q),
           \A s \in Requests \ {r} : At(s, "Create", "Create") =>
               ~(q.op = "Create" /\ q.at = "Create" /\ q.family = req[s].family),
           At(r, "Create", "AddMember") /\ faults' = 0 =>
               IsMember(req[r].family, families[req[r].family].owner)
    PROVE  IInv' /\ Kept
<1>1. TypeOK /\ TrustInv /\ AcceptedJoined
  BY DEF IInv
<1>2. UNCHANGED <<families, members, invitations, trusted, joined>>
  BY DEF database, history
<1>3. OpInv(q)'
  BY <1>2 DEF OpInv, CreateInv, UpdateInv, AddInv, RemoveInv, InviteInv, AcceptInv, RevokeInv,
              Exists
<1>4. WroteInv(q)'
  BY <1>2 DEF WroteInv, IsMember
<1>5. TablesType' /\ TrustInv' /\ AcceptedJoined'
  BY <1>1, <1>2 DEF TypeOK, TablesType, TrustInv, AcceptedJoined, Exists
<1>6. Grown
  BY <1>2 DEF Grown, IsMember, Exists
<1>7. \A s \in Requests \ {r} : At(s, "Create", "Create") =>
        families'[req[s].family].owner = None
  <2>1. ASSUME NEW s \in Requests, At(s, "Create", "Create")
        PROVE  families'[req[s].family].owner = None
    <3>1. OpInv(req[s])
      BY DEF IInv
    <3>2. QED
      BY <1>2, <2>1, <3>1 DEF OpInv, CreateInv, At, Running
  <2>2. QED
    BY <2>1
<1>8. IInv'
  BY <1>2, <1>3, <1>4, <1>5, <1>6, <1>7, StepInv DEF IsMember
<1>9. UNCHANGED Promise!view
  BY <1>2 DEF Promise!view
<1>10. QED
  BY <1>8, <1>9 DEF Kept

\* What the types say of one request.
LEMMA Facts ==
    ASSUME IInv, NEW r \in Requests
    PROVE  /\ req[r] \in Request /\ OpInv(req[r]) /\ WroteInv(req[r])
           /\ TypeOK /\ TrustInv /\ AcceptedJoined /\ asked \in Nat /\ faults \in Nat
BY DEF IInv, TypeOK

\* A request that is refused, by the service or by a failure.
LEMMA RefuseStep ==
    ASSUME IInv, NEW r \in Requests, Refuse(r), req[r].at \in Running,
           UNCHANGED <<database, history>>, asked' \in Nat, faults' \in Nat,
           faults' = 0 => faults = 0,
           faults' = 0 /\ req[r].wrote => At(r, "Create", "AddMember"),
           faults' = 0 /\ At(r, "Create", "AddMember") => IsMember(req[r].family, req[r].user)
    PROVE  IInv' /\ Kept
<1>1. [req[r] EXCEPT !.at = "refused"] \in Request
  BY DEF IInv, TypeOK, Request
<1>2. PICK q \in Request : q = [req[r] EXCEPT !.at = "refused"]
  BY <1>1
<1>3. /\ Become(r, q) /\ q.at = "refused" /\ q.wrote = req[r].wrote /\ q.op = req[r].op
      /\ q.family = req[r].family /\ q.user = req[r].user
  BY <1>2 DEF Refuse, Goto, IInv, TypeOK, Request
<1>4. OpInv(q)
  BY <1>3 DEF OpInv, Running
<1>5. At(r, "Create", "AddMember") =>
          /\ families[req[r].family].owner = req[r].user
          /\ req[r].family \in Families /\ req[r].user \in Users
  BY Facts DEF At, OpInv, CreateInv, Running
<1>6. faults' = 0 => WroteInv(q)
  BY <1>3, <1>5 DEF WroteInv, At
<1>7. QED
  BY <1>3, <1>4, <1>5, <1>6, QuietStep

\* A read after which the request continues at another call, with what it has
\* established so far.
LEMMA GotoStep ==
    ASSUME IInv, NEW r \in Requests, NEW at \in Running \cup {"answered", "refused"},
           Goto(r, at), UNCHANGED <<database, counters, history>>,
           req[r].at \in Running, faults = 0 => ~req[r].wrote,
           OpInv([req[r] EXCEPT !.at = at]), req[r].op # "Create"
    PROVE  IInv' /\ Kept
<1>0. [req[r] EXCEPT !.at = at] \in Request
  BY DEF IInv, TypeOK, Request
<1>1. PICK q \in Request : q = [req[r] EXCEPT !.at = at]
  BY <1>0
<1>2. Become(r, q) /\ q.at = at /\ q.wrote = req[r].wrote /\ q.op = req[r].op
  BY <1>1 DEF Goto, IInv, TypeOK, Request
<1>3. OpInv(q) /\ WroteInv(q)
  BY <1>1, <1>2 DEF WroteInv
<1>4. asked' \in Nat /\ faults' = faults /\ faults \in Nat
  BY Facts DEF counters
<1>5. QED
  BY <1>2, <1>3, <1>4, QuietStep DEF At

-----------------------------------------------------------------------------
(* The statements that write *)

\* A running request other than a Create after its first statement, and an
\* accept after its second, has written nothing yet.
LEMMA NothingWritten ==
    ASSUME IInv, NEW r \in Requests, req[r].at \in Running,
           ~At(r, "Create", "AddMember"), ~At(r, "AcceptInvitation", "UpdateInvitation")
    PROVE  faults = 0 => ~req[r].wrote
BY Facts DEF WroteInv, At, Running

LEMMA InsertFamilyStep ==
    ASSUME IInv, NEW r \in Requests, At(r, "Create", "Create"), InsertFamily(r, "AddMember")
    PROVE  IInv' /\ Kept
<1>1. [req[r] EXCEPT !.at = "AddMember", !.wrote = TRUE] \in Request
  BY ZenonT(60), Facts DEF Request, Running
<1>2. PICK q \in Request : q = [req[r] EXCEPT !.at = "AddMember", !.wrote = TRUE]
  BY <1>1
<1>3. PICK f, u : f = req[r].family /\ u = req[r].user
  OBVIOUS
<1>4. /\ Become(r, q) /\ q.at = "AddMember" /\ q.op = "Create" /\ q.family = f
      /\ q.user = u /\ q.target = u /\ q.by = u /\ q.role = "owner"
      /\ f \in Families /\ u \in Users /\ families[f].owner = None
      /\ req[r].name \in Names /\ q.name = req[r].name
  <2>1. OpInv(req[r]) /\ req[r] \in Request
    BY Facts
  <2>2. CreateInv(req[r]) /\ req[r].user \in Users
    BY <2>1 DEF OpInv, At, Running
  <2>3. QED
    BY <1>2, <1>3, <2>1, <2>2 DEF InsertFamily, CreateInv, At, Request
<1>5. [owner |-> u, name |-> req[r].name] \in Family
  BY <1>4 DEF Family
<1>6. /\ families' = [families EXCEPT ![f] = [owner |-> u, name |-> req[r].name]]
      /\ trusted' = trusted \cup {<<f, u>>}
      /\ UNCHANGED <<members, invitations, asked, faults, joined>>
  BY <1>3 DEF InsertFamily, counters
<1>7. families \in [Families -> Family] /\ None \notin Users
  BY Facts, ConstantsAssumption DEF TypeOK, ConstantsAssumption
<1>8. /\ families'[f].owner = u
      /\ \A g \in Families \ {f} : families'[g] = families[g]
  BY <1>4, <1>6, <1>7
<1>9. TablesType'
  BY <1>4, <1>5, <1>6, Facts DEF TypeOK, TablesType
<1>10. Grown
  BY <1>4, <1>6, <1>8 DEF Grown, IsMember, Exists
<1>11. OpInv(q)' /\ WroteInv(q)'
  BY <1>4, <1>8 DEF OpInv, CreateInv, WroteInv
<1>12. TrustInv' /\ AcceptedJoined'
  BY <1>4, <1>6, <1>8, Facts DEF TrustInv, AcceptedJoined, Exists
<1>13. \A s \in Requests \ {r} : At(s, "Create", "Create") =>
          families'[req[s].family].owner = None
  <2>1. ASSUME NEW s \in Requests \ {r}, At(s, "Create", "Create")
        PROVE  families'[req[s].family].owner = None
    <3>1. CreateInv(req[s])
      BY <2>1, Facts DEF OpInv, At, Running
    <3>2. req[s].family # f
      BY <1>3, <2>1 DEF IInv, DistinctFamilies
    <3>3. QED
      BY <1>8, <2>1, <3>1, <3>2 DEF CreateInv, At
  <2>2. QED
    BY <2>1
<1>14. IInv'
  BY <1>4, <1>8, <1>9, <1>10, <1>11, <1>12, <1>13, StepInv DEF At
<1>15. Promise!Found(f, u)
  BY <1>4, <1>6, <1>7, <1>8 DEF Promise!Found
<1>16. QED
  BY <1>4, <1>14, <1>15 DEF Kept, Promise!Next

\* Moving on after a write keeps a request well typed.
LEMMA WroteType ==
    ASSUME NEW q \in Request, NEW at \in Running \cup {"answered", "refused"}
    PROVE  [q EXCEPT !.at = at, !.wrote = TRUE] \in Request
BY DEF Request

\* Who is about to be inserted has been vouched for.
LEMMA Vouched ==
    ASSUME IInv, NEW r \in Requests, req[r].at = "AddMember",
           req[r].op \in {"Create", "AddMember", "AcceptInvitation"}
    PROVE  /\ req[r].family \in Families /\ req[r].target \in Users
           /\ req[r].by \in Users /\ req[r].role \in Roles
           /\ <<req[r].family, req[r].by>> \in trusted
<1>1. OpInv(req[r]) /\ TrustInv
  BY Facts
<1>2. None \notin Users
  BY ConstantsAssumption DEF ConstantsAssumption
<1>3. CASE req[r].op = "Create"
  BY <1>1, <1>2, <1>3 DEF OpInv, CreateInv, TrustInv, Running, Roles
<1>4. CASE req[r].op = "AddMember"
  BY <1>1, <1>4 DEF OpInv, AddInv, Running
<1>5. CASE req[r].op = "AcceptInvitation"
  BY <1>1, <1>5 DEF OpInv, AcceptInv, TrustInv, Running, Roles
<1>6. QED
  BY <1>3, <1>4, <1>5

LEMMA InsertMemberStep ==
    ASSUME IInv, NEW r \in Requests, NEW then \in {"answered", "UpdateInvitation"},
           req[r].at = "AddMember",
           req[r].op \in {"Create", "AddMember", "AcceptInvitation"},
           then = "UpdateInvitation" => req[r].op = "AcceptInvitation",
           InsertMember(r, then)
    PROVE  IInv' /\ Kept
<1>1. PICK f, u, role, by : /\ f = req[r].family /\ u = req[r].target
                            /\ role = req[r].role /\ by = req[r].by
  OBVIOUS
<1>2. /\ f \in Families /\ u \in Users /\ by \in Users /\ role \in Roles
      /\ <<f, by>> \in trusted
  BY <1>1, Vouched
<1>3. CASE members[f][u].role # "none" /\ Refuse(r) /\ UNCHANGED <<database, counters, history>>
  <2>1. faults = 0 /\ req[r].wrote => At(r, "Create", "AddMember")
    BY NothingWritten DEF At, Running
  <2>2. At(r, "Create", "AddMember") => IsMember(req[r].family, req[r].user)
    BY <1>1, <1>3, Facts DEF At, OpInv, CreateInv, Running, IsMember
  <2>3. asked' \in Nat /\ faults' = faults /\ faults \in Nat
    BY <1>3, Facts DEF counters
  <2>4. QED
    BY <1>3, <2>1, <2>2, <2>3, RefuseStep DEF Running
<1>4. CASE /\ members[f][u].role = "none"
           /\ members' = [members EXCEPT ![f][u] = [role |-> role, by |-> by]]
           /\ joined' = joined \cup {<<f, u>>}
           /\ trusted' = IF role \in {"admin", "owner"}
                         THEN trusted \cup {<<f, u>>} ELSE trusted
           /\ Become(r, [req[r] EXCEPT !.at = then, !.wrote = TRUE])
           /\ UNCHANGED <<families, invitations, counters>>
  <2>1. [req[r] EXCEPT !.at = then, !.wrote = TRUE] \in Request
    <3>1. then \in Running \cup {"answered", "refused"} /\ req[r] \in Request
      BY Facts DEF Running
    <3>2. QED
      BY <3>1, WroteType
  <2>2. PICK q \in Request : q = [req[r] EXCEPT !.at = then, !.wrote = TRUE]
    BY <2>1
  <2>3. /\ Become(r, q) /\ q.at = then /\ q.op = req[r].op /\ q.family = f /\ q.target = u
        /\ q.user = req[r].user /\ q.code = req[r].code /\ q.by = by /\ q.role = role
    BY <1>1, <1>4, <2>2, Facts DEF Request
  <2>4. [role |-> role, by |-> by] \in Member
    BY <1>2 DEF Member
  <2>5. /\ members'[f][u].role = role /\ role # "none"
        /\ \A g \in Families, v \in Users : g # f \/ v # u => members'[g][v] = members[g][v]
    BY <1>2, <1>4, Facts DEF TypeOK, Roles
  <2>6. members' \in [Families -> [Users -> Member]]
    BY <1>2, <1>4, <2>4, Facts DEF TypeOK
  <2>7. TablesType'
    BY <1>2, <1>4, <2>6, Facts DEF TypeOK, TablesType, counters
  <2>8. Grown
    <3>1. \A g \in Families, v \in Users : members[g][v].role # "none" =>
              members'[g][v].role # "none"
      BY <2>5
    <3>2. \A g \in Families : families[g].owner \in Users \cup {None}
      BY Facts DEF TypeOK, Family
    <3>3. QED
      BY <1>4, <3>1, <3>2 DEF Grown, IsMember, Exists, counters
  <2>9. OpInv(q)'
    <3>1. CASE then = "answered"
      BY <2>3, <3>1 DEF OpInv, Running
    <3>2. CASE then = "UpdateInvitation"
      <4>1. AcceptInv(req[r]) /\ req[r].user \in Users
        BY <3>2, Facts DEF OpInv, Running
      <4>2. AcceptInv(q)'
        BY <1>1, <1>4, <2>3, <3>2, <4>1 DEF AcceptInv, Exists
      <4>3. QED
        BY <2>3, <3>2, <4>1, <4>2 DEF OpInv
    <3>3. QED
      BY <3>1, <3>2
  <2>10. WroteInv(q)'
    BY <2>3 DEF WroteInv
  <2>11. TrustInv' /\ AcceptedJoined'
    <3>1. \A g \in Families, v \in Users :
              members'[g][v].role \in {"admin", "owner"} => <<g, v>> \in trusted'
      BY <1>4, <2>5, Facts DEF TrustInv
    <3>2. QED
      BY <1>4, <3>1, Facts DEF TrustInv, AcceptedJoined, Exists
  <2>12. \A s \in Requests \ {r} : At(s, "Create", "Create") =>
            families'[req[s].family].owner = None
    <3>1. ASSUME NEW s \in Requests, At(s, "Create", "Create")
          PROVE  families'[req[s].family].owner = None
      BY <1>4, <3>1, Facts DEF OpInv, CreateInv, At, Running
    <3>2. QED
      BY <3>1
  <2>13. At(r, "Create", "AddMember") =>
            members'[req[r].family][families'[req[r].family].owner].role # "none"
    <3>1. ASSUME At(r, "Create", "AddMember")
          PROVE  /\ req[r].family = f /\ req[r].target = u
                 /\ families[f].owner = u /\ families' = families
      <4>1. CreateInv(req[r])
        BY <3>1, Facts DEF OpInv, At, Running
      <4>2. QED
        BY <1>1, <1>4, <3>1, <4>1 DEF CreateInv, At
    <3>2. QED
      BY <2>5, <3>1
  <2>14. IInv'
    BY <1>4, <2>3, <2>7, <2>8, <2>9, <2>10, <2>11, <2>12, <2>13, StepInv
  <2>15. Promise!Enrol(f, u, role, by)
    BY <1>2, <1>4 DEF Promise!Enrol, Promise!Trust
  <2>16. QED
    BY <1>2, <2>14, <2>15 DEF Kept, Promise!Next, Roles
<1>5. QED
  BY <1>1, <1>3, <1>4 DEF InsertMember

LEMMA DeleteMemberStep ==
    ASSUME IInv, NEW r \in Requests, At(r, "RemoveMember", "RemoveMember"), DeleteMember(r)
    PROVE  IInv' /\ Kept
<1>1. PICK f, u : f = req[r].family /\ u = req[r].target
  OBVIOUS
<1>2. /\ f \in Families /\ u \in Users /\ u # families[f].owner /\ families[f].owner # None
      /\ req[r] \in Request /\ req[r].at \in Running
  BY <1>1, Facts, ConstantsAssumption
  DEF OpInv, RemoveInv, At, Running, ConstantsAssumption
<1>3. CASE members[f][u].role = "none" /\ Refuse(r) /\ UNCHANGED <<database, counters, history>>
  <2>1. faults = 0 => ~req[r].wrote
    BY <1>2, NothingWritten DEF At
  <2>2. asked' \in Nat /\ faults' = faults /\ faults \in Nat
    BY <1>3, Facts DEF counters
  <2>3. QED
    BY <1>2, <1>3, <2>1, <2>2, RefuseStep DEF At
<1>4. CASE /\ members[f][u].role # "none"
           /\ members' = [members EXCEPT ![f][u] = NoMember]
           /\ Become(r, [req[r] EXCEPT !.at = "answered", !.wrote = TRUE])
           /\ UNCHANGED <<families, invitations, counters, history>>
  <2>1. [req[r] EXCEPT !.at = "answered", !.wrote = TRUE] \in Request
    BY <1>2, WroteType
  <2>2. PICK q \in Request : q = [req[r] EXCEPT !.at = "answered", !.wrote = TRUE]
    BY <2>1
  <2>3. Become(r, q) /\ q.at = "answered"
    BY <1>2, <1>4, <2>2 DEF Request
  <2>4. members \in [Families -> [Users -> Member]] /\ NoMember \in Member
    BY Facts DEF TypeOK, Member, NoMember
  <2>5. /\ members' \in [Families -> [Users -> Member]] /\ members'[f][u] = NoMember
        /\ \A g \in Families, v \in Users : g # f \/ v # u => members'[g][v] = members[g][v]
    BY <1>2, <1>4, <2>4
  <2>6. TablesType'
    BY <1>4, <2>5, Facts DEF TypeOK, TablesType, counters, history
  <2>7. UNCHANGED <<trusted, joined, faults>>
    BY <1>4 DEF counters, history
  <2>8. Grown
    <3>1. \A g \in Families : families[g].owner \in Users \cup {None}
      BY Facts DEF TypeOK, Family
    <3>2. \A g \in Families : families[g].owner # None
              /\ members[g][families[g].owner].role # "none" =>
              members'[g][families[g].owner].role # "none"
      BY <1>2, <2>5, <3>1
    <3>3. QED
      BY <1>4, <2>7, <3>2 DEF Grown, IsMember, Exists
  <2>9. OpInv(q)' /\ WroteInv(q)'
    BY <2>3 DEF OpInv, WroteInv, Running
  <2>10. TrustInv' /\ AcceptedJoined'
    <3>1. \A g \in Families, v \in Users :
              members'[g][v].role \in {"admin", "owner"} => <<g, v>> \in trusted
      BY <2>5, Facts DEF TrustInv, NoMember
    <3>2. QED
      BY <1>4, <2>7, <3>1, Facts DEF TrustInv, AcceptedJoined, Exists
  <2>11. \A s \in Requests \ {r} : At(s, "Create", "Create") =>
            families'[req[s].family].owner = None
    <3>1. ASSUME NEW s \in Requests, At(s, "Create", "Create")
          PROVE  families'[req[s].family].owner = None
      BY <1>4, <3>1, Facts DEF OpInv, CreateInv, At, Running
    <3>2. QED
      BY <3>1
  <2>12. IInv'
    BY <1>4, <2>3, <2>6, <2>8, <2>9, <2>10, <2>11, StepInv DEF At
  <2>13. Promise!Dismiss(f, u)
    BY <1>2, <1>4, <2>7 DEF Promise!Dismiss, NoMember
  <2>14. QED
    BY <1>2, <2>12, <2>13 DEF Kept, Promise!Next
<1>5. QED
  BY <1>1, <1>3, <1>4 DEF DeleteMember

\* A write to the invitations, or to a family's name, that ends its request
\* successfully.
LEMMA OtherWrite ==
    ASSUME IInv, NEW r \in Requests, req[r].at \in Running, req[r].op # "Create",
           Become(r, [req[r] EXCEPT !.at = "answered", !.wrote = TRUE]),
           UNCHANGED <<members, counters, history>>, TablesType',
           \A f \in Families : families'[f].owner = families[f].owner,
           TrustInv', AcceptedJoined',
           \A c \in Codes : Exists(c) =>
              /\ Exists(c)'
              /\ invitations'[c].family = invitations[c].family
              /\ invitations'[c].to = invitations[c].to
              /\ invitations'[c].by = invitations[c].by
    PROVE  IInv' /\ Kept
<1>1. req[r] \in Request
  BY Facts
<1>2. [req[r] EXCEPT !.at = "answered", !.wrote = TRUE] \in Request
  BY <1>1, WroteType
<1>3. PICK q \in Request : q = [req[r] EXCEPT !.at = "answered", !.wrote = TRUE]
  BY <1>2
<1>4. Become(r, q) /\ q.at = "answered"
  BY <1>1, <1>3 DEF Request
<1>5. UNCHANGED <<members, trusted, joined, faults>>
  BY DEF counters, history
<1>6. Grown
  BY <1>5 DEF Grown, IsMember
<1>7. OpInv(q)' /\ WroteInv(q)'
  BY <1>4 DEF OpInv, WroteInv, Running
<1>8. \A s \in Requests \ {r} : At(s, "Create", "Create") =>
          families'[req[s].family].owner = None
  <2>1. ASSUME NEW s \in Requests, At(s, "Create", "Create")
        PROVE  families'[req[s].family].owner = None
    BY <2>1, Facts DEF OpInv, CreateInv, At, Running
  <2>2. QED
    BY <2>1
<1>9. IInv'
  BY <1>4, <1>6, <1>7, <1>8, StepInv DEF At
<1>10. UNCHANGED Promise!view
  BY <1>5 DEF Promise!view
<1>11. QED
  BY <1>9, <1>10 DEF Kept

LEMMA InsertInvitationStep ==
    ASSUME IInv, NEW r \in Requests, At(r, "Invite", "CreateInvitation"), InsertInvitation(r)
    PROVE  IInv' /\ Kept
<1>1. /\ req[r].family \in Families /\ req[r].target \in Users /\ req[r].user \in Users
      /\ <<req[r].family, req[r].user>> \in trusted /\ req[r].at \in Running
  BY Facts DEF OpInv, InviteInv, At, Running
<1>2. PICK f, u, v : f = req[r].family /\ u = req[r].user /\ v = req[r].target
  OBVIOUS
<1>3. PICK c \in Codes :
          \/ /\ invitations[c].status = "none"
             /\ invitations' = [invitations EXCEPT ![c] =
                  [status |-> "pending", family |-> f, to |-> v, by |-> u, expired |-> FALSE]]
             /\ Become(r, [req[r] EXCEPT !.at = "answered", !.wrote = TRUE])
             /\ UNCHANGED <<families, members, counters, history>>
          \/ Refuse(r) /\ UNCHANGED <<database, counters, history>>
  BY <1>2 DEF InsertInvitation
<1>4. CASE Refuse(r) /\ UNCHANGED <<database, counters, history>>
  <2>1. faults = 0 => ~req[r].wrote
    BY <1>1, NothingWritten DEF At
  <2>2. asked' \in Nat /\ faults' = faults /\ faults \in Nat
    BY <1>4, Facts DEF counters
  <2>3. QED
    BY <1>1, <1>4, <2>1, <2>2, RefuseStep DEF At
<1>5. CASE /\ invitations[c].status = "none"
           /\ invitations' = [invitations EXCEPT ![c] =
                [status |-> "pending", family |-> f, to |-> v, by |-> u, expired |-> FALSE]]
           /\ Become(r, [req[r] EXCEPT !.at = "answered", !.wrote = TRUE])
           /\ UNCHANGED <<families, members, counters, history>>
  <2> DEFINE new == [status |-> "pending", family |-> f, to |-> v, by |-> u, expired |-> FALSE]
  <2>1. /\ new \in Invitation /\ new.status = "pending" /\ new.family = f
        /\ new.to = v /\ new.by = u
    BY <1>1, <1>2 DEF Invitation
  <2>2. invitations' = [invitations EXCEPT ![c] = new]
    BY <1>5
  <2> HIDE DEF new
  <2>3. invitations \in [Codes -> Invitation]
    BY Facts DEF TypeOK
  <2>4. /\ invitations' \in [Codes -> Invitation] /\ invitations'[c] = new
        /\ \A d \in Codes \ {c} : invitations'[d] = invitations[d]
    BY <2>1, <2>2, <2>3
  <2>5. TablesType'
    BY <1>5, <2>4, Facts DEF TypeOK, TablesType, counters, history
  <2>6. TrustInv' /\ AcceptedJoined'
    BY <1>1, <1>2, <1>5, <2>1, <2>4, Facts
    DEF TrustInv, AcceptedJoined, Exists, history
  <2>7. \A d \in Codes : Exists(d) =>
            /\ Exists(d)'
            /\ invitations'[d].family = invitations[d].family
            /\ invitations'[d].to = invitations[d].to
            /\ invitations'[d].by = invitations[d].by
    BY <1>5, <2>4 DEF Exists
  <2>8. QED
    BY <1>1, <1>5, <2>5, <2>6, <2>7, OtherWrite DEF At
<1>6. QED
  BY <1>3, <1>4, <1>5

LEMMA SetStatusStep ==
    ASSUME IInv, NEW r \in Requests, NEW status \in {"accepted", "revoked"},
           \/ At(r, "AcceptInvitation", "UpdateInvitation")
           \/ At(r, "RevokeInvitation", "UpdateInvitation") /\ status = "revoked",
           SetStatus(r, status)
    PROVE  IInv' /\ Kept
<1>1. PICK c : c = req[r].code
  OBVIOUS
<1>2. /\ c \in Codes /\ Exists(c) /\ req[r].at \in Running /\ req[r].op # "Create"
      /\ status = "accepted" => <<invitations[c].family, invitations[c].to>> \in joined
  BY <1>1, Facts DEF OpInv, AcceptInv, RevokeInv, At, Running
<1>3. /\ invitations' = [invitations EXCEPT ![c].status = status]
      /\ Become(r, [req[r] EXCEPT !.at = "answered", !.wrote = TRUE])
      /\ UNCHANGED <<families, members, counters, history>>
  BY <1>1 DEF SetStatus
<1>4. invitations \in [Codes -> Invitation]
  BY Facts DEF TypeOK
<1>5. [invitations[c] EXCEPT !.status = status] \in Invitation
  BY <1>2, <1>4 DEF Invitation
<1>6. /\ invitations' \in [Codes -> Invitation] /\ invitations'[c].status = status
      /\ invitations'[c].family = invitations[c].family
      /\ invitations'[c].to = invitations[c].to /\ invitations'[c].by = invitations[c].by
      /\ \A d \in Codes \ {c} : invitations'[d] = invitations[d]
  BY <1>2, <1>3, <1>4, <1>5 DEF Invitation
<1>7. TablesType'
  BY <1>3, <1>6, Facts DEF TypeOK, TablesType, counters, history
<1>8. TrustInv' /\ AcceptedJoined'
  BY <1>2, <1>3, <1>6, Facts DEF TrustInv, AcceptedJoined, Exists, history
<1>9. \A d \in Codes : Exists(d) =>
          /\ Exists(d)'
          /\ invitations'[d].family = invitations[d].family
          /\ invitations'[d].to = invitations[d].to
          /\ invitations'[d].by = invitations[d].by
  BY <1>2, <1>6 DEF Exists
<1>10. QED
  BY <1>2, <1>3, <1>7, <1>8, <1>9, OtherWrite

LEMMA RenameStep ==
    ASSUME IInv, NEW r \in Requests, At(r, "Update", "Update"), RenameFamily(r)
    PROVE  IInv' /\ Kept
<1>1. /\ req[r].family \in Families /\ req[r].name \in Names /\ req[r].at \in Running
      /\ req[r].op # "Create"
  BY Facts DEF OpInv, UpdateInv, At, Running
<1>2. families \in [Families -> Family]
  BY Facts DEF TypeOK
<1>3. [families[req[r].family] EXCEPT !.name = req[r].name] \in Family
  BY <1>1, <1>2 DEF Family
<1>4. /\ families' \in [Families -> Family]
      /\ \A f \in Families : families'[f].owner = families[f].owner
  BY <1>1, <1>2, <1>3 DEF RenameFamily, Family
<1>5. UNCHANGED <<members, invitations, counters, history>>
  BY DEF RenameFamily
<1>6. TablesType'
  BY <1>4, <1>5, Facts DEF TypeOK, TablesType, counters, history
<1>7. TrustInv' /\ AcceptedJoined'
  BY <1>4, <1>5, Facts DEF TrustInv, AcceptedJoined, Exists, history
<1>8. QED
  BY <1>1, <1>4, <1>5, <1>6, <1>7, OtherWrite DEF RenameFamily, Exists

-----------------------------------------------------------------------------
(* The operations *)

LEMMA CreateStep ==
    ASSUME IInv, NEW r \in Requests, Create(r)
    PROVE  IInv' /\ Kept
<1>1. CASE At(r, "Create", "Create") /\ InsertFamily(r, "AddMember")
  BY <1>1, InsertFamilyStep
<1>2. CASE At(r, "Create", "AddMember") /\ InsertMember(r, "answered")
  BY <1>2, InsertMemberStep DEF At
<1>3. QED
  BY <1>1, <1>2 DEF Create

\* A read that refuses the request.
LEMMA RefusedRead ==
    ASSUME IInv, NEW r \in Requests, Refuse(r), UNCHANGED <<database, counters, history>>,
           req[r].at \in Running, faults = 0 => ~req[r].wrote, req[r].op # "Create"
    PROVE  IInv' /\ Kept
<1>1. asked' \in Nat /\ faults' = faults /\ faults \in Nat
  BY Facts DEF counters
<1>2. QED
  BY <1>1, RefuseStep DEF At

\* isAdminOrOwner, for the two operations that begin with it.
LEMMA CheckStep ==
    ASSUME IInv, NEW r \in Requests, NEW then \in {"AddMember", "CreateInvitation"},
           \/ req[r].op = "AddMember" /\ then = "AddMember"
           \/ req[r].op = "Invite" /\ then = "CreateInvitation",
           isAdminOrOwner(r, then)
    PROVE  IInv' /\ Kept
<1>1. /\ req[r].at \in Running /\ req[r].op # "Create" /\ then \in Running
      /\ UNCHANGED <<database, counters, history>> /\ req[r] \in Request
      /\ OpInv(req[r]) /\ TrustInv
  BY Facts DEF isAdminOrOwner, Running
<1>2. faults = 0 => ~req[r].wrote
  BY <1>1, NothingWritten DEF isAdminOrOwner, At
<1>3. req[r].family \in Families /\ req[r].user \in Users
  BY <1>1 DEF OpInv, AddInv, InviteInv
<1>4. CASE Goto(r, then) /\ <<req[r].family, req[r].user>> \in trusted
  <2>1. OpInv([req[r] EXCEPT !.at = then])
    BY <1>1, <1>4 DEF OpInv, AddInv, InviteInv, Request
  <2>2. QED
    BY <1>1, <1>2, <1>4, <2>1, GotoStep
<1>5. CASE Goto(r, "ListMembers")
  <2>1. OpInv([req[r] EXCEPT !.at = "ListMembers"])
    BY <1>1 DEF OpInv, AddInv, InviteInv, Request
  <2>2. QED
    BY <1>1, <1>2, <1>5, <2>1, GotoStep DEF Running
<1>6. CASE Refuse(r)
  BY <1>1, <1>2, <1>6, RefusedRead
<1>7. QED
  <2>1. families[req[r].family].owner = req[r].user => <<req[r].family, req[r].user>> \in trusted
    BY <1>1, <1>3, ConstantsAssumption DEF TrustInv, ConstantsAssumption
  <2>2. members[req[r].family][req[r].user].role \in {"admin", "owner"} =>
            <<req[r].family, req[r].user>> \in trusted
    BY <1>1, <1>3 DEF TrustInv
  <2>3. QED
    BY <1>4, <1>5, <1>6, <2>1, <2>2 DEF isAdminOrOwner, Refuse

LEMMA AddMemberStep ==
    ASSUME IInv, NEW r \in Requests, AddMember(r)
    PROVE  IInv' /\ Kept
BY CheckStep, InsertMemberStep DEF AddMember

LEMMA InviteStep ==
    ASSUME IInv, NEW r \in Requests, Invite(r)
    PROVE  IInv' /\ Kept
BY CheckStep, InsertInvitationStep DEF Invite, At

LEMMA UpdateStep ==
    ASSUME IInv, NEW r \in Requests, Update(r)
    PROVE  IInv' /\ Kept
<1>1. CASE req[r].op = "Update" /\ OwnerOnly(r, "Update")
  <2>1. /\ req[r].at \in Running /\ req[r] \in Request /\ OpInv(req[r])
        /\ UNCHANGED <<database, counters, history>>
    BY <1>1, Facts DEF OwnerOnly, Running
  <2>2. faults = 0 => ~req[r].wrote
    BY <1>1, <2>1, NothingWritten DEF At
  <2>3. OpInv([req[r] EXCEPT !.at = "Update"])
    BY <1>1, <2>1 DEF OpInv, UpdateInv, Request
  <2>4. CASE Goto(r, "Update")
    BY <1>1, <2>1, <2>2, <2>3, <2>4, GotoStep DEF Running
  <2>5. CASE Refuse(r)
    BY <1>1, <2>1, <2>2, <2>5, RefusedRead
  <2>6. QED
    BY <1>1, <2>4, <2>5 DEF OwnerOnly, Refuse
<1>2. CASE req[r].op = "Update" /\ req[r].at = "Update" /\ RenameFamily(r)
  BY <1>2, RenameStep DEF At
<1>3. QED
  BY <1>1, <1>2 DEF Update

LEMMA RemoveStep ==
    ASSUME IInv, NEW r \in Requests, RemoveMember(r)
    PROVE  IInv' /\ Kept
<1> DEFINE then == IF req[r].target = req[r].user THEN "refused" ELSE "RemoveMember"
<1>1. CASE req[r].op = "RemoveMember" /\ OwnerOnly(r, then)
  <2>1. /\ req[r].at \in Running /\ req[r] \in Request /\ OpInv(req[r])
        /\ UNCHANGED <<database, counters, history>>
    BY <1>1, Facts DEF OwnerOnly, Running
  <2>2. faults = 0 => ~req[r].wrote
    BY <1>1, <2>1, NothingWritten DEF At
  <2>3. CASE /\ Goto(r, "RemoveMember") /\ req[r].target # req[r].user
             /\ families[req[r].family].owner = req[r].user
    <3>1. OpInv([req[r] EXCEPT !.at = "RemoveMember"])
      BY <1>1, <2>1, <2>3 DEF OpInv, RemoveInv, Request
    <3>2. QED
      BY <1>1, <2>1, <2>2, <2>3, <3>1, GotoStep DEF Running
  <2>4. CASE Refuse(r)
    BY <1>1, <2>1, <2>2, <2>4, RefusedRead
  <2>5. QED
    BY <1>1, <2>3, <2>4 DEF OwnerOnly, Refuse
<1>2. CASE req[r].op = "RemoveMember" /\ req[r].at = "RemoveMember" /\ DeleteMember(r)
  BY <1>2, DeleteMemberStep DEF At
<1>3. QED
  BY <1>1, <1>2 DEF RemoveMember

LEMMA ReadInvitationStep ==
    ASSUME IInv, NEW r \in Requests, At(r, "AcceptInvitation", "FindInvitationByCode"),
           ReadInvitation(r)
    PROVE  IInv' /\ Kept
<1>1. /\ req[r].at \in Running /\ req[r].op = "AcceptInvitation" /\ req[r] \in Request
      /\ req[r].code \in Codes /\ req[r].user \in Users
      /\ UNCHANGED <<database, counters, history>>
  BY Facts DEF ReadInvitation, At, Running, OpInv, AcceptInv
<1>2. faults = 0 => ~req[r].wrote
  BY <1>1, NothingWritten DEF At
<1>3. CASE Refuse(r)
  BY <1>1, <1>2, <1>3, RefusedRead
<1>4. CASE Usable(req[r].code)
  <2> DEFINE inv == invitations[req[r].code]
             new == [req[r] EXCEPT !.at = "FindUser", !.family = inv.family, !.by = inv.by,
                                   !.target = req[r].user, !.role = "member"]
  <2>1. /\ Exists(req[r].code) /\ inv.family \in Families /\ inv.by \in Users
    BY <1>1, <1>4, Facts DEF TrustInv, Usable, Exists
  <2>2. /\ new \in Request /\ new.at = "FindUser" /\ new.family = inv.family
        /\ new.by = inv.by /\ new.target = req[r].user /\ new.role = "member"
        /\ new.op = req[r].op /\ new.user = req[r].user /\ new.code = req[r].code
        /\ new.wrote = req[r].wrote
    BY <1>1, <2>1 DEF Request, Running, Roles
  <2>3. Become(r, new)
    BY <1>4 DEF ReadInvitation
  <2> HIDE DEF new
  <2>4. PICK q \in Request : q = new
    BY <2>2
  <2>5. OpInv(q)
    BY <1>1, <2>1, <2>2, <2>4 DEF OpInv, AcceptInv
  <2>6. WroteInv(q)
    BY <1>2, <2>2, <2>4 DEF WroteInv
  <2>7. asked' \in Nat /\ faults' = faults /\ faults \in Nat
    BY <1>1, Facts DEF counters
  <2>8. QED
    BY <1>1, <2>2, <2>3, <2>4, <2>5, <2>6, <2>7, QuietStep DEF At
<1>5. QED
  BY <1>3, <1>4 DEF ReadInvitation

LEMMA MatchStep ==
    ASSUME IInv, NEW r \in Requests, At(r, "AcceptInvitation", "FindUser"), MatchAddress(r)
    PROVE  IInv' /\ Kept
<1>1. /\ req[r].at \in Running /\ req[r].op = "AcceptInvitation" /\ req[r] \in Request
      /\ UNCHANGED <<database, counters, history>> /\ OpInv(req[r])
  BY Facts DEF MatchAddress, At, Running
<1>2. faults = 0 => ~req[r].wrote
  BY <1>1, NothingWritten DEF At
<1>3. CASE Goto(r, "AddMember") /\ req[r].user = invitations[req[r].code].to
  <2>1. OpInv([req[r] EXCEPT !.at = "AddMember"])
    BY <1>1, <1>3 DEF OpInv, AcceptInv, Request, At
  <2>2. QED
    BY <1>1, <1>2, <1>3, <2>1, GotoStep DEF Running
<1>4. CASE Refuse(r)
  BY <1>1, <1>2, <1>4, RefusedRead
<1>5. QED
  BY <1>3, <1>4 DEF MatchAddress, Refuse

LEMMA AcceptStep ==
    ASSUME IInv, NEW r \in Requests, AcceptInvitation(r)
    PROVE  IInv' /\ Kept
<1>1. CASE At(r, "AcceptInvitation", "AddMember") /\ InsertMember(r, "UpdateInvitation")
  BY <1>1, InsertMemberStep DEF At
<1>2. CASE At(r, "AcceptInvitation", "UpdateInvitation") /\ SetStatus(r, "accepted")
  BY <1>2, SetStatusStep
<1>3. QED
  BY <1>1, <1>2, ReadInvitationStep, MatchStep DEF AcceptInvitation

LEMMA NextFamilyStep ==
    ASSUME IInv, NEW r \in Requests, NEW left \in SUBSET Families, NextFamily(r, left),
           req[r].op = "RevokeInvitation", req[r].at \in Running, req[r].at # "UpdateInvitation",
           UNCHANGED <<database, counters, history>>
    PROVE  IInv' /\ Kept
<1>1. req[r] \in Request /\ OpInv(req[r])
  BY Facts
<1>2. faults = 0 => ~req[r].wrote
  BY NothingWritten DEF At
<1>3. CASE Refuse(r)
  BY <1>2, <1>3, RefusedRead
<1>4. ASSUME NEW f \in left, NEW at \in {"ListInvitations", "ListMembers"},
             Become(r, [req[r] EXCEPT !.family = f, !.left = left \ {f}, !.at = at])
      PROVE  IInv' /\ Kept
  <2> DEFINE new == [req[r] EXCEPT !.family = f, !.left = left \ {f}, !.at = at]
  <2>1. /\ new \in Request /\ new.at = at /\ new.family = f /\ new.op = req[r].op
        /\ new.user = req[r].user /\ new.code = req[r].code /\ new.wrote = req[r].wrote
    <3>1. f \in Families /\ left \ {f} \in SUBSET Families /\ at \in Running
      BY DEF Running
    <3>2. \A rest \in SUBSET Families :
            LET moved == [req[r] EXCEPT !.family = f, !.left = rest, !.at = at] IN
            /\ moved \in Request /\ moved.at = at /\ moved.family = f
            /\ moved.op = req[r].op /\ moved.user = req[r].user
            /\ moved.code = req[r].code /\ moved.wrote = req[r].wrote
      BY <1>1, <3>1 DEF Request
    <3>3. DEFINE rest == left \ {f}
    <3>4. rest \in SUBSET Families
      BY <3>1
    <3>5. QED
      BY <3>2, <3>4
  <2>2. Become(r, new)
    BY <1>4
  <2> HIDE DEF new
  <2>3. PICK q \in Request : q = new
    BY <2>1
  <2>4. OpInv(q)
    BY <1>1, <2>1, <2>3 DEF OpInv, RevokeInv
  <2>5. WroteInv(q)
    BY <1>2, <2>1, <2>3 DEF WroteInv
  <2>6. asked' \in Nat /\ faults' = faults /\ faults \in Nat
    BY Facts DEF counters
  <2>7. QED
    BY <2>1, <2>2, <2>3, <2>4, <2>5, <2>6, QuietStep DEF At
<1>5. QED
  BY <1>3, <1>4 DEF NextFamily

LEMMA RevokeStep ==
    ASSUME IInv, NEW r \in Requests, RevokeInvitation(r)
    PROVE  IInv' /\ Kept
<1>1. req[r].op = "RevokeInvitation" /\ req[r] \in Request /\ OpInv(req[r])
  BY Facts DEF RevokeInvitation, At
<1>2. CASE At(r, "RevokeInvitation", "UpdateInvitation") /\ SetStatus(r, "revoked")
  BY <1>2, SetStatusStep
<1>3. CASE req[r].at \in {"ListByUser", "ListMembers", "ListInvitations"}
  <2>1. /\ req[r].at \in Running /\ UNCHANGED <<database, counters, history>>
        /\ req[r].left \in SUBSET Families /\ ListByUser(req[r].user) \in SUBSET Families
    BY <1>1, <1>3 DEF RevokeInvitation, At, Running, Request, ListByUser
  <2>2. faults = 0 => ~req[r].wrote
    BY <1>1, <1>3, <2>1, NothingWritten DEF At
  <2>3. CASE NextFamily(r, ListByUser(req[r].user)) \/ NextFamily(r, req[r].left)
    BY <1>1, <1>3, <2>1, <2>3, NextFamilyStep
  <2>4. CASE Goto(r, "ListInvitations") /\ req[r].at = "ListMembers"
    <3>1. req[r].family \in Families
      BY <1>1, <1>3, <2>1, <2>4 DEF OpInv, RevokeInv
    <3>2. OpInv([req[r] EXCEPT !.at = "ListInvitations"])
      BY <1>1, <2>1, <3>1 DEF OpInv, RevokeInv, Request
    <3>3. QED
      BY <1>1, <2>1, <2>2, <2>4, <3>2, GotoStep DEF Running
  <2>5. CASE /\ Goto(r, "UpdateInvitation") /\ req[r].at = "ListInvitations"
             /\ invitations[req[r].code].family = req[r].family
    <3>1. req[r].family \in Families /\ req[r].code \in Codes
      BY <1>1, <2>1, <2>5 DEF OpInv, RevokeInv
    <3>2. Exists(req[r].code)
      BY <2>5, <3>1, Facts, ConstantsAssumption DEF TrustInv, ConstantsAssumption
    <3>3. OpInv([req[r] EXCEPT !.at = "UpdateInvitation"])
      BY <1>1, <2>1, <3>1, <3>2 DEF OpInv, RevokeInv, Request
    <3>4. QED
      BY <1>1, <2>1, <2>2, <2>5, <3>3, GotoStep DEF Running
  <2>6. QED
    BY <1>3, <2>3, <2>4, <2>5 DEF RevokeInvitation, At
<1>4. QED
  BY <1>2, <1>3 DEF RevokeInvitation, At

LEMMA ReadStep ==
    ASSUME IInv, NEW r \in Requests, Get(r) \/ ListMy(r) \/ ListInvitations(r) \/ ListMembers(r)
    PROVE  IInv' /\ Kept
<1>1. /\ req[r].at \in Running /\ req[r] \in Request /\ OpInv(req[r])
      /\ req[r].op \in {"Get", "ListMy", "ListInvitations", "ListMembers"}
      /\ UNCHANGED <<database, counters, history>>
      /\ \E at \in {"Fetch", "answered", "refused"} : Goto(r, at)
  BY Facts DEF Get, ListMy, ListInvitations, ListMembers, MemberRead, At, Running
<1>2. faults = 0 => ~req[r].wrote
  BY <1>1, NothingWritten DEF At
<1>3. ASSUME NEW at \in {"Fetch", "answered", "refused"}, Goto(r, at)
      PROVE  IInv' /\ Kept
  <2>1. OpInv([req[r] EXCEPT !.at = at])
    BY <1>1 DEF OpInv, Request
  <2>2. at \in Running \cup {"answered", "refused"}
    BY DEF Running
  <2>3. QED
    BY <1>1, <1>2, <1>3, <2>1, <2>2, GotoStep
<1>4. QED
  BY <1>1, <1>3

-----------------------------------------------------------------------------
(* Arrivals, ends and failures *)

\* What a handler passes on is well formed.
LEMMA AsksFacts ==
    ASSUME NEW r \in Requests, NEW u \in Users, Asks(r, u)
    PROVE  \E q \in Request : /\ Become(r, q) /\ OpInv(q) /\ ~q.wrote
                              /\ q.at \in {"Create", "FindByID", "ListByUser", "IsMember",
                                          "FindInvitationByCode"}
                              /\ q.op = "Create" => q.family \in Fresh
<1>1. Idle \in Request /\ ~Idle.wrote
  BY DEF Idle, Request
<1>2. CASE CreateFamily(r, u)
  <2>1. PICK f \in Fresh, n \in Names :
            Become(r, [Idle EXCEPT !.at = "Create", !.op = "Create", !.user = u, !.family = f,
                !.name = n, !.target = u, !.role = "owner", !.by = u])
    BY <1>2 DEF CreateFamily
  <2> DEFINE q ==
        [Idle EXCEPT !.at = "Create", !.op = "Create", !.user = u, !.family = f, !.name =
            n, !.target = u, !.role = "owner", !.by = u]
  <2>2. q \in Request
    BY ZenonT(60), <1>1 DEF Request, Running, Operations, Roles, Fresh
  <2>3. q.at = "Create" /\ q.op = "Create" /\ q.user = u /\ q.family = f /\ q.name = n /\
           q.target = u /\ q.role = "owner" /\ q.by = u /\ ~q.wrote
    BY <1>1 DEF Request
  <2> HIDE DEF q
  <2>4. OpInv(q)
    BY <2>3 DEF OpInv, CreateInv, Fresh
  <2>5. QED
    BY <2>1, <2>2, <2>3, <2>4 DEF q
<1>3. CASE UpdateFamily(r, u)
  <2>1. PICK f \in Families, n \in Names :
            Become(r, [Idle EXCEPT !.at = "FindByID", !.op = "Update", !.user = u, !.family =
                f, !.name = n])
    BY <1>3 DEF UpdateFamily
  <2> DEFINE q ==
        [Idle EXCEPT !.at = "FindByID", !.op = "Update", !.user = u, !.family = f, !.name
            = n]
  <2>2. q \in Request
    BY <1>1 DEF Request, Running, Operations, Roles
  <2>3. q.at = "FindByID" /\ q.op = "Update" /\ q.user = u /\ q.family = f /\ q.name = n
           /\ ~q.wrote
    BY <1>1 DEF Request
  <2> HIDE DEF q
  <2>4. OpInv(q)
    BY <2>3 DEF OpInv, UpdateInv
  <2>5. QED
    BY <2>1, <2>2, <2>3, <2>4 DEF q
<1>4. CASE AddFamilyMember(r, u)
  <2>1. PICK f \in Families, v \in Users, role \in Roles :
            Become(r, [Idle EXCEPT !.at = "FindByID", !.op = "AddMember", !.user = u, !.family
                = f, !.target = v, !.role = role, !.by = u])
    BY <1>4 DEF AddFamilyMember
  <2> DEFINE q ==
        [Idle EXCEPT !.at = "FindByID", !.op = "AddMember", !.user = u, !.family = f,
            !.target = v, !.role = role, !.by = u]
  <2>2. q \in Request
    BY ZenonT(60), <1>1 DEF Request, Running, Operations, Roles
  <2>3. q.at = "FindByID" /\ q.op = "AddMember" /\ q.user = u /\ q.family = f /\ q.target
           = v /\ q.role = role /\ q.by = u /\ ~q.wrote
    BY <1>1 DEF Request
  <2> HIDE DEF q
  <2>4. OpInv(q)
    BY <2>3 DEF OpInv, AddInv
  <2>5. QED
    BY <2>1, <2>2, <2>3, <2>4 DEF q
<1>5. CASE RemoveFamilyMember(r, u)
  <2>1. PICK f \in Families, v \in Users :
            Become(r, [Idle EXCEPT !.at = "FindByID", !.op = "RemoveMember", !.user = u,
                !.family = f, !.target = v])
    BY <1>5 DEF RemoveFamilyMember
  <2> DEFINE q ==
        [Idle EXCEPT !.at = "FindByID", !.op = "RemoveMember", !.user = u, !.family = f,
            !.target = v]
  <2>2. q \in Request
    BY <1>1 DEF Request, Running, Operations, Roles
  <2>3. q.at = "FindByID" /\ q.op = "RemoveMember" /\ q.user = u /\ q.family = f /\
           q.target = v /\ ~q.wrote
    BY <1>1 DEF Request
  <2> HIDE DEF q
  <2>4. OpInv(q)
    BY <2>3 DEF OpInv, RemoveInv
  <2>5. QED
    BY <2>1, <2>2, <2>3, <2>4 DEF q
<1>6. CASE InviteMember(r, u)
  <2>1. PICK f \in Families, v \in Users :
            Become(r, [Idle EXCEPT !.at = "FindByID", !.op = "Invite", !.user = u, !.family =
                f, !.target = v])
    BY <1>6 DEF InviteMember
  <2> DEFINE q ==
        [Idle EXCEPT !.at = "FindByID", !.op = "Invite", !.user = u, !.family = f,
            !.target = v]
  <2>2. q \in Request
    BY <1>1 DEF Request, Running, Operations, Roles
  <2>3. q.at = "FindByID" /\ q.op = "Invite" /\ q.user = u /\ q.family = f /\ q.target = v
           /\ ~q.wrote
    BY <1>1 DEF Request
  <2> HIDE DEF q
  <2>4. OpInv(q)
    BY <2>3 DEF OpInv, InviteInv
  <2>5. QED
    BY <2>1, <2>2, <2>3, <2>4 DEF q
<1>7. CASE AcceptFamilyInvitation(r, u)
  <2>1. PICK c \in Codes :
            Become(r, [Idle EXCEPT !.at = "FindInvitationByCode", !.op = "AcceptInvitation",
                !.user = u, !.code = c])
    BY <1>7 DEF AcceptFamilyInvitation
  <2> DEFINE q ==
        [Idle EXCEPT !.at = "FindInvitationByCode", !.op = "AcceptInvitation", !.user = u,
            !.code = c]
  <2>2. q \in Request
    BY <1>1 DEF Request, Running, Operations, Roles
  <2>3. q.at = "FindInvitationByCode" /\ q.op = "AcceptInvitation" /\ q.user = u /\ q.code
           = c /\ ~q.wrote
    BY <1>1 DEF Request
  <2> HIDE DEF q
  <2>4. OpInv(q)
    BY <2>3 DEF OpInv, AcceptInv
  <2>5. QED
    BY <2>1, <2>2, <2>3, <2>4 DEF q
<1>8. CASE RevokeFamilyInvitation(r, u)
  <2>1. PICK c \in Codes :
            Become(r, [Idle EXCEPT !.at = "ListByUser", !.op = "RevokeInvitation", !.user = u,
                !.code = c])
    BY <1>8 DEF RevokeFamilyInvitation
  <2> DEFINE q ==
        [Idle EXCEPT !.at = "ListByUser", !.op = "RevokeInvitation", !.user = u, !.code =
            c]
  <2>2. q \in Request
    BY <1>1 DEF Request, Running, Operations, Roles
  <2>3. q.at = "ListByUser" /\ q.op = "RevokeInvitation" /\ q.user = u /\ q.code = c /\
           ~q.wrote
    BY <1>1 DEF Request
  <2> HIDE DEF q
  <2>4. OpInv(q)
    BY <2>3 DEF OpInv, RevokeInv
  <2>5. QED
    BY <2>1, <2>2, <2>3, <2>4 DEF q
<1>9. CASE ListMyFamilies(r, u)
  <2>1. Become(r, [Idle EXCEPT !.at = "ListByUser", !.op = "ListMy", !.user = u])
    BY <1>9 DEF ListMyFamilies
  <2> DEFINE q ==
        [Idle EXCEPT !.at = "ListByUser", !.op = "ListMy", !.user = u]
  <2>2. q \in Request
    BY <1>1 DEF Request, Running, Operations, Roles
  <2>3. q.at = "ListByUser" /\ q.op = "ListMy" /\ q.user = u /\ ~q.wrote
    BY <1>1 DEF Request
  <2> HIDE DEF q
  <2>4. OpInv(q)
    BY <2>3 DEF OpInv
  <2>5. QED
    BY <2>1, <2>2, <2>3, <2>4 DEF q
<1>10. CASE GetFamily(r, u)
  <2>1. PICK f \in Families :
            Become(r, [Idle EXCEPT !.at = "IsMember", !.op = "Get", !.user = u, !.family = f])
    BY <1>10 DEF GetFamily
  <2> DEFINE q ==
        [Idle EXCEPT !.at = "IsMember", !.op = "Get", !.user = u, !.family = f]
  <2>2. q \in Request
    BY <1>1 DEF Request, Running, Operations, Roles
  <2>3. q.at = "IsMember" /\ q.op = "Get" /\ q.user = u /\ q.family = f /\ ~q.wrote
    BY <1>1 DEF Request
  <2> HIDE DEF q
  <2>4. OpInv(q)
    BY <2>3 DEF OpInv
  <2>5. QED
    BY <2>1, <2>2, <2>3, <2>4 DEF q
<1>11. CASE ListFamilyInvitations(r, u)
  <2>1. PICK f \in Families :
            Become(r, [Idle EXCEPT !.at = "IsMember", !.op = "ListInvitations", !.user = u,
                !.family = f])
    BY <1>11 DEF ListFamilyInvitations
  <2> DEFINE q ==
        [Idle EXCEPT !.at = "IsMember", !.op = "ListInvitations", !.user = u, !.family =
            f]
  <2>2. q \in Request
    BY <1>1 DEF Request, Running, Operations, Roles
  <2>3. q.at = "IsMember" /\ q.op = "ListInvitations" /\ q.user = u /\ q.family = f /\
           ~q.wrote
    BY <1>1 DEF Request
  <2> HIDE DEF q
  <2>4. OpInv(q)
    BY <2>3 DEF OpInv
  <2>5. QED
    BY <2>1, <2>2, <2>3, <2>4 DEF q
<1>12. CASE ListFamilyMembers(r, u)
  <2>1. PICK f \in Families :
            Become(r, [Idle EXCEPT !.at = "IsMember", !.op = "ListMembers", !.user = u,
                !.family = f])
    BY <1>12 DEF ListFamilyMembers
  <2> DEFINE q ==
        [Idle EXCEPT !.at = "IsMember", !.op = "ListMembers", !.user = u, !.family = f]
  <2>2. q \in Request
    BY <1>1 DEF Request, Running, Operations, Roles
  <2>3. q.at = "IsMember" /\ q.op = "ListMembers" /\ q.user = u /\ q.family = f /\
           ~q.wrote
    BY <1>1 DEF Request
  <2> HIDE DEF q
  <2>4. OpInv(q)
    BY <2>3 DEF OpInv
  <2>5. QED
    BY <2>1, <2>2, <2>3, <2>4 DEF q
<1>13. QED
  BY <1>2, <1>3, <1>4, <1>5, <1>6, <1>7, <1>8, <1>9, <1>10, <1>11, <1>12 DEF Asks

LEMMA ReceiveStep ==
    ASSUME IInv, NEW r \in Requests, NEW u \in Users, Receive(r, u)
    PROVE  IInv' /\ Kept
<1>1. Asks(r, u) /\ ~At(r, "Create", "AddMember")
  BY DEF Receive, At
<1>2. UNCHANGED <<database, history>> /\ faults' = faults /\ asked' \in Nat /\ faults \in Nat
  BY Facts DEF Receive
<1>3. ASSUME NEW q \in Request, Become(r, q), OpInv(q), ~q.wrote,
             q.op = "Create" => q.family \in Fresh
      PROVE  IInv' /\ Kept
  <2>1. WroteInv(q)
    BY <1>3 DEF WroteInv
  <2>2. \A s \in Requests \ {r} : At(s, "Create", "Create") =>
            ~(q.op = "Create" /\ q.at = "Create" /\ q.family = req[s].family)
    BY <1>3 DEF Fresh
  <2>3. QED
    BY <1>1, <1>2, <1>3, <2>1, <2>2, QuietStep
<1>4. QED
  BY <1>1, <1>3, AsksFacts

LEMMA FinishStep ==
    ASSUME IInv, NEW r \in Requests, Finish(r)
    PROVE  IInv' /\ Kept
<1>1. Idle \in Request /\ Idle.at = "idle" /\ ~Idle.wrote
  BY DEF Idle, Request
<1>2. PICK q \in Request : q = Idle
  BY <1>1
<1>3. OpInv(q) /\ WroteInv(q)
  BY <1>1, <1>2 DEF OpInv, WroteInv, Running
<1>4. UNCHANGED <<database, history>> /\ faults' = faults /\ asked' \in Nat /\ faults \in Nat
  BY Facts DEF Finish, counters
<1>5. QED
  BY <1>1, <1>2, <1>3, <1>4, QuietStep DEF Finish, At

LEMMA StatementFailsStep ==
    ASSUME IInv, NEW r \in Requests, StatementFails(r)
    PROVE  IInv' /\ Kept
<1>1. /\ UNCHANGED <<database, history>> /\ asked' = asked /\ asked \in Nat
      /\ faults \in Nat /\ faults' = faults + 1
  BY Facts DEF StatementFails, Fault
<1>2. faults' \in Nat /\ faults' # 0
  BY <1>1
<1>3. QED
  BY <1>1, <1>2, RefuseStep DEF StatementFails

LEMMA CrashStep ==
    ASSUME IInv, Crash
    PROVE  IInv' /\ Kept
<1>1. /\ UNCHANGED <<families, members, invitations, trusted, joined>> /\ asked' = asked
      /\ faults \in Nat /\ faults' = faults + 1
  BY Facts DEF Crash, Fault, database, history, IInv, TypeOK
<1>2. faults' \in Nat /\ faults' # 0
  BY <1>1
<1>3. req \in [Requests -> Request]
  BY DEF IInv, TypeOK
<1>4. ASSUME NEW s \in Requests
      PROVE  /\ req'[s] \in Request /\ req'[s].at \notin Running
             /\ OpInv(req[s])' /\ WroteInv(req[s])'
  <2>1. req'[s] = IF req[s].at \in Running THEN [req[s] EXCEPT !.at = "refused"] ELSE req[s]
    BY DEF Crash
  <2>2. req'[s] \in Request /\ req'[s].at \notin Running
    BY <1>3, <2>1 DEF Request, Running
  <2>3. QED
    BY <1>2, <2>2 DEF OpInv, WroteInv
<1>5. req' \in [Requests -> Request]
  <2>1. req' = [s \in Requests |-> req'[s]]
    BY DEF Crash
  <2>2. QED
    BY <1>4, <2>1
<1>6. TypeOK'
  BY <1>1, <1>2, <1>5 DEF IInv, TypeOK
<1>7. TrustInv' /\ AcceptedJoined'
  BY <1>1 DEF IInv, TrustInv, AcceptedJoined, Exists
<1>8. OwnerRow' /\ DistinctFamilies'
  BY <1>2, <1>4 DEF OwnerRow, DistinctFamilies, At, Running
<1>9. UNCHANGED Promise!view
  BY <1>1 DEF Promise!view
<1>10. QED
  BY <1>4, <1>6, <1>7, <1>8, <1>9 DEF IInv, Kept

LEMMA ExpireStep ==
    ASSUME IInv, NEW c \in Codes, Expire(c)
    PROVE  IInv' /\ Kept
<1>1. /\ invitations' = [invitations EXCEPT ![c].expired = TRUE]
      /\ UNCHANGED <<families, members, req, asked, faults, trusted, joined>>
  BY DEF Expire, counters, history
<1>2. invitations \in [Codes -> Invitation]
  BY DEF IInv, TypeOK
<1>3. [invitations[c] EXCEPT !.expired = TRUE] \in Invitation
  BY <1>2 DEF Invitation
<1>4. /\ invitations' \in [Codes -> Invitation]
      /\ \A d \in Codes : /\ invitations'[d].status = invitations[d].status
                          /\ invitations'[d].family = invitations[d].family
                          /\ invitations'[d].to = invitations[d].to
                          /\ invitations'[d].by = invitations[d].by
  BY <1>1, <1>2, <1>3 DEF Invitation
<1>5. TypeOK'
  BY <1>1, <1>4 DEF IInv, TypeOK
<1>6. TrustInv' /\ AcceptedJoined'
  BY <1>1, <1>4 DEF IInv, TrustInv, AcceptedJoined, Exists
<1>7. Grown
  BY <1>1, <1>4 DEF Grown, IsMember, Exists
<1>8. ASSUME NEW s \in Requests PROVE OpInv(req[s])' /\ WroteInv(req[s])'
  <2>1. At(s, "Create", "Create") => families'[req[s].family].owner = None
    BY <1>1, Facts DEF OpInv, CreateInv, At, Running
  <2>2. QED
    BY <1>1, <1>7, <2>1, Frame
<1>9. OwnerRow' /\ DistinctFamilies'
  BY <1>1 DEF IInv, OwnerRow, DistinctFamilies, At, IsMember
<1>10. UNCHANGED Promise!view
  BY <1>1 DEF Promise!view
<1>11. QED
  BY <1>5, <1>6, <1>8, <1>9, <1>10 DEF IInv, Kept

-----------------------------------------------------------------------------
(* The theorems *)

LEMMA InitInv == Init => IInv /\ Promise!Init
<1> SUFFICES ASSUME Init PROVE IInv /\ Promise!Init
  OBVIOUS
<1>1. /\ Idle \in Request /\ Idle.at = "idle" /\ ~Idle.wrote /\ NoFamily \in Family
      /\ NoMember \in Member /\ NoInvitation \in Invitation /\ NoFamily.owner = None
      /\ NoMember.role = "none" /\ NoInvitation.status = "none" /\ NoInvitation.family = None
  BY DEF Idle, Request, NoFamily, NoMember, NoInvitation, Family, Member, Invitation
<1>2. TypeOK
  BY <1>1 DEF Init, TypeOK
<1>3. \A r \in Requests : OpInv(req[r]) /\ WroteInv(req[r])
  BY <1>1 DEF Init, OpInv, WroteInv, Running
<1>4. DistinctFamilies /\ OwnerRow
  BY <1>1 DEF Init, DistinctFamilies, OwnerRow, At
<1>5. TrustInv /\ AcceptedJoined
  BY <1>1 DEF Init, TrustInv, AcceptedJoined, Exists
<1>6. Promise!Init
  BY <1>1 DEF Init, Promise!Init, NoMember
<1>7. QED
  BY <1>2, <1>3, <1>4, <1>5, <1>6 DEF IInv

LEMMA NextInv == IInv /\ [Next]_vars => IInv' /\ Kept
<1> SUFFICES ASSUME IInv, [Next]_vars PROVE IInv' /\ Kept
  OBVIOUS
<1>1. CASE UNCHANGED vars
  <2>1. UNCHANGED <<families, members, invitations, req, asked, faults, trusted, joined>>
    BY <1>1 DEF vars, database, counters, history
  <2>2. IInv'
    BY <2>1 DEF IInv, TypeOK, OpInv, WroteInv, CreateInv, UpdateInv, AddInv, RemoveInv,
       InviteInv, AcceptInv, RevokeInv, DistinctFamilies, TrustInv, OwnerRow, AcceptedJoined,
       At, IsMember, Exists
  <2>3. QED
    BY <2>1, <2>2 DEF Kept, Promise!view
<1>2. ASSUME NEW r \in Requests, Serve(r) PROVE IInv' /\ Kept
  BY <1>2, CreateStep, UpdateStep, AddMemberStep, RemoveStep, InviteStep, AcceptStep,
     RevokeStep, ReadStep DEF Serve
<1>3. QED
  BY <1>1, <1>2, StatementFailsStep, FinishStep, ReceiveStep, ExpireStep, CrashStep DEF Next

LEMMA Invariance == Spec => []IInv
BY InitInv, NextInv, PTL DEF Spec

\* Every field holds a value the service can produce.
THEOREM TypeCorrect == Spec => []TypeOK
<1>1. IInv => TypeOK
  BY DEF IInv
<1>2. QED
  BY <1>1, Invariance, PTL

\* A family that a user is shown can be opened, as long as no statement fails.
THEOREM ListedOpen == Spec => []ListedCanBeOpened
<1>1. IInv => ListedCanBeOpened
  <2> SUFFICES ASSUME IInv, faults = 0, NEW u \in Users, NEW f \in ListByUser(u)
               PROVE  \/ IsMember(f, u)
                      \/ \E r \in Requests : At(r, "Create", "AddMember") /\ req[r].family = f
    BY DEF ListedCanBeOpened
  <2>1. f \in Families /\ (families[f].owner = u \/ IsMember(f, u)) /\ u # None
    BY ConstantsAssumption DEF ListByUser, IsMember, ConstantsAssumption
  <2>2. QED
    BY <2>1 DEF IInv, OwnerRow
<1>2. QED
  BY <1>1, Invariance, PTL

\* As long as no statement fails, an error means that nothing has changed.
THEOREM ErrorsChangeNothing == Spec => []RefusedUnchanged
<1>1. IInv => RefusedUnchanged
  BY DEF IInv, WroteInv, RefusedUnchanged
<1>2. QED
  BY <1>1, Invariance, PTL

\* An invitation marked accepted has admitted its addressee.
THEOREM AcceptedHasJoined == Spec => []AcceptedJoined
<1>1. IInv => AcceptedJoined
  BY DEF IInv
<1>2. QED
  BY <1>1, Invariance, PTL

\* The statements of any number of overlapping requests, each of which may fail,
\* implement the abstract rules of membership.
THEOREM ImplementsMembership == Spec => MembershipKept
<1>1. IInv /\ [Next]_vars => [Promise!Next]_Promise!view
  BY NextInv DEF Kept
<1>2. QED
  BY <1>1, InitInv, Invariance, PTL DEF Spec, MembershipKept, Promise!Spec

\* The families as the other services see them.
SeenOwner == [f \in Families |-> families[f].owner]
SeenRole  == [f \in Families |-> [u \in Users |-> members[f][u].role]]

Seen == INSTANCE Roles WITH owner <- SeenOwner, role <- SeenRole

TrustedFounded == \A f \in Families, u \in Users :
    <<f, u>> \in trusted => families[f].owner # None

\* One row of family_members changes.
LEMMA SeenRow ==
    ASSUME TypeOK, NEW f \in Families, NEW u \in Users, NEW row,
           members' = [members EXCEPT ![f][u] = row]
    PROVE  SeenRole' = [SeenRole EXCEPT ![f][u] = row.role]
<1>1. members \in [Families -> [Users -> Member]]
  BY DEF TypeOK
<1>2. \A g \in Families, v \in Users :
          members'[g][v] = IF g = f /\ v = u THEN row ELSE members[g][v]
  BY <1>1
<1>3. SeenRole' = [g \in Families |-> [v \in Users |-> members'[g][v].role]]
  BY DEF SeenRole
<1>4. [SeenRole EXCEPT ![f][u] = row.role] =
          [g \in Families |-> [v \in Users |->
              IF g = f /\ v = u THEN row.role ELSE members[g][v].role]]
  BY DEF SeenRole
<1>5. \A g \in Families : [v \in Users |-> members'[g][v].role] =
          [v \in Users |-> IF g = f /\ v = u THEN row.role ELSE members[g][v].role]
  BY <1>2
<1>6. QED
  BY <1>3, <1>4, <1>5

LEMMA SeenStep ==
    ASSUME IInv, TrustedFounded, [Next]_vars
    PROVE  TrustedFounded' /\ [Seen!Next]_Seen!roles
<1>1. Kept /\ None \notin Users
  BY NextInv, ConstantsAssumption DEF ConstantsAssumption
<1>2. TypeOK
  BY DEF IInv
<1>3. CASE UNCHANGED Promise!view
  BY <1>3 DEF Promise!view, Seen!roles, TrustedFounded, SeenOwner, SeenRole
<1>4. ASSUME NEW f \in Families, NEW u \in Users, Promise!Found(f, u)
      PROVE  TrustedFounded' /\ Seen!Found(f, u)
  BY <1>1, <1>2, <1>4 DEF Promise!Found, Seen!Found, TrustedFounded, TypeOK, SeenOwner, SeenRole
<1>5. ASSUME NEW f \in Families, NEW u \in Users, Promise!Dismiss(f, u)
      PROVE  TrustedFounded' /\ Seen!Leave(f, u)
  <2>1. SeenRole' = [SeenRole EXCEPT ![f][u] = "none"]
    BY <1>2, <1>5, SeenRow DEF Promise!Dismiss
  <2>2. SeenOwner[f] \notin {None, u} /\ SeenRole[f][u] # "none" /\ SeenOwner' = SeenOwner
    BY <1>5 DEF Promise!Dismiss, SeenOwner, SeenRole
  <2>3. TrustedFounded'
    BY <1>5 DEF Promise!Dismiss, TrustedFounded
  <2>4. QED
    BY <2>1, <2>2, <2>3 DEF Seen!Leave
<1>6. ASSUME NEW f \in Families, NEW u \in Users, NEW role \in {"member", "admin", "owner"},
             NEW by \in Users, Promise!Enrol(f, u, role, by)
      PROVE  TrustedFounded' /\ Seen!Enter(f, u, role)
  <2>1. SeenRole' = [SeenRole EXCEPT ![f][u] = role]
    BY <1>2, <1>6, SeenRow DEF Promise!Enrol
  <2>2. SeenOwner[f] # None /\ SeenRole[f][u] = "none" /\ SeenOwner' = SeenOwner
    BY <1>6 DEF Promise!Enrol, SeenOwner, SeenRole, TrustedFounded
  <2>3. TrustedFounded'
    BY <1>6 DEF Promise!Enrol, TrustedFounded
  <2>4. QED
    BY <2>1, <2>2, <2>3 DEF Seen!Enter
<1>7. QED
  BY <1>1, <1>3, <1>4, <1>5, <1>6 DEF Kept, Promise!Next, Seen!Next

\* What Books assumes of families is what the family service does, whatever
\* requests overlap and fail.
THEOREM ImplementsRoles == Spec => Seen!Spec
<1>1. Init => TrustedFounded /\ Seen!Init
  BY DEF Init, TrustedFounded, Seen!Init, SeenOwner, SeenRole, NoFamily, NoMember
<1>2. QED
  BY <1>1, SeenStep, Invariance, PTL DEF Spec, Seen!Spec
=============================================================================
