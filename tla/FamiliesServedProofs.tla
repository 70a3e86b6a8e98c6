------------------------ MODULE FamiliesServedProofs ------------------------
(***************************************************************************)
(* The family service implements FamilyLedger when it serves one request   *)
(* at a time and no statement fails, for any number of users, families,    *)
(* invitations and requests. The invariant that makes each statement map   *)
(* to a step or a stutter: what the request in progress has read holds     *)
(* until it writes.                                                        *)
(***************************************************************************)
EXTENDS FamiliesProofs, FamiliesServed, FiniteSetTheorems

-----------------------------------------------------------------------------
(* One request at a time *)

\* Who may act for a family, and who may revoke its invitations, now.
Trustee(f, u) == families[f].owner = u \/ members[f][u].role \in {"admin", "owner"}
Revoker(f, u) == families[f].owner = u \/ members[f][u].role = "admin"

\* No one is a member.
Unfounded(f) == \A u \in Users : members[f][u].role = "none"

\* What the request has read, which still holds when it uses it.
StillTrue(q) ==
    /\ q.op = "Create" /\ q.at = "AddMember" =>
          families[q.family] = [owner |-> q.user, name |-> q.name] /\ Unfounded(q.family)
    /\ q.op = "Update" /\ q.at = "Update" => families[q.family].owner = q.user
    /\ q.op = "AddMember" /\ q.at = "AddMember" => Trustee(q.family, q.user)
    /\ q.op = "Invite" /\ q.at = "CreateInvitation" => Trustee(q.family, q.user)
    /\ q.op = "AcceptInvitation" /\ q.at \in {"FindUser", "AddMember", "UpdateInvitation"} =>
          invitations[q.code].status = "pending"
    /\ q.op = "RevokeInvitation" /\ q.at = "ListInvitations" => Revoker(q.family, q.user)
    /\ q.op = "RevokeInvitation" /\ q.at = "UpdateInvitation" =>
          /\ invitations[q.code].family \in Families
          /\ Revoker(invitations[q.code].family, q.user)

\* No other request runs.
Alone(r) == \A s \in Requests : req[s].at \in Running => s = r

\* A family without an owner is empty, one with an invitation has an owner.
FoundedInv ==
    /\ \A f \in Families :
          families[f].owner = None => families[f] = NoFamily /\ Unfounded(f)
    /\ \A c \in Codes : Exists(c) => families[invitations[c].family].owner # None

\* What holds between statements, besides IInv of FamiliesProofs.
SInv ==
    /\ faults = 0
    /\ \A r \in Requests : req[r].at \in Running => Alone(r) /\ StillTrue(req[r])
    /\ FoundedInv

\* How the request in progress shows in the ledger.
Founds(q, f)      == q.op = "Create" /\ q.at = "AddMember" /\ q.family = f
Admits(q, c)      == q.op = "AcceptInvitation" /\ q.at \in {"FindUser", "AddMember"} /\ q.code = c
HasAdmitted(q, c) == q.op = "AcceptInvitation" /\ q.at = "UpdateInvitation" /\ q.code = c

StatusFor(q, inv, c) ==
    IF HasAdmitted(q, c) THEN "accepted"
    ELSE IF inv.status = "pending" /\ inv.expired /\ ~Admits(q, c) THEN "lapsed" ELSE inv.status

FamiliesFor(q, table) == [f \in Families |-> IF Founds(q, f) THEN NoFamily ELSE table[f]]
InvitationsFor(q, table) ==
    [c \in Codes |-> [status |-> StatusFor(q, table[c], c), family |-> table[c].family,
                      to |-> table[c].to, by |-> table[c].by]]

LEMMA Views ==
    ASSUME NEW r \in Requests, Alone(r)
    PROVE  /\ FamiliesSeen = FamiliesFor(req[r], families)
           /\ InvitationsSeen = InvitationsFor(req[r], invitations)
<1>1. \A f : Founding(f) <=> Founds(req[r], f)
  BY DEF Founding, Founds, Alone, At, Running
<1>2. \A c : Admitting(c) <=> Admits(req[r], c)
  BY DEF Admitting, Admits, Alone, At, Running
<1>3. \A c : Admitted(c) <=> HasAdmitted(req[r], c)
  BY DEF Admitted, HasAdmitted, Alone, At, Running
<1>4. \A c : StatusSeen(c) = StatusFor(req[r], invitations[c], c)
  BY <1>2, <1>3 DEF StatusSeen, StatusFor
<1>5. QED
  BY <1>1, <1>4 DEF FamiliesSeen, InvitationsSeen, FamiliesFor, InvitationsFor

LEMMA ViewsNext ==
    ASSUME NEW r \in Requests, Alone(r)'
    PROVE  /\ FamiliesSeen' = FamiliesFor(req'[r], families')
           /\ InvitationsSeen' = InvitationsFor(req'[r], invitations')
<1>1. \A f : Founding(f)' <=> Founds(req'[r], f)
  BY DEF Founding, Founds, Alone, At, Running
<1>2. \A c : Admitting(c)' <=> Admits(req'[r], c)
  BY DEF Admitting, Admits, Alone, At, Running
<1>3. \A c : Admitted(c)' <=> HasAdmitted(req'[r], c)
  BY DEF Admitted, HasAdmitted, Alone, At, Running
<1>4. \A c : StatusSeen(c)' = StatusFor(req'[r], invitations'[c], c)
  BY <1>2, <1>3 DEF StatusSeen, StatusFor
<1>5. QED
  BY <1>1, <1>4 DEF FamiliesSeen, InvitationsSeen, FamiliesFor, InvitationsFor

\* Served in one step of the ledger, or without a trace.
Served == SInv' /\ (Ledger!Next \/ UNCHANGED Ledger!ledger)

\* One request moves, with the others not running.
LEMMA MoveStep ==
    ASSUME IInv, SInv, NEW r \in Requests, Alone(r), NEW p, Become(r, p)
    PROVE  /\ FamiliesSeen = FamiliesFor(req[r], families)
           /\ InvitationsSeen = InvitationsFor(req[r], invitations)
           /\ FamiliesSeen' = FamiliesFor(p, families')
           /\ InvitationsSeen' = InvitationsFor(p, invitations')
           /\ faults' = 0 /\ FoundedInv' /\ (p.at \in Running => StillTrue(p)') => SInv'
<1>1. req \in [Requests -> Request]
  BY DEF IInv, TypeOK
<1>2. req'[r] = p /\ \A s \in Requests : s # r => req'[s] = req[s]
  BY <1>1 DEF Become
<1>3. Alone(r)'
  BY <1>2 DEF Alone
<1>4. ASSUME faults' = 0, FoundedInv', p.at \in Running => StillTrue(p)' PROVE SInv'
  <2>1. ASSUME NEW s \in Requests, req'[s].at \in Running
        PROVE  Alone(s)' /\ StillTrue(req[s])'
    <3>1. s = r
      BY <1>3, <2>1 DEF Alone
    <3>2. StillTrue(p)'
      BY <1>2, <1>4, <2>1, <3>1
    <3>3. StillTrue(req[s])'
      BY <1>2, <3>1, <3>2 DEF StillTrue
    <3>4. QED
      BY <1>3, <3>1, <3>3
  <2>2. QED
    BY <1>4, <2>1 DEF SInv
<1>5. QED
  BY <1>2, <1>3, <1>4, Views, ViewsNext

\* A move that leaves the tables, and its place in the ledger.
LEMMA QuietMove ==
    ASSUME IInv, SInv, NEW r \in Requests, Alone(r), NEW p, Become(r, p),
           UNCHANGED database, faults' = faults, p.at \in Running => StillTrue(p),
           \A f \in Families : Founds(p, f) <=> Founds(req[r], f),
           \A c \in Codes : StatusFor(p, invitations[c], c) = StatusFor(req[r], invitations[c], c)
    PROVE  Served
<1>1. UNCHANGED <<families, members, invitations>> /\ faults' = 0
  BY DEF database, SInv
<1>2. FoundedInv'
  BY <1>1 DEF SInv, FoundedInv, Unfounded, Exists
<1>3. p.at \in Running => StillTrue(p)'
  BY <1>1 DEF StillTrue, Trustee, Revoker, Unfounded
<1>4. SInv'
  BY <1>1, <1>2, <1>3, MoveStep
<1>5. FamiliesFor(p, families) = FamiliesFor(req[r], families)
  BY DEF FamiliesFor
<1>6. InvitationsFor(p, invitations) = InvitationsFor(req[r], invitations)
  BY DEF InvitationsFor
<1>7. UNCHANGED Ledger!ledger
  BY <1>1, <1>5, <1>6, MoveStep DEF Ledger!ledger
<1>8. QED
  BY <1>4, <1>7 DEF Served

\* What is known of a running request.
LEMMA RunFacts ==
    ASSUME IInv, SInv, NEW r \in Requests, req[r].at \in Running
    PROVE  /\ req[r] \in Request /\ OpInv(req[r]) /\ Alone(r) /\ StillTrue(req[r])
           /\ req[r].user \in Users /\ None \notin Users /\ None \notin Families
           /\ TypeOK /\ FoundedInv /\ faults = 0
<1>1. OpInv(req[r]) /\ req[r].user \in Users
  BY Facts DEF OpInv
<1>2. QED
  BY <1>1, ConstantsAssumption, Facts DEF SInv, ConstantsAssumption

\* Neither a Create nor an AcceptInvitation shows while it runs.
LEMMA Unseen ==
    ASSUME NEW q, q.op \notin {"Create", "AcceptInvitation"} \/ q.at \notin Running
    PROVE  /\ \A f : ~Founds(q, f)
           /\ \A c : ~Admits(q, c) /\ ~HasAdmitted(q, c)
BY DEF Founds, Admits, HasAdmitted, Running

LEMMA SameStatus ==
    ASSUME NEW p, NEW q, NEW c, NEW inv, Admits(p, c) <=> Admits(q, c),
           HasAdmitted(p, c) <=> HasAdmitted(q, c)
    PROVE  StatusFor(p, inv, c) = StatusFor(q, inv, c)
BY DEF StatusFor

\* A statement that reads for a request that does not show.
LEMMA ReadMove ==
    ASSUME IInv, SInv, NEW r \in Requests, req[r].at \in Running,
           req[r].op \notin {"Create", "AcceptInvitation"},
           NEW p, Become(r, p), p.op = req[r].op, p.at \in Running => StillTrue(p),
           UNCHANGED <<database, counters>>
    PROVE  Served
<1>1. Alone(r)
  BY RunFacts
<1>2. UNCHANGED database /\ faults' = faults
  BY DEF counters
<1>3. \A c \in Codes : StatusFor(p, invitations[c], c) = StatusFor(req[r], invitations[c], c)
  BY Unseen, SameStatus
<1>4. \A f \in Families : Founds(p, f) <=> Founds(req[r], f)
  BY Unseen
<1>5. QED
  BY <1>1, <1>2, <1>3, <1>4, QuietMove

\* One that ends it, or takes it to another call.
LEMMA GotoMove ==
    ASSUME IInv, SInv, NEW r \in Requests, req[r].at \in Running,
           req[r].op \notin {"Create", "AcceptInvitation"}, NEW at, Goto(r, at),
           at \in Running => StillTrue([req[r] EXCEPT !.at = at]),
           UNCHANGED <<database, counters>>
    PROVE  Served
<1>1. PICK p : p = [req[r] EXCEPT !.at = at]
  OBVIOUS
<1>2. p.op = req[r].op /\ p.at = at /\ Become(r, p)
  BY <1>1, RunFacts DEF Goto, Request
<1>3. QED
  BY <1>1, <1>2, ReadMove

\* The inserted family shows when its owner's row is inserted too.
LEMMA FoundMove ==
    ASSUME IInv, SInv, NEW r \in Requests, At(r, "Create", "Create"),
           InsertFamily(r, "AddMember")
    PROVE  Served
<1>1. PICK q, f, u, n : q = req[r] /\ f = q.family /\ u = q.user /\ n = q.name
  OBVIOUS
<1>2. /\ q \in Request /\ Alone(r) /\ u \in Users /\ u # None /\ FoundedInv /\ TypeOK
      /\ q.at = "Create" /\ q.op = "Create" /\ faults = 0
  BY <1>1, RunFacts DEF At, Running
<1>3. f \in Families /\ families[f].owner = None
  BY <1>1, <1>2, RunFacts DEF OpInv, CreateInv, Running
<1>4. families[f] = NoFamily /\ Unfounded(f)
  BY <1>2, <1>3 DEF FoundedInv
<1>5. PICK p : p = [q EXCEPT !.at = "AddMember", !.wrote = TRUE]
  OBVIOUS
<1>6. /\ Become(r, p) /\ p.at = "AddMember" /\ p.op = "Create" /\ p.family = f
      /\ p.user = u /\ p.name = n
  BY <1>1, <1>2, <1>5 DEF InsertFamily, Request
<1>7. /\ families' = [families EXCEPT ![f] = [owner |-> u, name |-> n]]
      /\ UNCHANGED <<members, invitations>> /\ faults' = 0
  BY <1>1, <1>2 DEF InsertFamily, counters
<1>8. /\ families'[f] = [owner |-> u, name |-> n] /\ families'[f].owner = u
      /\ \A g \in Families : g # f => families'[g] = families[g]
  BY <1>2, <1>3, <1>7 DEF TypeOK
<1>9. StillTrue(p)'
  BY <1>4, <1>6, <1>7, <1>8 DEF StillTrue, Unfounded
<1>10. FoundedInv'
  <2>1. ASSUME NEW g \in Families, families'[g].owner = None
        PROVE  families'[g] = NoFamily /\ Unfounded(g)'
    BY <1>2, <1>7, <1>8, <2>1 DEF FoundedInv, Unfounded
  <2>2. ASSUME NEW c \in Codes, Exists(c) PROVE families'[invitations[c].family].owner # None
    <3>1. invitations[c].family \in Families /\ families[invitations[c].family].owner # None
      BY <1>2, <2>2, Facts DEF TrustInv, FoundedInv
    <3>2. QED
      BY <1>2, <1>8, <3>1
  <2>3. QED
    BY <1>7, <2>1, <2>2 DEF FoundedInv, Exists
<1>11. SInv'
  BY <1>2, <1>6, <1>7, <1>9, <1>10, MoveStep
<1>12. FamiliesFor(p, families') = FamiliesFor(q, families)
  <2>1. ASSUME NEW g \in Families
        PROVE  (IF Founds(p, g) THEN NoFamily ELSE families'[g])
                  = IF Founds(q, g) THEN NoFamily ELSE families[g]
    BY <1>2, <1>4, <1>6, <1>8 DEF Founds
  <2>2. QED
    BY <2>1 DEF FamiliesFor
<1>13. InvitationsFor(p, invitations) = InvitationsFor(q, invitations)
  <2>1. \A c \in Codes : StatusFor(p, invitations[c], c) = StatusFor(q, invitations[c], c)
    BY <1>2, <1>6 DEF StatusFor, Admits, HasAdmitted
  <2>2. QED
    BY <2>1 DEF InvitationsFor
<1>14. UNCHANGED Ledger!ledger
  BY <1>1, <1>2, <1>6, <1>7, <1>12, <1>13, MoveStep DEF Ledger!ledger
<1>15. QED
  BY <1>11, <1>14 DEF Served

\* A member is inserted into a family that has an owner.
LEMMA EnrolTables ==
    ASSUME IInv, SInv, NEW f \in Families, NEW u \in Users, NEW row,
           families[f].owner # None, members' = [members EXCEPT ![f][u] = row],
           UNCHANGED <<families, invitations>>
    PROVE  FoundedInv'
<1>1. TypeOK /\ FoundedInv
  BY DEF IInv, SInv
<1>2. \A g \in Families, v \in Users : g # f => members'[g][v] = members[g][v]
  BY <1>1 DEF TypeOK
<1>3. QED
  BY <1>1, <1>2 DEF FoundedInv, Unfounded, Exists

\* The two branches of InsertMember.
LEMMA InsertFacts ==
    ASSUME IInv, SInv, NEW r \in Requests, req[r].at = "AddMember",
           req[r].op \in {"Create", "AddMember", "AcceptInvitation"},
           NEW then, InsertMember(r, then)
    PROVE  \/ /\ members[req[r].family][req[r].target].role # "none"
              /\ Refuse(r) /\ UNCHANGED <<database, counters>>
           \/ /\ members[req[r].family][req[r].target].role = "none"
              /\ members' = [members EXCEPT ![req[r].family][req[r].target] =
                                [role |-> req[r].role, by |-> req[r].by]]
              /\ Become(r, [req[r] EXCEPT !.at = then, !.wrote = TRUE])
              /\ UNCHANGED <<families, invitations, counters>>
BY DEF InsertMember

LEMMA FounderMove ==
    ASSUME IInv, SInv, NEW r \in Requests, At(r, "Create", "AddMember"),
           InsertMember(r, "answered")
    PROVE  Served
<1>1. PICK q, f, u, n : q = req[r] /\ f = q.family /\ u = q.user /\ n = q.name
  OBVIOUS
<1>2. /\ q \in Request /\ Alone(r) /\ u \in Users /\ u # None /\ FoundedInv /\ TypeOK
      /\ q.at = "AddMember" /\ q.op = "Create" /\ faults = 0 /\ StillTrue(q)
  BY <1>1, RunFacts DEF At, Running
<1>3. f \in Families /\ n \in Names /\ q.target = u /\ q.by = u /\ q.role = "owner"
  BY <1>1, <1>2, RunFacts DEF OpInv, CreateInv, Running
<1>4. families[f] = [owner |-> u, name |-> n] /\ members[f][u].role = "none"
  BY <1>1, <1>2, <1>3 DEF StillTrue, Unfounded
<1>5. /\ members' = [members EXCEPT ![f][u] = [role |-> "owner", by |-> u]]
      /\ Become(r, [q EXCEPT !.at = "answered", !.wrote = TRUE])
      /\ UNCHANGED <<families, invitations>> /\ faults' = 0
  <2>1. req[r].at = "AddMember" /\ req[r].op = "Create"
    BY <1>1, <1>2
  <2>2. members[req[r].family][req[r].target].role = "none"
    BY <1>1, <1>3, <1>4
  <2>3. /\ members' = [members EXCEPT ![req[r].family][req[r].target] =
                          [role |-> req[r].role, by |-> req[r].by]]
        /\ Become(r, [req[r] EXCEPT !.at = "answered", !.wrote = TRUE])
        /\ UNCHANGED <<families, invitations, counters>>
    BY <2>1, <2>2, InsertFacts
  <2>4. QED
    BY <1>1, <1>2, <1>3, <2>3 DEF counters
<1>6. PICK p : p = [q EXCEPT !.at = "answered", !.wrote = TRUE]
  OBVIOUS
<1>7. Become(r, p) /\ p.at = "answered"
  BY <1>2, <1>5, <1>6 DEF Request
<1>8. FoundedInv'
  <2>1. families[f].owner # None
    BY <1>2, <1>4
  <2>2. QED
    BY <1>2, <1>3, <1>5, <2>1, EnrolTables
<1>9. SInv'
  BY <1>2, <1>5, <1>7, <1>8, MoveStep DEF Running
<1>10. /\ FamiliesSeen = [g \in Families |-> IF g = f THEN NoFamily ELSE families[g]]
       /\ FamiliesSeen' = families
  <2>1. \A g : Founds(q, g) <=> g = f
    BY <1>1, <1>2 DEF Founds
  <2>2. \A g : ~Founds(p, g)
    BY <1>7 DEF Founds
  <2>3. families = [g \in Families |-> families[g]]
    BY <1>2 DEF TypeOK
  <2>4. FamiliesFor(p, families) = families
    BY <2>2, <2>3 DEF FamiliesFor
  <2>5. QED
    BY <1>1, <1>2, <1>5, <1>7, <2>1, <2>4, MoveStep DEF FamiliesFor
<1>11. InvitationsSeen' = InvitationsSeen
  <2>1. \A c \in Codes : StatusFor(p, invitations[c], c) = StatusFor(q, invitations[c], c)
    BY <1>2, <1>7 DEF StatusFor, Admits, HasAdmitted
  <2>2. InvitationsFor(p, invitations) = InvitationsFor(q, invitations)
    BY <2>1 DEF InvitationsFor
  <2>3. QED
    BY <1>1, <1>2, <1>5, <1>7, <2>2, MoveStep
<1>12. FamiliesSeen[f].owner = None
  BY <1>3, <1>10 DEF NoFamily
<1>13. FamiliesSeen' = [FamiliesSeen EXCEPT ![f] = [owner |-> u, name |-> n]]
  <2>1. families = [g \in Families |-> IF g = f THEN [owner |-> u, name |-> n] ELSE families[g]]
    BY <1>2, <1>4 DEF TypeOK
  <2>2. QED
    BY <1>3, <1>10, <2>1
<1>14. Ledger!Found(u, f, n)
  BY <1>4, <1>5, <1>11, <1>12, <1>13 DEF Ledger!Found, Ledger!Enrolled
<1>15. QED
  BY <1>2, <1>3, <1>9, <1>14 DEF Served, Ledger!Next

LEMMA CreateMove ==
    ASSUME IInv, SInv, NEW r \in Requests, Create(r) PROVE Served
BY FoundMove, FounderMove DEF Create

-----------------------------------------------------------------------------
(* Requests that do not show while they run *)

PlainStatus(inv) ==
    IF inv.status = "pending" /\ inv.expired THEN "lapsed" ELSE inv.status
PlainView(table) ==
    [c \in Codes |-> [status |-> PlainStatus(table[c]), family |-> table[c].family,
                      to |-> table[c].to, by |-> table[c].by]]

\* The tables are seen as they are.
LEMMA PlainViews ==
    ASSUME NEW q, q.op \notin {"Create", "AcceptInvitation"} \/ q.at \notin Running,
           NEW table, table \in [Families -> Family], NEW codes
    PROVE  FamiliesFor(q, table) = table /\ InvitationsFor(q, codes) = PlainView(codes)
<1>1. \A inv, c : StatusFor(q, inv, c) = PlainStatus(inv)
  BY Unseen DEF StatusFor, PlainStatus
<1>2. InvitationsFor(q, codes) = PlainView(codes)
  BY <1>1 DEF InvitationsFor, PlainView
<1>3. FamiliesFor(q, table) = [f \in Families |-> table[f]]
  BY Unseen DEF FamiliesFor
<1>4. QED
  BY <1>2, <1>3

\* The last statement of such a request, which answers it.
LEMMA AnswerMove ==
    ASSUME IInv, IInv', SInv, NEW r \in Requests, req[r].at \in Running,
           req[r].op \notin {"Create", "AcceptInvitation"},
           Become(r, [req[r] EXCEPT !.at = "answered", !.wrote = TRUE]),
           UNCHANGED counters, FoundedInv'
    PROVE  /\ SInv' /\ FamiliesSeen = families /\ FamiliesSeen' = families'
           /\ InvitationsSeen = PlainView(invitations)
           /\ InvitationsSeen' = PlainView(invitations')
<1>1. PICK p : p = [req[r] EXCEPT !.at = "answered", !.wrote = TRUE]
  OBVIOUS
<1>2. Become(r, p) /\ p.at \notin Running
  BY <1>1, RunFacts DEF Request, Running
<1>3. Alone(r) /\ faults' = 0
  BY RunFacts DEF counters
<1>4. families \in [Families -> Family] /\ families' \in [Families -> Family]
  BY DEF IInv, TypeOK
<1>5. /\ FamiliesFor(req[r], families) = families
      /\ InvitationsFor(req[r], invitations) = PlainView(invitations)
      /\ FamiliesFor(p, families') = families'
      /\ InvitationsFor(p, invitations') = PlainView(invitations')
  BY <1>2, <1>4, PlainViews
<1>6. QED
  BY <1>2, <1>3, <1>5, MoveStep

LEMMA RenameMove ==
    ASSUME IInv, IInv', SInv, NEW r \in Requests, At(r, "Update", "Update"), RenameFamily(r)
    PROVE  Served
<1>1. PICK q, f, u, n : q = req[r] /\ f = q.family /\ u = q.user /\ n = q.name
  OBVIOUS
<1>2. /\ q \in Request /\ u \in Users /\ u # None /\ FoundedInv /\ TypeOK
      /\ q.at = "Update" /\ q.op = "Update" /\ StillTrue(q) /\ q.at \in Running
  BY <1>1, RunFacts DEF At, Running
<1>3. f \in Families /\ n \in Names
  BY <1>1, <1>2, RunFacts DEF OpInv, UpdateInv, Running
<1>4. families[f].owner = u
  BY <1>1, <1>2 DEF StillTrue
<1>5. /\ families' = [families EXCEPT ![f].name = n]
      /\ Become(r, [q EXCEPT !.at = "answered", !.wrote = TRUE])
      /\ UNCHANGED <<members, invitations, counters>>
  BY <1>1 DEF RenameFamily
<1>6. /\ \A g \in Families : families'[g].owner = families[g].owner
      /\ \A g \in Families : g # f => families'[g] = families[g]
  BY <1>2, <1>3, <1>5 DEF TypeOK, Family
<1>7. FoundedInv'
  <2>1. \A c \in Codes : Exists(c) => invitations[c].family \in Families
    BY Facts DEF TrustInv
  <2>2. QED
    BY <1>2, <1>4, <1>5, <1>6, <2>1 DEF FoundedInv, Unfounded, Exists
<1>8. /\ SInv' /\ FamiliesSeen = families /\ FamiliesSeen' = families'
      /\ InvitationsSeen' = InvitationsSeen
  BY <1>1, <1>2, <1>5, <1>7, AnswerMove
<1>9. Ledger!Rename(u, f, n)
  BY <1>4, <1>5, <1>8 DEF Ledger!Rename
<1>10. QED
  BY <1>2, <1>3, <1>8, <1>9 DEF Served, Ledger!Next

\* The row of a user, by somebody who may insert it as it is inserted.
LEMMA AddedMove ==
    ASSUME IInv, IInv', SInv, NEW r \in Requests, At(r, "AddMember", "AddMember"),
           InsertMember(r, "answered")
    PROVE  Served
<1>1. PICK q, f, u, v, role :
          q = req[r] /\ f = q.family /\ u = q.user /\ v = q.target /\ role = q.role
  OBVIOUS
<1>2. /\ q \in Request /\ u \in Users /\ u # None /\ FoundedInv /\ TypeOK
      /\ q.at = "AddMember" /\ q.op = "AddMember" /\ StillTrue(q) /\ q.at \in Running
  BY <1>1, RunFacts DEF At, Running
<1>3. f \in Families /\ v \in Users /\ q.by = u /\ role \in Roles
  BY <1>1, <1>2, RunFacts DEF OpInv, AddInv, Running
<1>4. Trustee(f, u)
  BY <1>1, <1>2 DEF StillTrue
<1>5. families[f].owner # None
  BY <1>2, <1>3, <1>4 DEF FoundedInv, Unfounded, Trustee
<1>6. CASE members[f][v].role # "none" /\ Refuse(r) /\ UNCHANGED <<database, counters>>
  BY <1>1, <1>2, <1>6, GotoMove DEF Refuse, Running
<1>7. CASE /\ members[f][v].role = "none"
           /\ members' = [members EXCEPT ![f][v] = [role |-> role, by |-> u]]
           /\ Become(r, [q EXCEPT !.at = "answered", !.wrote = TRUE])
           /\ UNCHANGED <<families, invitations, counters>>
  <2>1. FoundedInv'
    BY <1>3, <1>5, <1>7, EnrolTables
  <2>2. /\ SInv' /\ FamiliesSeen = families /\ FamiliesSeen' = families
        /\ InvitationsSeen' = InvitationsSeen
    BY <1>1, <1>2, <1>7, <2>1, AnswerMove
  <2>3. Ledger!Add(u, f, v, role)
    BY <1>4, <1>7, <2>2 DEF Ledger!Add, Ledger!Trusted, Ledger!Enrolled, Trustee
  <2>4. QED
    BY <1>2, <1>3, <2>2, <2>3 DEF Served, Ledger!Next, Roles
<1>8. QED
  BY <1>1, <1>2, <1>3, <1>6, <1>7, InsertFacts

LEMMA RemovedMove ==
    ASSUME IInv, IInv', SInv, NEW r \in Requests, At(r, "RemoveMember", "RemoveMember"),
           DeleteMember(r)
    PROVE  Served
<1>1. PICK q, f, u, v : q = req[r] /\ f = q.family /\ u = q.user /\ v = q.target
  OBVIOUS
<1>2. /\ q \in Request /\ u \in Users /\ u # None /\ FoundedInv /\ TypeOK
      /\ q.at = "RemoveMember" /\ q.op = "RemoveMember" /\ q.at \in Running
  BY <1>1, RunFacts DEF At, Running
<1>3. f \in Families /\ v \in Users /\ families[f].owner = u /\ v # u
  BY <1>1, <1>2, RunFacts DEF OpInv, RemoveInv, Running
<1>4. CASE members[f][v].role = "none" /\ Refuse(r) /\ UNCHANGED <<database, counters>>
  BY <1>1, <1>2, <1>4, GotoMove DEF Refuse, Running
<1>5. CASE /\ members[f][v].role # "none"
           /\ members' = [members EXCEPT ![f][v] = NoMember]
           /\ Become(r, [q EXCEPT !.at = "answered", !.wrote = TRUE])
           /\ UNCHANGED <<families, invitations, counters>>
  <2>1. FoundedInv'
    BY <1>2, <1>3, <1>5, EnrolTables
  <2>2. /\ SInv' /\ FamiliesSeen = families /\ FamiliesSeen' = families
        /\ InvitationsSeen' = InvitationsSeen
    BY <1>1, <1>2, <1>5, <2>1, AnswerMove
  <2>3. Ledger!Remove(u, f, v)
    BY <1>3, <1>5, <2>2 DEF Ledger!Remove, NoMember
  <2>4. QED
    BY <1>2, <1>3, <2>2, <2>3 DEF Served, Ledger!Next
<1>6. QED
  BY <1>1, <1>4, <1>5 DEF DeleteMember

LEMMA InvitedMove ==
    ASSUME IInv, IInv', SInv, NEW r \in Requests, At(r, "Invite", "CreateInvitation"),
           InsertInvitation(r)
    PROVE  Served
<1>1. PICK q, f, u, v : q = req[r] /\ f = q.family /\ u = q.user /\ v = q.target
  OBVIOUS
<1>2. /\ q \in Request /\ u \in Users /\ u # None /\ FoundedInv /\ TypeOK
      /\ q.at = "CreateInvitation" /\ q.op = "Invite" /\ StillTrue(q) /\ q.at \in Running
  BY <1>1, RunFacts DEF At, Running
<1>3. f \in Families /\ v \in Users
  BY <1>1, <1>2, RunFacts DEF OpInv, InviteInv, Running
<1>4. Trustee(f, u)
  BY <1>1, <1>2 DEF StillTrue
<1>5. families[f].owner # None
  BY <1>2, <1>3, <1>4 DEF FoundedInv, Unfounded, Trustee
<1>6. CASE Refuse(r) /\ UNCHANGED <<database, counters>>
  BY <1>1, <1>2, <1>6, GotoMove DEF Refuse, Running
<1>7. ASSUME NEW c \in Codes, invitations[c].status = "none", NEW inv,
             inv = [status |-> "pending", family |-> f, to |-> v, by |-> u, expired |-> FALSE],
             invitations' = [invitations EXCEPT ![c] = inv],
             Become(r, [q EXCEPT !.at = "answered", !.wrote = TRUE]),
             UNCHANGED <<families, members, counters>>
      PROVE  Served
  <2>1. invitations'[c] = inv /\ \A d \in Codes : d # c => invitations'[d] = invitations[d]
    BY <1>2, <1>7 DEF TypeOK
  <2>2. FoundedInv'
    BY <1>2, <1>5, <1>7, <2>1 DEF FoundedInv, Unfounded, Exists
  <2>3. /\ SInv' /\ FamiliesSeen = families /\ FamiliesSeen' = families
        /\ InvitationsSeen = PlainView(invitations)
        /\ InvitationsSeen' = PlainView(invitations')
    BY <1>1, <1>2, <1>7, <2>2, AnswerMove
  <2>4. InvitationsSeen[c].status = "none"
    BY <1>7, <2>3 DEF PlainView, PlainStatus
  <2>5. InvitationsSeen' = [InvitationsSeen EXCEPT ![c] =
            [status |-> "pending", family |-> f, to |-> v, by |-> u]]
    <3>1. /\ PlainStatus(inv) = "pending" /\ inv.family = f /\ inv.to = v /\ inv.by = u
      BY <1>7 DEF PlainStatus
    <3>2. QED
      BY <2>1, <2>3, <3>1 DEF PlainView
  <2>6. Ledger!Invite(u, f, v, c)
    BY <1>4, <1>7, <2>3, <2>4, <2>5 DEF Ledger!Invite, Ledger!Trusted, Trustee
  <2>7. QED
    BY <1>2, <1>3, <1>7, <2>3, <2>6 DEF Served, Ledger!Next
<1>8. QED
  BY <1>1, <1>6, <1>7 DEF InsertInvitation

LEMMA RevokedMove ==
    ASSUME IInv, IInv', SInv, NEW r \in Requests,
           At(r, "RevokeInvitation", "UpdateInvitation"), SetStatus(r, "revoked")
    PROVE  Served
<1>1. PICK q, u, c : q = req[r] /\ u = q.user /\ c = q.code
  OBVIOUS
<1>2. /\ q \in Request /\ u \in Users /\ FoundedInv /\ TypeOK /\ StillTrue(q)
      /\ q.at = "UpdateInvitation" /\ q.op = "RevokeInvitation" /\ q.at \in Running
  BY <1>1, RunFacts DEF At, Running
<1>3. c \in Codes /\ invitations[c].status # "none"
  BY <1>1, <1>2, RunFacts DEF OpInv, RevokeInv, Running, Exists
<1>4. Revoker(invitations[c].family, u)
  BY <1>1, <1>2 DEF StillTrue
<1>5. /\ invitations' = [invitations EXCEPT ![c].status = "revoked"]
      /\ Become(r, [q EXCEPT !.at = "answered", !.wrote = TRUE])
      /\ UNCHANGED <<families, members, counters>>
  BY <1>1 DEF SetStatus
<1>6. /\ invitations'[c] = [invitations[c] EXCEPT !.status = "revoked"]
      /\ invitations[c] \in Invitation
      /\ \A d \in Codes : d # c => invitations'[d] = invitations[d]
  BY <1>2, <1>3, <1>5 DEF TypeOK
<1>7. /\ invitations'[c].status = "revoked" /\ invitations'[c].family = invitations[c].family
      /\ invitations'[c].to = invitations[c].to /\ invitations'[c].by = invitations[c].by
  BY <1>6 DEF Invitation
<1>8. FoundedInv'
  BY <1>2, <1>3, <1>5, <1>6, <1>7 DEF FoundedInv, Unfounded, Exists
<1>9. /\ SInv' /\ FamiliesSeen = families /\ FamiliesSeen' = families
      /\ InvitationsSeen = PlainView(invitations)
      /\ InvitationsSeen' = PlainView(invitations')
  BY <1>1, <1>2, <1>5, <1>8, AnswerMove
<1>10. /\ InvitationsSeen[c].status # "none"
       /\ InvitationsSeen[c].family = invitations[c].family
  BY <1>3, <1>9 DEF PlainView, PlainStatus
<1>11. InvitationsSeen' = [InvitationsSeen EXCEPT ![c].status = "revoked"]
  <2>1. PlainStatus(invitations'[c]) = "revoked"
    BY <1>7 DEF PlainStatus
  <2>2. QED
    BY <1>3, <1>6, <1>7, <1>9, <2>1 DEF PlainView
<1>12. Ledger!Revoke(u, c)
  BY <1>4, <1>5, <1>9, <1>10, <1>11 DEF Ledger!Revoke, Ledger!Revoker, Revoker
<1>13. QED
  BY <1>2, <1>3, <1>9, <1>12 DEF Served, Ledger!Next

-----------------------------------------------------------------------------
(* Checks *)

\* Of isAdminOrOwner and its two reads, and the check of the owner alone.
LEMMA CheckedMove ==
    ASSUME IInv, SInv, NEW r \in Requests, req[r].at \in Running,
           req[r].op \in {"AddMember", "Invite"},
           NEW then, then = IF req[r].op = "Invite" THEN "CreateInvitation" ELSE "AddMember",
           isAdminOrOwner(r, then)
    PROVE  Served
<1>1. PICK q : q = req[r]
  OBVIOUS
<1>2. q \in Request /\ q.user # None
  BY <1>1, RunFacts
<1>3. ASSUME NEW at, Goto(r, at), at = then => Trustee(q.family, q.user),
             at \in {then, "ListMembers", "refused"}
      PROVE  Served
  <2>1. PICK p : p = [q EXCEPT !.at = at]
    OBVIOUS
  <2>2. p.op = q.op /\ p.at = at /\ p.family = q.family /\ p.user = q.user
    BY <1>2, <2>1 DEF Request
  <2>3. at \in Running => StillTrue(p)
    BY <1>1, <1>3, <2>2 DEF StillTrue
  <2>4. UNCHANGED <<database, counters>>
    BY DEF isAdminOrOwner
  <2>5. QED
    BY <1>1, <1>3, <2>1, <2>3, <2>4, GotoMove
<1>4. CASE families[q.family].owner = q.user /\ Goto(r, then)
  BY <1>3, <1>4 DEF Trustee
<1>5. CASE Goto(r, "ListMembers")
  BY <1>3, <1>5
<1>6. CASE Goto(r, "refused")
  BY <1>3, <1>6
<1>7. CASE Goto(r, IF members[q.family][q.user].role \in {"admin", "owner"}
                   THEN then ELSE "refused")
  BY <1>3, <1>6, <1>7 DEF Trustee
<1>8. QED
  BY <1>1, <1>4, <1>5, <1>6, <1>7 DEF isAdminOrOwner, Refuse

LEMMA OwnerMove ==
    ASSUME IInv, SInv, NEW r \in Requests, req[r].at \in Running,
           \/ req[r].op = "Update" /\ OwnerOnly(r, "Update")
           \/ /\ req[r].op = "RemoveMember"
              /\ OwnerOnly(r, IF req[r].target = req[r].user THEN "refused" ELSE "RemoveMember")
    PROVE  Served
<1>1. PICK q : q = req[r]
  OBVIOUS
<1>2. q \in Request
  BY <1>1, RunFacts
<1>3. ASSUME NEW at, Goto(r, at), at = "Update" => families[q.family].owner = q.user,
             at \in {"Update", "RemoveMember", "refused"}
      PROVE  Served
  <2>1. PICK p : p = [q EXCEPT !.at = at]
    OBVIOUS
  <2>2. p.op = q.op /\ p.at = at /\ p.family = q.family /\ p.user = q.user
    BY <1>2, <2>1 DEF Request
  <2>3. at \in Running => StillTrue(p)
    BY <1>1, <1>3, <2>2 DEF StillTrue
  <2>4. UNCHANGED <<database, counters>>
    BY DEF OwnerOnly
  <2>5. QED
    BY <1>1, <1>3, <2>1, <2>3, <2>4, GotoMove
<1>4. \E at \in {"Update", "RemoveMember", "refused"} :
          Goto(r, at) /\ (at = "Update" => families[q.family].owner = q.user)
  BY <1>1 DEF OwnerOnly
<1>5. QED
  BY <1>3, <1>4

\* The search of RevokeInvitation for the family of the invitation.
LEMMA SearchMove ==
    ASSUME IInv, SInv, NEW r \in Requests, req[r].op = "RevokeInvitation",
           req[r].at \in {"ListByUser", "ListMembers", "ListInvitations"}, RevokeInvitation(r)
    PROVE  Served
<1>1. PICK q : q = req[r]
  OBVIOUS
<1>2. /\ q \in Request /\ q.at \in Running /\ StillTrue(q) /\ RevokeInv(q) /\ TypeOK
      /\ q.op = "RevokeInvitation"
  BY <1>1, RunFacts DEF OpInv, Running
<1>3. UNCHANGED <<database, counters>>
  BY <1>1 DEF RevokeInvitation, At
<1>4. ASSUME NEW left, NextFamily(r, left) PROVE Served
  <2>1. CASE Refuse(r)
    BY <1>1, <1>2, <1>3, <2>1, GotoMove DEF Refuse, Running
  <2>2. ASSUME NEW f \in left, NEW at, NEW p,
               at = IF families[f].owner = q.user THEN "ListInvitations" ELSE "ListMembers",
               p = [q EXCEPT !.family = f, !.left = left \ {f}, !.at = at], Become(r, p)
        PROVE  Served
    <3>1. p.op = q.op /\ p.at = at /\ p.family = f /\ p.user = q.user
      BY <1>2, <2>2 DEF Request
    <3>2. StillTrue(p)
      BY <1>2, <2>2, <3>1 DEF StillTrue, Revoker
    <3>3. QED
      BY <1>1, <1>2, <1>3, <2>2, <3>1, <3>2, ReadMove
  <2>3. QED
    BY <1>1, <1>4, <2>1, <2>2 DEF NextFamily
<1>5. ASSUME NEW at \in {"ListInvitations", "UpdateInvitation"}, Goto(r, at),
             at = "ListInvitations" => Revoker(q.family, q.user),
             at = "UpdateInvitation" => /\ invitations[q.code].family \in Families
                                        /\ Revoker(invitations[q.code].family, q.user)
      PROVE  Served
  <2>1. PICK p : p = [q EXCEPT !.at = at]
    OBVIOUS
  <2>2. p.op = q.op /\ p.at = at /\ p.family = q.family /\ p.user = q.user /\ p.code = q.code
    BY <1>2, <2>1 DEF Request
  <2>3. StillTrue(p)
    BY <1>2, <1>5, <2>2 DEF StillTrue
  <2>4. QED
    BY <1>1, <1>2, <1>3, <1>5, <2>1, <2>3, GotoMove
<1>6. CASE q.at = "ListByUser"
  <2>1. NextFamily(r, ListByUser(q.user))
    BY <1>1, <1>6 DEF RevokeInvitation, At
  <2>2. QED
    BY <1>4, <2>1
<1>7. CASE q.at = "ListMembers"
  <2>1. IF members[q.family][q.user].role = "admin"
        THEN Goto(r, "ListInvitations") ELSE NextFamily(r, q.left)
    BY <1>1, <1>7 DEF RevokeInvitation, At
  <2>2. QED
    BY <1>4, <1>5, <2>1 DEF Revoker
<1>8. CASE q.at = "ListInvitations"
  <2>1. IF invitations[q.code].family = q.family
        THEN Goto(r, "UpdateInvitation") ELSE NextFamily(r, q.left)
    BY <1>1, <1>8 DEF RevokeInvitation, At
  <2>2. q.family \in Families /\ Revoker(q.family, q.user)
    BY <1>2, <1>8 DEF RevokeInv, StillTrue
  <2>3. QED
    BY <1>4, <1>5, <2>1, <2>2
<1>9. QED
  BY <1>1, <1>6, <1>7, <1>8

LEMMA ReadsMove ==
    ASSUME IInv, SInv, NEW r \in Requests,
           Get(r) \/ ListInvitations(r) \/ ListMembers(r) \/ ListMy(r)
    PROVE  Served
<1>1. /\ req[r].at \in {"IsMember", "Fetch", "ListByUser"}
      /\ req[r].op \in {"Get", "ListInvitations", "ListMembers", "ListMy"}
      /\ UNCHANGED <<database, counters>>
  BY DEF Get, ListInvitations, ListMembers, ListMy, MemberRead, At
<1>2. req[r].at \in Running /\ req[r] \in Request
  BY <1>1, Facts DEF Running
<1>3. ASSUME NEW at, Goto(r, at) PROVE Served
  <2>1. PICK p : p = [req[r] EXCEPT !.at = at]
    OBVIOUS
  <2>2. p.op = req[r].op
    BY <1>2, <2>1 DEF Request
  <2>3. StillTrue(p)
    BY <1>1, <2>2 DEF StillTrue
  <2>4. QED
    BY <1>1, <1>2, <1>3, <2>1, <2>3, GotoMove
<1>4. \E at : Goto(r, at)
  BY DEF Get, ListInvitations, ListMembers, ListMy, MemberRead
<1>5. QED
  BY <1>3, <1>4

-----------------------------------------------------------------------------
(* AcceptInvitation *)

\* What an accept has read of its invitation.
LEMMA AcceptFacts ==
    ASSUME IInv, SInv, NEW r \in Requests, req[r].op = "AcceptInvitation",
           req[r].at \in {"FindInvitationByCode", "FindUser", "AddMember", "UpdateInvitation"}
    PROVE  /\ req[r] \in Request /\ Alone(r) /\ req[r].code \in Codes /\ req[r].at \in Running
           /\ req[r].at # "FindInvitationByCode" =>
                 LET inv == invitations[req[r].code] IN
                 /\ inv.status = "pending" /\ Exists(req[r].code)
                 /\ req[r].family = inv.family /\ req[r].by = inv.by
                 /\ req[r].target = req[r].user /\ req[r].role = "member"
           /\ req[r].at \in {"AddMember", "UpdateInvitation"} =>
                 req[r].user = invitations[req[r].code].to
<1>1. req[r].at \in Running
  BY DEF Running
<1>2. AcceptInv(req[r]) /\ StillTrue(req[r])
  BY <1>1, RunFacts DEF OpInv
<1>3. QED
  BY <1>1, <1>2, RunFacts DEF AcceptInv, StillTrue

\* Only one invitation is seen with another status.
OnlyFor(c, p, q, table) ==
    \A d \in Codes : d # c => StatusFor(p, table[d], d) = StatusFor(q, table[d], d)

LEMMA StatusChanges ==
    ASSUME NEW p, NEW q, NEW table, NEW c \in Codes, NEW status,
           StatusFor(p, table[c], c) = status, OnlyFor(c, p, q, table)
    PROVE  InvitationsFor(p, table) = [InvitationsFor(q, table) EXCEPT ![c].status = status]
<1> DEFINE row(a, d) == [status |-> StatusFor(a, table[d], d), family |-> table[d].family,
                         to |-> table[d].to, by |-> table[d].by]
<1>1. InvitationsFor(p, table) = [d \in Codes |-> row(p, d)]
  BY DEF InvitationsFor
<1>2. InvitationsFor(q, table) = [d \in Codes |-> row(q, d)]
  BY DEF InvitationsFor
<1>3. row(p, c) = [row(q, c) EXCEPT !.status = status]
  OBVIOUS
<1>4. \A d \in Codes : d # c => row(p, d) = row(q, d)
  BY DEF OnlyFor
<1> HIDE DEF row
<1>5. QED
  BY <1>1, <1>2, <1>3, <1>4

\* An accept that ends without admitting anybody: its invitation may have expired.
LEMMA GivenUpMove ==
    ASSUME IInv, SInv, NEW r \in Requests, req[r].op = "AcceptInvitation",
           req[r].at \in {"FindInvitationByCode", "FindUser", "AddMember"},
           Refuse(r), UNCHANGED <<database, counters>>
    PROVE  Served
<1>1. PICK q, c, p : q = req[r] /\ c = q.code /\ p = [q EXCEPT !.at = "refused"]
  OBVIOUS
<1>2. q \in Request /\ Alone(r) /\ c \in Codes
  BY <1>1, AcceptFacts
<1>3. Become(r, p) /\ p.at = "refused" /\ p.op = q.op /\ q.op = "AcceptInvitation"
  BY <1>1, <1>2 DEF Refuse, Goto, Request
<1>4. UNCHANGED <<families, members, invitations>> /\ UNCHANGED database /\ faults' = faults
  BY DEF database, counters
<1>5. p.at \notin Running
  BY <1>3 DEF Running
<1>6. \A f : ~Founds(p, f) /\ ~Founds(q, f)
  BY <1>3 DEF Founds
<1>7. \A d : ~Admits(p, d) /\ ~HasAdmitted(p, d) /\ ~HasAdmitted(q, d) /\ (Admits(q, d) => d = c)
  BY <1>1, <1>3 DEF Admits, HasAdmitted
<1>8. CASE ~Admits(q, c) \/ ~invitations[c].expired
  <2>1. \A d \in Codes : StatusFor(p, invitations[d], d) = StatusFor(q, invitations[d], d)
    BY <1>7, <1>8 DEF StatusFor
  <2>2. /\ \A f \in Families : Founds(p, f) <=> Founds(req[r], f)
        /\ \A d \in Codes : StatusFor(p, invitations[d], d) = StatusFor(req[r], invitations[d], d)
    BY <1>1, <1>6, <2>1
  <2>3. QED
    BY <1>2, <1>3, <1>4, <1>5, <2>2, QuietMove
<1>9. CASE Admits(q, c) /\ invitations[c].expired
  <2>1. invitations[c].status = "pending"
    BY <1>1, <1>9, AcceptFacts DEF Admits
  <2>2. /\ StatusFor(q, invitations[c], c) = "pending"
        /\ StatusFor(p, invitations[c], c) = "lapsed"
        /\ OnlyFor(c, p, q, invitations)
    BY <1>7, <1>9, <2>1 DEF StatusFor, OnlyFor
  <2>3. FoundedInv'
    BY <1>4 DEF SInv, FoundedInv, Unfounded, Exists
  <2>4. SInv' /\ FamiliesSeen' = FamiliesFor(p, families) /\ FamiliesSeen = FamiliesFor(q, families)
        /\ InvitationsSeen = InvitationsFor(q, invitations)
        /\ InvitationsSeen' = InvitationsFor(p, invitations)
    BY <1>1, <1>2, <1>3, <1>4, <1>5, <2>3, MoveStep DEF SInv
  <2>5. FamiliesSeen' = FamiliesSeen
    BY <1>6, <2>4 DEF FamiliesFor
  <2>6. InvitationsSeen[c].status = "pending"
    BY <1>2, <2>2, <2>4 DEF InvitationsFor
  <2>7. InvitationsSeen' = [InvitationsSeen EXCEPT ![c].status = "lapsed"]
    BY <1>2, <2>2, <2>4, StatusChanges
  <2>8. Ledger!Lapse(c)
    BY <1>4, <2>5, <2>6, <2>7 DEF Ledger!Lapse
  <2>9. QED
    BY <1>2, <2>4, <2>8 DEF Served, Ledger!Next
<1>10. QED
  BY <1>8, <1>9

LEMMA InvitationReadMove ==
    ASSUME IInv, SInv, NEW r \in Requests,
           At(r, "AcceptInvitation", "FindInvitationByCode"), ReadInvitation(r)
    PROVE  Served
<1>1. PICK q, c : q = req[r] /\ c = q.code
  OBVIOUS
<1>2. /\ q \in Request /\ Alone(r) /\ q.op = "AcceptInvitation"
      /\ q.at = "FindInvitationByCode"
  BY <1>1, AcceptFacts DEF At
<1>3. UNCHANGED <<database, counters>>
  BY DEF ReadInvitation
<1>4. CASE Refuse(r)
  BY <1>1, <1>2, <1>3, <1>4, GivenUpMove
<1>5. ASSUME NEW p, Usable(c), Become(r, p),
             p = [q EXCEPT !.at = "FindUser", !.family = invitations[c].family,
                           !.by = invitations[c].by, !.target = q.user, !.role = "member"]
      PROVE  Served
  <2>1. p.at = "FindUser" /\ p.op = q.op /\ p.code = c
    BY <1>1, <1>2, <1>5 DEF Request
  <2>2. invitations[c].status = "pending" /\ ~invitations[c].expired
    BY <1>5 DEF Usable
  <2>3. StillTrue(p)
    BY <1>2, <2>1, <2>2 DEF StillTrue
  <2>4. \A f : ~Founds(p, f) /\ ~Founds(q, f)
    BY <1>2, <2>1 DEF Founds
  <2>5. \A d : ~HasAdmitted(p, d) /\ ~HasAdmitted(q, d) /\ ~Admits(q, d) /\ (Admits(p, d) => d = c)
    BY <1>2, <2>1 DEF Admits, HasAdmitted
  <2>6. \A d \in Codes : StatusFor(p, invitations[d], d) = StatusFor(q, invitations[d], d)
    BY <2>2, <2>5 DEF StatusFor
  <2>7. UNCHANGED database /\ faults' = faults
    BY <1>3 DEF counters
  <2>8. QED
    BY <1>1, <1>2, <1>5, <2>3, <2>4, <2>6, <2>7, QuietMove
<1>6. QED
  BY <1>1, <1>4, <1>5 DEF ReadInvitation

LEMMA MatchMove ==
    ASSUME IInv, SInv, NEW r \in Requests, At(r, "AcceptInvitation", "FindUser"),
           MatchAddress(r)
    PROVE  Served
<1>1. PICK q, c : q = req[r] /\ c = q.code
  OBVIOUS
<1>2. /\ q \in Request /\ Alone(r) /\ q.op = "AcceptInvitation" /\ q.at = "FindUser"
      /\ invitations[c].status = "pending"
  BY <1>1, AcceptFacts DEF At
<1>3. UNCHANGED <<database, counters>>
  BY DEF MatchAddress
<1>4. CASE Goto(r, "refused")
  BY <1>1, <1>2, <1>3, <1>4, GivenUpMove DEF Refuse
<1>5. CASE Goto(r, "AddMember")
  <2>1. PICK p : p = [q EXCEPT !.at = "AddMember"]
    OBVIOUS
  <2>2. p.at = "AddMember" /\ p.op = q.op /\ p.code = c /\ Become(r, p)
    BY <1>1, <1>2, <1>5, <2>1 DEF Request, Goto
  <2>3. StillTrue(p)
    BY <1>2, <2>2 DEF StillTrue
  <2>4. \A f : ~Founds(p, f) /\ ~Founds(q, f)
    BY <1>2, <2>2 DEF Founds
  <2>5. \A d : (HasAdmitted(p, d) <=> HasAdmitted(q, d)) /\ (Admits(p, d) <=> Admits(q, d))
    BY <1>1, <1>2, <2>2 DEF Admits, HasAdmitted
  <2>6. \A d \in Codes : StatusFor(p, invitations[d], d) = StatusFor(q, invitations[d], d)
    BY <2>5, SameStatus
  <2>7. UNCHANGED database /\ faults' = faults
    BY <1>3 DEF counters
  <2>8. QED
    BY <1>1, <1>2, <2>2, <2>3, <2>4, <2>6, <2>7, QuietMove
<1>6. QED
  BY <1>4, <1>5 DEF MatchAddress

\* The step of the ledger: the row of the addressee is inserted.
LEMMA AdmittedMove ==
    ASSUME IInv, SInv, NEW r \in Requests, At(r, "AcceptInvitation", "AddMember"),
           InsertMember(r, "UpdateInvitation")
    PROVE  Served
<1>1. PICK q, c, inv, f, u : /\ q = req[r] /\ c = q.code /\ inv = invitations[c]
                             /\ f = inv.family /\ u = inv.to
  OBVIOUS
<1>2. /\ q \in Request /\ Alone(r) /\ q.op = "AcceptInvitation" /\ q.at = "AddMember"
      /\ c \in Codes /\ inv.status = "pending" /\ Exists(c)
      /\ q.family = f /\ q.by = inv.by /\ q.target = u /\ q.role = "member"
  BY <1>1, AcceptFacts DEF At
<1>3. f \in Families /\ u \in Users /\ families[f].owner # None
  BY <1>1, <1>2, Facts DEF TrustInv, SInv, FoundedInv
<1>4. CASE Refuse(r) /\ UNCHANGED <<database, counters>>
  BY <1>1, <1>2, <1>4, GivenUpMove
<1>5. CASE /\ members[f][u].role = "none"
           /\ members' = [members EXCEPT ![f][u] = [role |-> "member", by |-> inv.by]]
           /\ Become(r, [q EXCEPT !.at = "UpdateInvitation", !.wrote = TRUE])
           /\ UNCHANGED <<families, invitations, counters>>
  <2>1. PICK p : p = [q EXCEPT !.at = "UpdateInvitation", !.wrote = TRUE]
    OBVIOUS
  <2>2. p.at = "UpdateInvitation" /\ p.op = q.op /\ p.code = c /\ Become(r, p)
    BY <1>1, <1>2, <1>5, <2>1 DEF Request
  <2>3. FoundedInv' /\ faults' = 0
    BY <1>3, <1>5, EnrolTables DEF SInv, counters
  <2>4. StillTrue(p)'
    BY <1>1, <1>2, <1>5, <2>2 DEF StillTrue
  <2>5. \A g : ~Founds(p, g) /\ ~Founds(q, g)
    BY <1>2, <2>2 DEF Founds
  <2>6. FamiliesFor(p, families) = FamiliesFor(q, families)
    BY <2>5 DEF FamiliesFor
  <2>7. /\ SInv' /\ FamiliesSeen' = FamiliesSeen
        /\ InvitationsSeen = InvitationsFor(q, invitations)
        /\ InvitationsSeen' = InvitationsFor(p, invitations)
    BY <1>1, <1>2, <1>5, <2>2, <2>3, <2>4, <2>6, MoveStep
  <2>8. /\ StatusFor(q, invitations[c], c) = "pending"
        /\ StatusFor(p, invitations[c], c) = "accepted"
        /\ OnlyFor(c, p, q, invitations)
    BY <1>1, <1>2, <2>2 DEF StatusFor, Admits, HasAdmitted, OnlyFor
  <2>9. /\ InvitationsSeen[c].status = "pending" /\ InvitationsSeen[c].family = f
        /\ InvitationsSeen[c].to = u /\ InvitationsSeen[c].by = inv.by
    BY <1>1, <1>2, <2>7, <2>8 DEF InvitationsFor
  <2>10. InvitationsSeen' = [InvitationsSeen EXCEPT ![c].status = "accepted"]
    BY <1>2, <2>7, <2>8, StatusChanges
  <2>11. Ledger!Accept(c)
    BY <1>5, <2>7, <2>9, <2>10 DEF Ledger!Accept, Ledger!Enrolled
  <2>12. QED
    BY <1>2, <2>7, <2>11 DEF Served, Ledger!Next
<1>6. \/ Refuse(r) /\ UNCHANGED <<database, counters>>
      \/ /\ members[q.family][q.target].role = "none"
         /\ members' = [members EXCEPT ![q.family][q.target] =
                           [role |-> q.role, by |-> q.by]]
         /\ Become(r, [q EXCEPT !.at = "UpdateInvitation", !.wrote = TRUE])
         /\ UNCHANGED <<families, invitations, counters>>
  BY <1>1, <1>2, InsertFacts
<1>7. QED
  BY <1>2, <1>4, <1>5, <1>6

\* The mark follows, which the ledger has made already.
LEMMA MarkedMove ==
    ASSUME IInv, SInv, NEW r \in Requests, At(r, "AcceptInvitation", "UpdateInvitation"),
           SetStatus(r, "accepted")
    PROVE  Served
<1>1. PICK q, c, p : /\ q = req[r] /\ c = q.code
                     /\ p = [q EXCEPT !.at = "answered", !.wrote = TRUE]
  OBVIOUS
<1>2. /\ q \in Request /\ Alone(r) /\ q.op = "AcceptInvitation"
      /\ q.at = "UpdateInvitation" /\ c \in Codes /\ Exists(c)
  BY <1>1, AcceptFacts DEF At
<1>3. p.at = "answered" /\ p.op = q.op /\ p.at \notin Running
  BY <1>1, <1>2 DEF Request, Running
<1>4. /\ Become(r, p) /\ invitations' = [invitations EXCEPT ![c].status = "accepted"]
      /\ UNCHANGED <<families, members>> /\ faults' = 0
  BY <1>1 DEF SetStatus, counters, SInv
<1>5. /\ invitations'[c] = [invitations[c] EXCEPT !.status = "accepted"]
      /\ invitations[c] \in Invitation
      /\ \A d \in Codes : d # c => invitations'[d] = invitations[d]
  BY <1>2, <1>4, Facts DEF TypeOK
<1>6. /\ invitations'[c].status = "accepted" /\ invitations'[c].family = invitations[c].family
      /\ invitations'[c].to = invitations[c].to /\ invitations'[c].by = invitations[c].by
  BY <1>5 DEF Invitation
<1>7. FoundedInv'
  BY <1>2, <1>4, <1>5, <1>6 DEF SInv, FoundedInv, Unfounded, Exists
<1>8. FamiliesFor(p, families) = FamiliesFor(q, families)
  BY <1>2, <1>3 DEF FamiliesFor, Founds
<1>9. InvitationsFor(p, invitations') = InvitationsFor(q, invitations)
  <2>1. /\ StatusFor(q, invitations[c], c) = "accepted"
        /\ StatusFor(p, invitations'[c], c) = "accepted"
        /\ \A d \in Codes : d # c =>
              StatusFor(p, invitations'[d], d) = StatusFor(q, invitations[d], d)
    BY <1>1, <1>2, <1>3, <1>5, <1>6 DEF StatusFor, Admits, HasAdmitted
  <2>2. QED
    BY <1>5, <1>6, <2>1 DEF InvitationsFor
<1>10. SInv' /\ UNCHANGED Ledger!ledger
  BY <1>1, <1>2, <1>3, <1>4, <1>7, <1>8, <1>9, MoveStep DEF Ledger!ledger
<1>11. QED
  BY <1>10 DEF Served

LEMMA AcceptMove ==
    ASSUME IInv, SInv, NEW r \in Requests, AcceptInvitation(r) PROVE Served
BY InvitationReadMove, MatchMove, AdmittedMove, MarkedMove DEF AcceptInvitation

-----------------------------------------------------------------------------
(* Arrivals, ends and time *)

\* One request at a time, no failing statement or crash. (The finite set gives
\* the count of running requests its meaning.)
OneAtATime == MaxInFlight = 1 /\ MaxFaults = 0 /\ IsFiniteSet(Requests)

LEMMA ReceiveMove ==
    ASSUME OneAtATime, IInv, SInv, NEW r \in Requests, NEW u \in Users, Receive(r, u)
    PROVE  Served
<1>1. InFlight = {}
  <2>1. IsFiniteSet(InFlight)
    BY FS_Subset DEF OneAtATime, InFlight
  <2>2. Cardinality(InFlight) \in Nat /\ Cardinality(InFlight) < 1
    BY <2>1, FS_CardinalityType DEF OneAtATime, Receive
  <2>3. Cardinality(InFlight) = 0
    BY <2>2
  <2>4. QED
    BY <2>1, <2>3, FS_EmptySet
<1>2. Alone(r) /\ req[r].at = "idle"
  BY <1>1 DEF Alone, InFlight, Receive
<1>3. PICK p \in Request : /\ Become(r, p)
                           /\ p.at \in {"Create", "FindByID", "ListByUser", "IsMember",
                                        "FindInvitationByCode"}
  BY AsksFacts DEF Receive
<1>4. StillTrue(p)
  BY <1>3 DEF StillTrue
<1>5. UNCHANGED database /\ faults' = faults
  BY DEF Receive
<1>6. /\ \A f \in Families : Founds(p, f) <=> Founds(req[r], f)
      /\ \A c \in Codes : StatusFor(p, invitations[c], c) = StatusFor(req[r], invitations[c], c)
  BY <1>2, <1>3, SameStatus DEF Founds, Admits, HasAdmitted
<1>7. QED
  BY <1>2, <1>3, <1>4, <1>5, <1>6, QuietMove

\* Requests that do not run are not seen.
LEMMA FinishMove ==
    ASSUME IInv, SInv, NEW r \in Requests, Finish(r)
    PROVE  Served
<1>1. req' = [req EXCEPT ![r] = Idle] /\ req[r].at \notin Running /\ Idle.at = "idle"
  BY DEF Finish, Become, Idle, Running
<1>2. /\ UNCHANGED <<families, members, invitations>> /\ faults' = faults
      /\ req \in [Requests -> Request]
  BY DEF Finish, database, counters, IInv, TypeOK
<1>3. \A s \in Requests : /\ req'[s].at \in Running <=> req[s].at \in Running
                          /\ req[s].at \in Running => req'[s] = req[s]
  BY <1>1, <1>2 DEF Running
<1>4. SInv'
  <2>1. FoundedInv'
    BY <1>2 DEF SInv, FoundedInv, Unfounded, Exists
  <2>2. ASSUME NEW s \in Requests, req'[s].at \in Running
        PROVE  Alone(s)' /\ StillTrue(req[s])'
    <3>1. Alone(s) /\ StillTrue(req[s]) /\ req'[s] = req[s]
      BY <1>3, <2>2 DEF SInv
    <3>2. Alone(s)'
      BY <1>3, <3>1 DEF Alone
    <3>3. StillTrue(req[s])'
      BY <1>2, <3>1 DEF StillTrue, Trustee, Revoker, Unfounded
    <3>4. QED
      BY <3>2, <3>3
  <2>3. QED
    BY <1>2, <2>1, <2>2 DEF SInv
<1>5. ASSUME NEW s \in Requests, NEW op, NEW at \in Running
      PROVE  /\ At(s, op, at)' <=> At(s, op, at)
             /\ At(s, op, at) => req'[s] = req[s]
  BY <1>3 DEF At
<1>6. \A f : Founding(f)' <=> Founding(f)
  BY <1>5 DEF Founding, Running
<1>7. \A c : (Admitting(c)' <=> Admitting(c)) /\ (Admitted(c)' <=> Admitted(c))
  BY <1>5 DEF Admitting, Admitted, Running
<1>8. \A c : StatusSeen(c)' = StatusSeen(c)
  BY <1>2, <1>7 DEF StatusSeen
<1>9. UNCHANGED Ledger!ledger
  BY <1>2, <1>6, <1>8 DEF Ledger!ledger, FamiliesSeen, InvitationsSeen
<1>10. QED
  BY <1>4, <1>9 DEF Served

LEMMA ExpireMove ==
    ASSUME IInv, SInv, NEW c \in Codes, Expire(c)
    PROVE  Served
<1>1. /\ invitations' = [invitations EXCEPT ![c].expired = TRUE]
      /\ UNCHANGED <<families, members, req>> /\ faults' = faults /\ TypeOK
  BY Facts DEF Expire, counters, IInv
<1>2. /\ invitations'[c] = [invitations[c] EXCEPT !.expired = TRUE]
      /\ invitations[c] \in Invitation
      /\ \A d \in Codes : d # c => invitations'[d] = invitations[d]
  BY <1>1 DEF TypeOK
<1>3. /\ \A d \in Codes : /\ invitations'[d].status = invitations[d].status
                          /\ invitations'[d].family = invitations[d].family
                          /\ invitations'[d].to = invitations[d].to
                          /\ invitations'[d].by = invitations[d].by
      /\ invitations'[c].expired /\ ~invitations[c].expired
  BY <1>1, <1>2 DEF Invitation, Expire
<1>4. SInv'
  <2>1. FoundedInv'
    BY <1>1, <1>3 DEF SInv, FoundedInv, Unfounded, Exists
  <2>2. ASSUME NEW s \in Requests, req[s].at \in Running PROVE Alone(s)' /\ StillTrue(req[s])'
    <3>1. Alone(s) /\ StillTrue(req[s]) /\ OpInv(req[s])
      BY <2>2, Facts DEF SInv
    <3>2. Alone(s)'
      BY <1>1, <3>1 DEF Alone
    <3>3. req[s].op \in {"AcceptInvitation", "RevokeInvitation"} => req[s].code \in Codes
      BY <2>2, <3>1 DEF OpInv, AcceptInv, RevokeInv
    <3>4. StillTrue(req[s])'
      <4>1. /\ \A f, u : (Trustee(f, u)' <=> Trustee(f, u)) /\ (Revoker(f, u)' <=> Revoker(f, u))
            /\ \A f : Unfounded(f)' <=> Unfounded(f)
            /\ req'[s] = req[s] /\ families' = families
        BY <1>1 DEF Trustee, Revoker, Unfounded
      <4>2. QED
        BY <1>3, <3>1, <3>3, <4>1 DEF StillTrue
    <3>5. QED
      BY <3>2, <3>4
  <2>3. QED
    BY <1>1, <2>1, <2>2 DEF SInv
<1>5. \A f : Founding(f)' <=> Founding(f)
  BY <1>1 DEF Founding, At
<1>6. \A d : (Admitting(d)' <=> Admitting(d)) /\ (Admitted(d)' <=> Admitted(d))
  BY <1>1 DEF Admitting, Admitted, At
<1>7. FamiliesSeen' = FamiliesSeen
  BY <1>1, <1>5 DEF FamiliesSeen
<1>8. \A d \in Codes : d # c => StatusSeen(d)' = StatusSeen(d)
  BY <1>2, <1>6 DEF StatusSeen
<1>9. CASE Admitted(c) \/ Admitting(c) \/ invitations[c].status # "pending"
  <2>1. StatusSeen(c)' = StatusSeen(c)
    BY <1>3, <1>6, <1>9 DEF StatusSeen
  <2>2. InvitationsSeen' = InvitationsSeen
    BY <1>3, <1>8, <2>1 DEF InvitationsSeen
  <2>3. QED
    BY <1>1, <1>4, <1>7, <2>2 DEF Served, Ledger!ledger
<1>10. CASE ~Admitted(c) /\ ~Admitting(c) /\ invitations[c].status = "pending"
  <2>1. StatusSeen(c) = "pending" /\ StatusSeen(c)' = "lapsed"
    BY <1>3, <1>6, <1>10 DEF StatusSeen
  <2>2. InvitationsSeen[c].status = "pending"
    BY <2>1 DEF InvitationsSeen
  <2>3. InvitationsSeen' = [InvitationsSeen EXCEPT ![c].status = "lapsed"]
    <3> DEFINE row(d) == [status |-> StatusSeen(d), family |-> invitations[d].family,
                          to |-> invitations[d].to, by |-> invitations[d].by]
    <3>1. InvitationsSeen = [d \in Codes |-> row(d)]
      BY DEF InvitationsSeen
    <3>2. InvitationsSeen' = [d \in Codes |-> row(d)']
      BY DEF InvitationsSeen
    <3>3. row(c)' = [row(c) EXCEPT !.status = "lapsed"]
      BY <1>3, <2>1
    <3>4. \A d \in Codes : d # c => row(d)' = row(d)
      BY <1>3, <1>8
    <3> HIDE DEF row
    <3>5. QED
      BY <3>1, <3>2, <3>3, <3>4
  <2>4. Ledger!Lapse(c)
    BY <1>1, <1>7, <2>2, <2>3 DEF Ledger!Lapse
  <2>5. QED
    BY <1>4, <2>4 DEF Served, Ledger!Next
<1>11. QED
  BY <1>9, <1>10

-----------------------------------------------------------------------------
(* The refinement *)

LEMMA ServeMove ==
    ASSUME IInv, IInv', SInv, NEW r \in Requests, Serve(r)
    PROVE  Served
<1>1. CASE Create(r)
  BY <1>1, CreateMove
<1>2. CASE Update(r)
  BY <1>2, OwnerMove, RenameMove DEF Update, OwnerOnly, At, Running
<1>3. CASE AddMember(r)
  BY <1>3, CheckedMove, AddedMove DEF AddMember, isAdminOrOwner, At, Running
<1>4. CASE RemoveMember(r)
  BY <1>4, OwnerMove, RemovedMove DEF RemoveMember, OwnerOnly, At, Running
<1>5. CASE Invite(r)
  BY <1>5, CheckedMove, InvitedMove DEF Invite, isAdminOrOwner, At, Running
<1>6. CASE AcceptInvitation(r)
  BY <1>6, AcceptMove
<1>7. CASE RevokeInvitation(r)
  BY <1>7, SearchMove, RevokedMove DEF RevokeInvitation, At
<1>8. CASE Get(r) \/ ListMy(r) \/ ListInvitations(r) \/ ListMembers(r)
  BY <1>8, ReadsMove
<1>9. QED
  BY <1>1, <1>2, <1>3, <1>4, <1>5, <1>6, <1>7, <1>8 DEF Serve

LEMMA InitServed == Init => SInv /\ Ledger!Init
<1> SUFFICES ASSUME Init PROVE SInv /\ Ledger!Init
  OBVIOUS
<1>1. /\ \A r \in Requests : req[r] = Idle
      /\ Idle.at = "idle" /\ Idle.at \notin Running
  BY DEF Init, Idle, Running
<1>2. /\ \A f \in Families : families[f] = NoFamily /\ Unfounded(f)
      /\ \A c \in Codes : invitations[c] = NoInvitation
  BY DEF Init, Unfounded, NoMember
<1>3. SInv
  BY <1>1, <1>2 DEF Init, SInv, FoundedInv, Exists, NoInvitation
<1>4. /\ \A f : ~Founding(f)
      /\ \A c : ~Admitting(c) /\ ~Admitted(c)
  BY <1>1 DEF Founding, Admitting, Admitted, At
<1>5. \A c \in Codes : StatusSeen(c) = "none"
  BY <1>2, <1>4 DEF StatusSeen, NoInvitation
<1>6. FamiliesSeen = [f \in Families |-> [owner |-> None, name |-> None]]
  BY <1>2, <1>4 DEF FamiliesSeen, NoFamily
<1>7. InvitationsSeen = [c \in Codes |-> [status |-> "none", family |-> None, to |-> None,
                                          by |-> None]]
  BY <1>2, <1>5 DEF InvitationsSeen, NoInvitation
<1>8. QED
  BY <1>3, <1>6, <1>7 DEF Init, Ledger!Init, NoMember

LEMMA NextServed ==
    ASSUME OneAtATime
    PROVE  IInv /\ IInv' /\ SInv /\ [Next]_vars => SInv' /\ [Ledger!Next]_Ledger!ledger
<1> SUFFICES ASSUME IInv, IInv', SInv, [Next]_vars PROVE Served
  BY DEF Served
<1>1. ASSUME NEW r \in Requests, StatementFails(r) PROVE FALSE
  BY <1>1 DEF OneAtATime, SInv, StatementFails, Fault
<1>2. ~Crash
  BY DEF OneAtATime, SInv, Crash, Fault
<1>3. CASE UNCHANGED vars
  <2>1. UNCHANGED <<families, members, invitations, req, faults>>
    BY <1>3 DEF vars, database, counters
  <2>2. SInv'
    <3>1. \A r \in Requests : /\ Alone(r)' <=> Alone(r)
                              /\ StillTrue(req[r])' <=> StillTrue(req[r])
      BY <2>1 DEF Alone, StillTrue, Trustee, Revoker, Unfounded
    <3>2. FoundedInv' <=> FoundedInv
      BY <2>1 DEF FoundedInv, Unfounded, Exists
    <3>3. QED
      BY <2>1, <3>1, <3>2 DEF SInv
  <2>3. UNCHANGED Ledger!ledger
    BY <2>1 DEF Ledger!ledger, FamiliesSeen, InvitationsSeen, Founding, StatusSeen, Admitting,
                Admitted, At
  <2>4. QED
    BY <2>2, <2>3 DEF Served
<1>4. QED
  BY <1>1, <1>2, <1>3, ServeMove, FinishMove, ReceiveMove, ExpireMove DEF Next

\* Served one at a time and with no statement failing, the statements of every request
\* together are one step of FamilyLedger: it takes effect at once or not at all.
THEOREM ImplementsLedger == ASSUME OneAtATime PROVE Spec => LedgerImplemented
<1>1. IInv /\ [Next]_vars => IInv'
  BY NextInv
<1>2. QED
  BY <1>1, InitServed, NextServed, Invariance, PTL
     DEF Spec, LedgerImplemented, Ledger!Spec

=============================================================================
