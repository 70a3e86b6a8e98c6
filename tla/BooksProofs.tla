---------------------------- MODULE BooksProofs ----------------------------
(***************************************************************************)
(* The safety of the transaction, category and dashboard services and of   *)
(* what Sync writes, for any number of overlapping requests, whatever      *)
(* families, rows and categories there are.                                *)
(***************************************************************************)
EXTENDS Books, TLAPS

-----------------------------------------------------------------------------
(* The invariant *)

Active(q)    == q.at \notin {"idle", "refused"}
Asking       == {"IsMember", "FindFamily", "ListMembers"}
OnRow        == {"Get", "Update", "Delete"}
OnCategory   == {"Create", "Update", "CreatePersonal", "CreateFamily", "GetCategory",
                 "UpdateCategory", "DeleteCategory"}
RowWrites      == {"Create", "Update", "SoftDelete"}
CategoryWrites == {"CreateCategory", "UpdateCategory", "DeleteCategory"}

\* What a request carries for as long as it is served, Sync while it makes a
\* change.
Carries(q) ==
    /\ q.at \in Running => q.user \in Users
    /\ q.op \in OnRow /\ Active(q) => q.tx \in Transactions
    /\ q.op = "Create" /\ q.at \in Running => q.tx \in Transactions
    /\ q.op \in OnCategory /\ q.at \in Running => q.category \in Categories
    /\ q.op \in Syncs /\ q.at \in RowWrites => q.tx \in Transactions
    /\ q.op \in Syncs /\ q.at \in CategoryWrites \cup {"Create", "Update"}
           => q.category \in Categories
    /\ q.at \in Asking \/ q.op = "SyncFamily" => q.family \in Families
    /\ q.at \in {"FindFamily", "ListMembers"} => q.op \in {"Update", "Delete"}

\* The row of a request: it exists, and its family is the one that is asked for.
RowInv(q) ==
    /\ q.op \in OnRow /\ Active(q) =>
          /\ transactions[q.tx].state # "none"
          /\ q.at \in Asking => transactions[q.tx].family = q.family
    /\ q.op = "Delete" /\ q.at = "answered" => transactions[q.tx].state = "deleted"

\* Past its check a guarded request is entitled; between the question for the
\* family and the one for its members it is if its user is the owner.
Past == RowWrites \cup CategoryWrites \cup {"Change", "Fetch", "answered"}

EntitledInv(r, q) ==
    /\ Guarded(q) /\ q.at \in Past => r \in entitled
    /\ q.at \in {"FindFamily", "ListMembers"} =>
          /\ owner[q.family] # None
          /\ owner[q.family] = q.user => r \in entitled

ReqInv(r, q) == Carries(q) /\ RowInv(q) /\ EntitledInv(r, q)

\* Who is entitled is noted.
Noted ==
    \A r \in Requests :
        req[r].at \in Running /\ Guarded(req[r]) /\ Entitled(req[r]) => r \in entitled

Founded == \A f \in Families, u \in Users : Member(f, u) => owner[f] # None

IInv ==
    /\ TypeOK
    /\ \A r \in Requests : ReqInv(r, req[r])
    /\ Noted
    /\ Founded
    /\ ReferencesKept
    /\ DeletedOnce

-----------------------------------------------------------------------------
(* What survives a step *)

\* What RowsKept says of a step.
RowsStep ==
    \A t \in Transactions :
        /\ transactions[t].state = "deleted" => transactions'[t] = transactions[t]
        /\ transactions[t].state = "live" =>
              /\ transactions'[t].state # "none"
              /\ transactions'[t].creator = transactions[t].creator
              /\ transactions'[t].family = transactions[t].family

LEMMA Noting ==
    ASSUME Witness PROVE Noted'
BY DEF Witness, Noted

\* A request that does not move keeps its part of the invariant.
LEMMA Frame ==
    ASSUME IInv, NEW s \in Requests, req'[s] = req[s], Witness, RowsStep,
           \A f \in Families : owner[f] # None => owner'[f] = owner[f]
    PROVE  ReqInv(s, req[s])'
<1> DEFINE q == req[s]
<1>1. ReqInv(s, q) /\ TypeOK /\ q \in Request
  BY DEF IInv, TypeOK
<1>2. Carries(q)'
  BY <1>1 DEF ReqInv, Carries, Active
<1>3. RowInv(q)'
  <2>1. ASSUME q.op \in OnRow, Active(q)
        PROVE  /\ transactions'[q.tx].state # "none"
               /\ transactions'[q.tx].family = transactions[q.tx].family
               /\ transactions[q.tx].state = "deleted" =>
                      transactions'[q.tx].state = "deleted"
    <3>1. q.tx \in Transactions /\ transactions[q.tx].state # "none"
      BY <1>1, <2>1 DEF ReqInv, Carries, RowInv
    <3>2. transactions[q.tx].state \in {"live", "deleted"}
      BY <1>1, <3>1 DEF TypeOK, Transaction
    <3>3. QED
      BY <3>1, <3>2 DEF RowsStep
  <2>2. QED
    BY <1>1, <2>1 DEF ReqInv, RowInv, OnRow, Active
<1>4. EntitledInv(s, q)'
  <2>1. s \in entitled /\ Guarded(q) => s \in entitled'
    BY DEF Witness
  <2>2. q.at \in {"FindFamily", "ListMembers"} => q.family \in Families /\ Guarded(q)
    BY <1>1 DEF ReqInv, Carries, Asking, Guarded
  <2>3. Guarded(q)' <=> Guarded(q)
    BY DEF Guarded
  <2>4. QED
    BY <1>1, <2>1, <2>2, <2>3 DEF ReqInv, EntitledInv
<1>5. QED
  BY <1>2, <1>3, <1>4 DEF ReqInv

\* One request moves to the state q, which meets its own part of the invariant.
LEMMA StepInv ==
    ASSUME IInv, NEW r \in Requests, NEW q \in Request, Become(r, q), Witness, RowsStep,
           UNCHANGED <<owner, role>>, asked' \in Nat,
           transactions' \in [Transactions -> Transaction],
           categories' \in [Categories -> Category], ReferencesKept', ReqInv(r, q)',
           q.op = "Delete" /\ q.at = "answered" => transactions[q.tx].state = "live"
    PROVE  IInv'
<1>1. req' = [req EXCEPT ![r] = q] /\ req \in [Requests -> Request]
  BY DEF Become, IInv, TypeOK
<1>2. req'[r] = q /\ \A s \in Requests \ {r} : req'[s] = req[s]
  BY <1>1
<1>3. TypeOK'
  BY <1>1 DEF IInv, TypeOK, Witness
<1>4. ASSUME NEW s \in Requests PROVE ReqInv(s, req[s])'
  <2>1. CASE s = r
    BY <1>2, <2>1 DEF ReqInv, Carries, RowInv, EntitledInv, Guarded
  <2>2. CASE s # r
    BY <1>2, <2>2, Frame
  <2>3. QED
    BY <2>1, <2>2
<1>5. Noted' /\ Founded'
  BY Noting DEF IInv, Founded, Member
<1>6. DeletedOnce'
  <2>1. DeletedOnce
    BY DEF IInv
  <2>2. ASSUME NEW s \in Requests \ {r}, At(s, "Delete", "answered")
        PROVE  transactions[req[s].tx].state = "deleted"
    BY <2>2 DEF IInv, ReqInv, RowInv, At
  <2>3. QED
    BY <1>2, <2>1, <2>2 DEF DeletedOnce, At
<1>7. QED
  BY <1>3, <1>4, <1>5, <1>6 DEF IInv

\* What the types say of one request.
LEMMA Facts ==
    ASSUME IInv, NEW r \in Requests
    PROVE  TypeOK /\ req[r] \in Request /\ ReqInv(r, req[r]) /\ asked \in Nat
BY DEF IInv, TypeOK

\* A guarded request that was entitled stays so.
LEMMA StaysEntitled ==
    ASSUME IInv, NEW r \in Requests, NEW q, Become(r, q), Witness, Carries(q),
           EntitledInv(r, q), UNCHANGED <<owner, transactions>>
    PROVE  EntitledInv(r, q)'
<1>1. req'[r] = q
  BY Facts DEF Become, TypeOK
<1>2. r \in entitled /\ Guarded(q) => r \in entitled'
  BY <1>1 DEF Witness
<1>3. q.at \in {"FindFamily", "ListMembers"} => Guarded(q)
  BY DEF Carries, Guarded
<1>4. QED
  BY <1>2, <1>3 DEF EntitledInv, Guarded

\* A step that leaves the rows.
LEMMA QuietStep ==
    ASSUME IInv, NEW r \in Requests, NEW q \in Request, Become(r, q), Witness,
           UNCHANGED <<owner, role, tables>>, asked' \in Nat,
           Carries(q), RowInv(q), EntitledInv(r, q), ~(q.op = "Delete" /\ q.at = "answered")
    PROVE  IInv' /\ RowsStep
<1>1. UNCHANGED <<owner, role, transactions, categories>>
  BY DEF tables
<1>2. RowsStep
  <2>1. transactions' = transactions
    BY <1>1
  <2>2. QED
    BY <2>1 DEF RowsStep
<1>3. ReqInv(r, q)'
  <2>1. EntitledInv(r, q)'
    BY <1>1, StaysEntitled
  <2>2. Carries(q)' /\ RowInv(q)'
    BY <1>1 DEF Carries, RowInv, Active
  <2>3. QED
    BY <2>1, <2>2 DEF ReqInv
<1>4. ReferencesKept'
  BY <1>1 DEF IInv, ReferencesKept
<1>5. TypeOK
  BY DEF IInv
<1>6. IInv'
  BY <1>1, <1>2, <1>3, <1>4, <1>5, StepInv DEF TypeOK
<1>7. QED
  BY <1>2, <1>6

\* A request that is refused, by the service or by a failure.
LEMMA RefuseStep ==
    ASSUME IInv, NEW r \in Requests, Refuse(r), Witness,
           UNCHANGED <<owner, role, tables>>, asked' \in {asked, asked + 1}
    PROVE  IInv' /\ RowsStep
<1> DEFINE q == [Idle EXCEPT !.at = "refused"]
<1>1. q \in Request /\ q.at = "refused" /\ q.op = "none"
  BY DEF Idle, Request
<1>2. Become(r, q) /\ asked' \in Nat
  BY Facts DEF Refuse
<1> HIDE DEF q
<1>3. Carries(q) /\ RowInv(q) /\ EntitledInv(r, q)
  BY <1>1 DEF Carries, RowInv, EntitledInv, Active, Asking, OnRow, OnCategory, Running,
     RowWrites, CategoryWrites, Past, Syncs
<1>4. QED
  BY <1>1, <1>2, <1>3, QuietStep

\* The request p gone on to the statement at.
Gone(p, q, at) ==
    /\ q.at = at /\ q.op = p.op /\ q.family = p.family
    /\ at # "answered" => q.user = p.user
    /\ at # "Change" => q.tx = p.tx
    /\ at \notin {"answered", "Change"} => q.category = p.category

LEMMA GoesOn ==
    ASSUME IInv, NEW r \in Requests, NEW at \in Running \cup {"answered"}, Goto(r, at)
    PROVE  \E q \in Request : Become(r, q) /\ Gone(req[r], q, at)
<1> DEFINE p == req[r]
<1>1. p \in Request /\ at # "refused"
  BY Facts DEF Running
<1>2. CASE at = "answered"
  <2> DEFINE q == [p EXCEPT !.at = at, !.user = None, !.category = None]
  <2>1. Become(r, q)
    BY <1>2 DEF Goto
  <2>2. q \in Request
    BY <1>1 DEF Request
  <2>3. Gone(p, q, at)
    BY <1>1, <1>2 DEF Gone, Request
  <2>4. QED
    BY <2>1, <2>2, <2>3
<1>3. CASE at = "Change"
  <2> DEFINE q == [p EXCEPT !.at = at, !.tx = None, !.category = None]
  <2>1. Become(r, q)
    BY <1>3 DEF Goto
  <2>2. q \in Request
    BY <1>1 DEF Request
  <2>3. Gone(p, q, at)
    BY <1>1, <1>3 DEF Gone, Request
  <2>4. QED
    BY <2>1, <2>2, <2>3
<1>4. CASE at \notin {"answered", "Change"}
  <2> DEFINE q == [p EXCEPT !.at = at]
  <2>1. Become(r, q)
    BY <1>1, <1>4 DEF Goto
  <2>2. q \in Request
    BY <1>1 DEF Request
  <2>3. Gone(p, q, at)
    BY <1>1 DEF Gone, Request
  <2>4. QED
    BY <2>1, <2>2, <2>3
<1>5. QED
  BY <1>2, <1>3, <1>4

\* A request that goes on to the statement at.
LEMMA GotoStep ==
    ASSUME IInv, NEW r \in Requests, req[r].at \in Running, Witness,
           NEW at \in Running \cup {"answered"}, Goto(r, at),
           UNCHANGED <<owner, role, tables, asked>>,
           at \in Asking => req[r].family \in Families,
           req[r].op \in OnRow /\ at \in Asking =>
               transactions[req[r].tx].family = req[r].family,
           at = "Change" => req[r].op \in Syncs,
           req[r].op \in Syncs => at \notin RowWrites \cup CategoryWrites,
           Guarded(req[r]) /\ at \in Past => r \in entitled,
           at \in {"FindFamily", "ListMembers"} =>
               /\ req[r].op \in {"Update", "Delete"}
               /\ owner[req[r].family] # None
               /\ owner[req[r].family] = req[r].user => r \in entitled,
           req[r].op = "Delete" => at # "answered"
    PROVE  IInv' /\ RowsStep
<1>1. req[r] \in Request /\ ReqInv(r, req[r]) /\ asked \in Nat
  BY Facts
<1>2. PICK q \in Request : Become(r, q) /\ Gone(req[r], q, at)
  BY GoesOn
<1>3. Active(req[r]) /\ Active(q) /\ (req[r].op \in Syncs => req[r].op \notin OnRow
        /\ req[r].op \notin OnCategory)
  BY <1>2 DEF Active, Running, Gone, Syncs, OnRow, OnCategory
<1>4. Carries(q)
  <2>1. /\ q.at = at /\ q.op = req[r].op /\ q.family = req[r].family
        /\ at # "answered" => q.user = req[r].user
        /\ at # "Change" => q.tx = req[r].tx
        /\ at \notin {"answered", "Change"} => q.category = req[r].category
    BY <1>2 DEF Gone
  <2>2. "answered" \notin Running
    BY DEF Running
  <2>3. q.at \in Running => q.user \in Users
    BY <1>1, <2>1, <2>2 DEF ReqInv, Carries
  <2>4. /\ q.op \in OnRow /\ Active(q) => q.tx \in Transactions
        /\ q.op = "Create" /\ q.at \in Running => q.tx \in Transactions
    BY <1>1, <1>3, <2>1 DEF ReqInv, Carries, OnCategory
  <2>5. q.op \in OnCategory /\ q.at \in Running => q.category \in Categories
    BY <1>1, <1>3, <2>1, <2>2 DEF ReqInv, Carries
  <2>6. /\ q.op \in Syncs => q.at \notin RowWrites \cup CategoryWrites
        /\ {"Create", "Update"} \subseteq RowWrites
    BY <2>1 DEF RowWrites
  <2>7. /\ q.at \in Asking \/ q.op = "SyncFamily" => q.family \in Families
        /\ q.at \in {"FindFamily", "ListMembers"} => q.op \in {"Update", "Delete"}
    BY <1>1, <2>1 DEF ReqInv, Carries
  <2>8. QED
    BY <2>3, <2>4, <2>5, <2>6, <2>7 DEF Carries
<1>5. RowInv(q)
  BY <1>1, <1>2, <1>3 DEF ReqInv, RowInv, Gone, OnRow, Syncs
<1>6. Guarded(q) <=> Guarded(req[r])
  BY <1>2 DEF Guarded, Gone
<1>7. EntitledInv(r, q)
  BY <1>2, <1>6 DEF EntitledInv, Gone
<1>8. asked' \in Nat /\ ~(q.op = "Delete" /\ q.at = "answered")
  BY <1>1, <1>2 DEF Gone
<1>9. QED
  BY <1>2, <1>4, <1>5, <1>7, <1>8, QuietStep

-----------------------------------------------------------------------------
(* The services *)

LEMMA FetchStep ==
    ASSUME IInv, NEW r \in Requests, Fetch(r), Witness, UNCHANGED <<owner, role, asked>>,
           req[r].op # "Delete"
    PROVE  IInv' /\ RowsStep
<1>1. req[r].at = "Fetch" /\ Goto(r, "answered") /\ UNCHANGED tables
  BY DEF Fetch, Read
<1>2. Guarded(req[r]) => r \in entitled
  BY <1>1, Facts DEF ReqInv, EntitledInv, Past
<1>3. "answered" \notin Asking \cup RowWrites \cup CategoryWrites /\ req[r].at \in Running
  BY <1>1 DEF Running, Asking, RowWrites, CategoryWrites
<1>4. QED
  BY <1>1, <1>2, <1>3, GotoStep

\* The check of the requests that name their family themselves.
LEMMA IsMemberStep ==
    ASSUME IInv, NEW r \in Requests,
           NEW then \in {"Create", "CreateCategory", "Fetch", "Change"},
           IsMember(r, then), Witness, UNCHANGED <<owner, role, asked>>,
           req[r].op \notin OnRow, then = "Change" <=> req[r].op \in Syncs
    PROVE  IInv' /\ RowsStep
<1>1. req[r].at = "IsMember" /\ UNCHANGED tables /\ req[r].at \in Running
  BY DEF IsMember, Read, Running
<1>2. CASE ~Member(req[r].family, req[r].user)
  BY <1>1, <1>2, RefuseStep DEF IsMember, Goto
<1>3. CASE Member(req[r].family, req[r].user)
  <2>1. Goto(r, then)
    BY <1>3 DEF IsMember
  <2>2. Guarded(req[r]) => r \in entitled
    BY <1>1, <1>3 DEF Entitled, OnRow, IInv, Noted
  <2>3. then \in Running /\ then \notin Asking
    BY DEF Running, Asking
  <2>4. then = "Change" => then \notin RowWrites \cup CategoryWrites
    BY DEF RowWrites, CategoryWrites
  <2>5. req[r].op # "Delete" /\ then \notin {"FindFamily", "ListMembers"}
    BY DEF OnRow
  <2>6. QED
    BY <1>1, <2>1, <2>2, <2>3, <2>4, <2>5, GotoStep
<1>4. QED
  BY <1>2, <1>3

LEMMA FindTransactionStep ==
    ASSUME IInv, NEW r \in Requests, NEW mine \in {"answered", "Update", "SoftDelete"},
           FindTransaction(r, mine, "IsMember"), Witness, UNCHANGED <<owner, role, asked>>,
           req[r].op \in OnRow, req[r].op = "Delete" => mine = "SoftDelete"
    PROVE  IInv' /\ RowsStep
<1> DEFINE row == transactions[req[r].tx]
<1>1. req[r].at = "FindTransaction" /\ UNCHANGED tables
  BY DEF FindTransaction, Read
<1>2. TypeOK /\ req[r] \in Request /\ ReqInv(r, req[r]) /\ asked \in Nat
  BY Facts
<1>3. req[r].at \in Running /\ Active(req[r]) /\ req[r].user \in Users
  BY <1>1, <1>2 DEF Running, Active, ReqInv, Carries
<1>4. req[r].tx \in Transactions /\ row.state # "none" /\ row \in Transaction
  BY <1>2, <1>3 DEF ReqInv, Carries, RowInv, TypeOK
<1>5. CASE Refuse(r)
  BY <1>1, <1>5, RefuseStep
<1>6. CASE row.family = None /\ Goto(r, IF row.creator = req[r].user THEN mine ELSE "refused")
  <2>1. CASE row.creator # req[r].user
    BY <1>1, <1>6, <2>1, RefuseStep DEF Goto
  <2>2. CASE row.creator = req[r].user
    <3>1. Goto(r, mine)
      BY <1>6, <2>2
    <3>2. Entitled(req[r])
      BY <1>6, <2>2 DEF Entitled, OnRow
    <3>3. mine \in Running \cup {"answered"} /\ mine \notin Asking
      BY DEF Running, Asking
    <3>4. Guarded(req[r]) => r \in entitled
      BY <1>3, <3>2 DEF IInv, Noted
    <3>5. req[r].op \notin Syncs
      BY DEF OnRow, Syncs
    <3>6. QED
      BY <1>1, <1>3, <3>1, <3>3, <3>4, <3>5, GotoStep
  <2>3. QED
    BY <2>1, <2>2
<1>7. CASE /\ row.family # None
           /\ Become(r, [req[r] EXCEPT !.at = "IsMember", !.family = row.family])
  <2>1. row.family \in Families
    BY <1>4, <1>7 DEF Transaction
  <2>2. [req[r] EXCEPT !.at = "IsMember", !.family = row.family] \in Request
    BY <1>2, <2>1 DEF Request, Running
  <2>3. PICK q \in Request : q = [req[r] EXCEPT !.at = "IsMember", !.family = row.family]
    BY <2>2
  <2>4. /\ q.at = "IsMember" /\ q.op = req[r].op /\ q.user = req[r].user
        /\ q.family = row.family /\ q.category = req[r].category /\ q.tx = req[r].tx
        /\ Become(r, q)
    BY <1>2, <1>7, <2>3 DEF Request
  <2>5. Active(q) /\ q.op \notin Syncs \cup {"Create"}
    BY <2>4 DEF Active, OnRow, Syncs
  <2>6. Carries(q)
    BY <1>2, <1>3, <2>1, <2>4, <2>5 DEF ReqInv, Carries
  <2>7. RowInv(q)
    BY <1>4, <2>4, <2>5 DEF RowInv
  <2>8. EntitledInv(r, q)
    BY <2>4 DEF EntitledInv, Past, RowWrites, CategoryWrites
  <2>9. UNCHANGED <<owner, role, tables>> /\ asked' \in Nat
    BY <1>1, <1>2
  <2>10. QED
    BY <2>4, <2>6, <2>7, <2>8, <2>9, QuietStep
<1>8. QED
  BY <1>5, <1>6, <1>7 DEF FindTransaction

\* A request on a row past the check of membership.
LEMMA GetMemberStep ==
    ASSUME IInv, NEW r \in Requests, IsMember(r, "answered"), Witness, req[r].op = "Get",
           UNCHANGED <<owner, role, asked>>
    PROVE  IInv' /\ RowsStep
<1>1. req[r].at = "IsMember" /\ UNCHANGED tables /\ req[r].at \in Running
  BY DEF IsMember, Read, Running
<1>2. transactions[req[r].tx].family = req[r].family /\ req[r].family \in Families
  BY <1>1, Facts DEF ReqInv, RowInv, Carries, Active, Asking, OnRow
<1>3. CASE ~Member(req[r].family, req[r].user)
  BY <1>1, <1>3, RefuseStep DEF IsMember, Goto
<1>4. CASE Member(req[r].family, req[r].user)
  <2>1. Goto(r, "answered")
    BY <1>4 DEF IsMember
  <2>2. Entitled(req[r])
    BY <1>2, <1>4, ConstantsAssumption DEF Entitled, ConstantsAssumption
  <2>3. Guarded(req[r]) => r \in entitled
    BY <1>1, <2>2 DEF IInv, Noted
  <2>4. "answered" \notin Asking /\ req[r].op \notin Syncs
    BY DEF Asking, Syncs
  <2>5. QED
    BY <1>1, <2>1, <2>3, <2>4, GotoStep
<1>5. QED
  BY <1>3, <1>4

LEMMA CanModifyStep ==
    ASSUME IInv, NEW r \in Requests, NEW then \in {"Update", "SoftDelete"},
           canModify(r, then), Witness, UNCHANGED <<owner, role, asked>>,
           req[r].op \in {"Update", "Delete"}, req[r].op = "Delete" => then = "SoftDelete"
    PROVE  IInv' /\ RowsStep
<1> DEFINE q == req[r] row == transactions[q.tx]
<1>1. TypeOK /\ q \in Request /\ ReqInv(r, q) /\ Founded /\ Noted
  BY Facts DEF IInv
<1>2. /\ q.op \in OnRow /\ q.op \notin Syncs /\ Guarded(q)
      /\ then \in Running /\ then \notin Asking /\ Asking \subseteq Running
  BY DEF OnRow, Running, Asking, Syncs, Guarded
<1>3. CASE FindTransaction(r, then, "IsMember")
  BY <1>2, <1>3, FindTransactionStep
<1>4. ASSUME q.at \in Asking
      PROVE  q.family \in Families /\ q.user \in Users /\ row.family = q.family
             /\ q.family # None
  <2>1. Active(q) /\ q.at \in Running
    BY <1>2, <1>4 DEF Active, Asking
  <2>2. q.family \in Families /\ q.user \in Users /\ row.family = q.family
    BY <1>1, <1>2, <1>4, <2>1 DEF ReqInv, Carries, RowInv
  <2>3. QED
    BY <2>2, ConstantsAssumption DEF ConstantsAssumption
\* Any of the questions, answered in favour of the user.
<1>5. ASSUME q.at \in Asking, Goto(r, then), UNCHANGED tables,
             r \in entitled \/ Entitled(q)
      PROVE  IInv' /\ RowsStep
  <2>1. r \in entitled /\ q.at \in Running
    BY <1>1, <1>2, <1>5 DEF Noted
  <2>2. then \notin {"FindFamily", "ListMembers", "answered", "Change"}
    OBVIOUS
  <2>3. QED
    BY <1>2, <1>5, <2>1, <2>2, GotoStep
\* The next question is put.
<1>6. ASSUME q.at \in Asking, NEW next \in {"FindFamily", "ListMembers"},
             Goto(r, next), UNCHANGED tables, owner[q.family] # None,
             owner[q.family] = q.user => r \in entitled
      PROVE  IInv' /\ RowsStep
  <2>1. q.at \in Running /\ next \in Running /\ next \in Asking
    BY <1>2, <1>6 DEF Asking
  <2>2. next \notin Past /\ next # "Change" /\ next # "answered"
    BY <1>6 DEF Past, RowWrites, CategoryWrites
  <2>3. QED
    BY <1>2, <1>4, <1>6, <2>1, <2>2, GotoStep
<1>7. CASE IsMember(r, IF row.creator = q.user THEN then ELSE "FindFamily")
  <2>1. q.at = "IsMember" /\ UNCHANGED tables /\ q.at \in Asking /\ q.at \in Running
    BY <1>7 DEF IsMember, Read, Asking, Running
  <2>2. CASE ~Member(q.family, q.user)
    BY <1>7, <2>1, <2>2, RefuseStep DEF IsMember, Goto
  <2>3. CASE Member(q.family, q.user) /\ row.creator = q.user
    <3>1. Goto(r, then)
      BY <1>7, <2>3 DEF IsMember
    <3>2. Entitled(q)
      BY <1>4, <2>1, <2>3 DEF Entitled
    <3>3. QED
      BY <1>5, <2>1, <3>1, <3>2
  <2>4. CASE Member(q.family, q.user) /\ row.creator # q.user
    <3>1. Goto(r, "FindFamily")
      BY <1>7, <2>4 DEF IsMember
    <3>2. owner[q.family] # None
      BY <1>1, <1>4, <2>1, <2>4 DEF Founded
    <3>3. owner[q.family] = q.user => Entitled(q)
      BY <1>4, <2>1, <2>4 DEF Entitled, Manager
    <3>4. owner[q.family] = q.user => r \in entitled
      BY <1>1, <1>2, <2>1, <3>3 DEF Noted
    <3>5. QED
      BY <1>6, <2>1, <3>1, <3>2, <3>4
  <2>5. QED
    BY <2>2, <2>3, <2>4
<1>8. CASE /\ q.at = "FindFamily"
           /\ Goto(r, IF owner[q.family] = q.user THEN then ELSE "ListMembers")
           /\ Read
  <2>1. owner[q.family] # None /\ (owner[q.family] = q.user => r \in entitled)
    BY <1>1, <1>8 DEF ReqInv, EntitledInv
  <2>2. q.at \in Asking /\ UNCHANGED tables
    BY <1>8 DEF Asking, Read
  <2>3. CASE owner[q.family] = q.user
    BY <1>5, <1>8, <2>1, <2>2, <2>3
  <2>4. CASE owner[q.family] # q.user
    BY <1>6, <1>8, <2>1, <2>2, <2>4
  <2>5. QED
    BY <2>3, <2>4
<1>9. CASE /\ q.at = "ListMembers"
           /\ Goto(r, IF role[q.family][q.user] \in {"admin", "owner"} THEN then ELSE "refused")
           /\ Read
  <2>1. q.at \in Asking /\ UNCHANGED tables
    BY <1>9 DEF Asking, Read
  <2>2. CASE role[q.family][q.user] \notin {"admin", "owner"}
    BY <1>9, <2>1, <2>2, RefuseStep DEF Goto
  <2>3. CASE role[q.family][q.user] \in {"admin", "owner"}
    <3>1. Entitled(q)
      BY <1>4, <2>1, <2>3 DEF Entitled, Member, Manager
    <3>2. QED
      BY <1>5, <1>9, <2>1, <2>3, <3>1
  <2>4. QED
    BY <2>2, <2>3
<1>10. QED
  BY <1>3, <1>7, <1>8, <1>9 DEF canModify

-----------------------------------------------------------------------------
(* The statements that write *)

\* A statement of a request, or of a change of Sync, did what it was for.
LEMMA WriteStep ==
    ASSUME IInv, NEW r \in Requests, req[r].at \in RowWrites \cup CategoryWrites,
           NEW then \in {"answered", "Change"}, then = "Change" => req[r].op \in Syncs,
           Goto(r, then), Witness,
           UNCHANGED <<owner, role, asked>>, RowsStep, ReferencesKept',
           transactions' \in [Transactions -> Transaction],
           categories' \in [Categories -> Category],
           req[r].op \in OnRow => transactions'[req[r].tx].state # "none",
           req[r].op = "Delete" =>
               /\ transactions[req[r].tx].state = "live"
               /\ transactions'[req[r].tx].state = "deleted"
    PROVE  IInv'
<1>1. /\ req[r] \in Request /\ ReqInv(r, req[r]) /\ asked' \in Nat
      /\ req \in [Requests -> Request]
  BY Facts DEF TypeOK
<1>2. PICK q \in Request : Become(r, q) /\ Gone(req[r], q, then)
  BY GoesOn DEF Running
<1>3. /\ q.at = then /\ q.op = req[r].op /\ q.family = req[r].family
      /\ then = "Change" => q.user = req[r].user
      /\ then = "answered" => q.tx = req[r].tx
  BY <1>2 DEF Gone
<1>4. /\ req[r].at \in Running /\ req[r].at \in Past /\ Active(req[r])
      /\ then \notin Asking \cup RowWrites \cup CategoryWrites
      /\ then \notin {"FindFamily", "ListMembers", "Create", "Update"}
      /\ "answered" \notin Running
  BY DEF RowWrites, CategoryWrites, Running, Past, Active, Asking
<1>5. then = "Change" => q.op \notin OnRow /\ q.op # "Create" /\ q.op \notin OnCategory
                         /\ q.op # "Delete"
  BY <1>3 DEF Syncs, OnRow, OnCategory
<1>6. Carries(q)'
  <2>1. Carries(q)
    <3>1. q.at \in Running => q.user \in Users
      BY <1>1, <1>3, <1>4 DEF ReqInv, Carries
    <3>2. q.op \in OnRow /\ Active(q) => q.tx \in Transactions
      BY <1>1, <1>3, <1>4, <1>5 DEF ReqInv, Carries
    <3>3. q.op = "SyncFamily" => q.family \in Families
      BY <1>1, <1>3 DEF ReqInv, Carries
    <3>4. QED
      BY <1>3, <1>4, <1>5, <3>1, <3>2, <3>3 DEF Carries
  <2>2. QED
    BY <2>1 DEF Carries, Active
<1>7. RowInv(q)'
  <2>1. q.op \in OnRow => q.tx = req[r].tx
    BY <1>3, <1>5
  <2>2. q.at \notin Asking
    BY <1>3, <1>4
  <2>3. "Delete" \in OnRow
    BY DEF OnRow
  <2>4. QED
    BY <1>3, <2>1, <2>2, <2>3 DEF RowInv
<1>8. EntitledInv(r, q)'
  <2>1. req'[r] = q
    BY <1>1, <1>2 DEF Become
  <2>2. Guarded(q) <=> Guarded(req[r])
    BY <1>3 DEF Guarded
  <2>3. Guarded(req[r]) => r \in entitled
    BY <1>1, <1>4 DEF ReqInv, EntitledInv
  <2>4. Guarded(q) => r \in entitled'
    BY <2>1, <2>2, <2>3 DEF Witness
  <2>5. QED
    BY <1>3, <1>4, <2>4 DEF EntitledInv, Guarded
<1>9. ReqInv(r, q)' /\ UNCHANGED <<owner, role>>
  BY <1>6, <1>7, <1>8 DEF ReqInv
<1>10. q.op = "Delete" /\ q.at = "answered" => transactions[q.tx].state = "live"
  BY <1>3
<1>11. QED
  BY <1>1, <1>2, <1>9, <1>10, StepInv

LEMMA InsertTransactionStep ==
    ASSUME IInv, NEW r \in Requests, NEW then \in {"answered", "Change"},
           InsertTransaction(r, then), req[r].op \in {"Create"} \cup Syncs,
           then = "Change" => req[r].op \in Syncs,
           req[r].at = "Create", Witness, UNCHANGED <<owner, role, asked>>
    PROVE  IInv' /\ RowsStep
<1> DEFINE q == req[r]
<1>1. TypeOK /\ q \in Request /\ ReqInv(r, q) /\ ReferencesKept
  BY Facts DEF IInv
<1>2. q.tx \in Transactions /\ q.category \in Categories
  BY <1>1 DEF ReqInv, Carries, Running, OnCategory, RowWrites
<1>3. CASE ~(transactions[q.tx].state = "none" /\ categories[q.category].state = "live")
  BY <1>3, RefuseStep DEF InsertTransaction, tables
<1>4. CASE transactions[q.tx].state = "none" /\ categories[q.category].state = "live"
  <2> DEFINE row == [state |-> "live", creator |-> q.user, family |-> q.family,
                     category |-> q.category]
  <2>1. /\ transactions' = [transactions EXCEPT ![q.tx] = row] /\ categories' = categories
        /\ Goto(r, then)
    BY <1>4 DEF InsertTransaction
  <2>2. row \in Transaction
    BY <1>1 DEF Transaction, Request
  <2>3. /\ transactions' \in [Transactions -> Transaction] /\ transactions'[q.tx] = row
        /\ \A t \in Transactions \ {q.tx} : transactions'[t] = transactions[t]
    BY <1>1, <1>2, <2>1, <2>2 DEF TypeOK
  <2>4. RowsStep
    BY <1>4, <2>3 DEF RowsStep
  <2>5. ReferencesKept'
    BY <1>1, <1>4, <2>1, <2>3 DEF ReferencesKept
  <2>6. q.op \notin OnRow /\ q.op # "Delete" /\ q.at \in RowWrites
    BY DEF OnRow, Syncs, RowWrites
  <2>7. categories' \in [Categories -> Category]
    BY <1>1, <2>1 DEF TypeOK
  <2>8. IInv'
    BY <2>1, <2>3, <2>4, <2>5, <2>6, <2>7, WriteStep
  <2>9. QED
    BY <2>4, <2>8
<1>5. QED
  BY <1>3, <1>4

\* UpdateTransaction and SoftDelete: a live row is replaced by one of the same
\* creator and family.
LEMMA ChangeRowStep ==
    ASSUME IInv, NEW r \in Requests, NEW row \in Transaction,
           NEW then \in {"answered", "Change"}, then = "Change" => req[r].op \in Syncs,
           req[r].at \in {"Update", "SoftDelete"}, req[r].tx \in Transactions,
           transactions[req[r].tx].state = "live",
           row.state # "none", row.creator = transactions[req[r].tx].creator,
           row.family = transactions[req[r].tx].family,
           categories[row.category].state = "live",
           req[r].op = "Delete" => row.state = "deleted",
           transactions' = [transactions EXCEPT ![req[r].tx] = row], UNCHANGED categories,
           Goto(r, then), Witness,
           UNCHANGED <<owner, role, asked>>
    PROVE  IInv' /\ RowsStep
<1> DEFINE q == req[r]
<1>1. TypeOK /\ q \in Request /\ ReqInv(r, q) /\ ReferencesKept
  BY Facts DEF IInv
<1>2. /\ transactions' \in [Transactions -> Transaction] /\ transactions'[q.tx] = row
      /\ \A t \in Transactions \ {q.tx} : transactions'[t] = transactions[t]
  BY <1>1 DEF TypeOK
<1>3. RowsStep
  BY <1>2 DEF RowsStep
<1>4. ReferencesKept'
  BY <1>1, <1>2 DEF ReferencesKept
<1>5. q.at \in RowWrites
  BY DEF RowWrites
<1>6. categories' \in [Categories -> Category]
  BY <1>1 DEF TypeOK
<1>7. IInv'
  BY <1>2, <1>3, <1>4, <1>5, <1>6, WriteStep
<1>8. QED
  BY <1>3, <1>7

LEMMA UpdateTransactionStep ==
    ASSUME IInv, NEW r \in Requests, NEW then \in {"answered", "Change"},
           UpdateTransaction(r, then), req[r].op \in {"Update"} \cup Syncs,
           then = "Change" => req[r].op \in Syncs,
           req[r].at = "Update", Witness, UNCHANGED <<owner, role, asked>>
    PROVE  IInv' /\ RowsStep
<1> DEFINE q == req[r] old == transactions[q.tx]
<1>1. TypeOK /\ q \in Request /\ ReqInv(r, q)
  BY Facts
<1>2. q.tx \in Transactions /\ q.category \in Categories /\ q.op # "Delete"
  BY <1>1 DEF ReqInv, Carries, Active, Running, OnRow, OnCategory, RowWrites, Syncs
<1>3. CASE ~(old.state = "live" /\ categories[q.category].state = "live")
  BY <1>3, RefuseStep DEF UpdateTransaction, tables
<1>4. CASE old.state = "live" /\ categories[q.category].state = "live"
  <2>1. /\ transactions' = [transactions EXCEPT ![q.tx].category = q.category]
        /\ UNCHANGED categories /\ Goto(r, then)
    BY <1>4 DEF UpdateTransaction
  <2>2. old \in Transaction
    BY <1>1, <1>2 DEF TypeOK
  <2>3. [old EXCEPT !.category = q.category] \in Transaction
    BY <1>2, <2>2 DEF Transaction
  <2>4. PICK row \in Transaction : row = [old EXCEPT !.category = q.category]
    BY <2>3
  <2>5. /\ row.state = "live" /\ row.creator = old.creator /\ row.family = old.family
        /\ row.category = q.category
    BY <1>4, <2>2, <2>4 DEF Transaction
  <2>6. transactions' = [transactions EXCEPT ![q.tx] = row]
    BY <2>1, <2>4
  <2>7. QED
    BY <1>2, <1>4, <2>1, <2>5, <2>6, ChangeRowStep
<1>5. QED
  BY <1>3, <1>4

LEMMA SoftDeleteStep ==
    ASSUME IInv, NEW r \in Requests, NEW then \in {"answered", "Change"},
           SoftDelete(r, then), req[r].op \in {"Delete"} \cup Syncs,
           then = "Change" => req[r].op \in Syncs,
           req[r].at = "SoftDelete", Witness, UNCHANGED <<owner, role, asked>>
    PROVE  IInv' /\ RowsStep
<1> DEFINE q == req[r] old == transactions[q.tx]
<1>1. TypeOK /\ q \in Request /\ ReqInv(r, q)
  BY Facts
<1>2. q.tx \in Transactions
  BY <1>1 DEF ReqInv, Carries, Active, OnRow, RowWrites
<1>3. CASE old.state # "live"
  BY <1>3, RefuseStep DEF SoftDelete, tables
<1>4. CASE old.state = "live"
  <2>1. /\ transactions' = [transactions EXCEPT ![q.tx].state = "deleted"]
        /\ UNCHANGED categories /\ Goto(r, then)
    BY <1>4 DEF SoftDelete
  <2>2. old \in Transaction /\ categories[old.category].state = "live"
    BY <1>1, <1>2, <1>4 DEF TypeOK, IInv, ReferencesKept
  <2>3. [old EXCEPT !.state = "deleted"] \in Transaction
    BY <2>2 DEF Transaction
  <2>4. PICK row \in Transaction : row = [old EXCEPT !.state = "deleted"]
    BY <2>3
  <2>5. /\ row.state = "deleted" /\ row.creator = old.creator /\ row.family = old.family
        /\ row.category = old.category
    BY <2>2, <2>4 DEF Transaction
  <2>6. transactions' = [transactions EXCEPT ![q.tx] = row]
    BY <2>1, <2>4
  <2>7. QED
    BY <1>2, <1>4, <2>1, <2>2, <2>5, <2>6, ChangeRowStep
<1>5. QED
  BY <1>3, <1>4

\* A category is replaced, and stays if rows refer to it.
LEMMA ChangeCategoryStep ==
    ASSUME IInv, NEW r \in Requests, NEW row \in Category,
           NEW then \in {"answered", "Change"}, then = "Change" => req[r].op \in Syncs,
           req[r].at \in CategoryWrites, req[r].op \notin OnRow,
           req[r].category \in Categories,
           row.state = "live" \/ ~Referenced(req[r].category),
           categories' = [categories EXCEPT ![req[r].category] = row], UNCHANGED transactions,
           Goto(r, then), Witness, UNCHANGED <<owner, role, asked>>
    PROVE  IInv' /\ RowsStep
<1> DEFINE q == req[r]
<1>1. TypeOK /\ q \in Request /\ ReqInv(r, q) /\ ReferencesKept
  BY Facts DEF IInv
<1>2. /\ categories' \in [Categories -> Category] /\ categories'[q.category] = row
      /\ \A c \in Categories \ {q.category} : categories'[c] = categories[c]
  BY <1>1 DEF TypeOK
<1>3. RowsStep
  BY DEF RowsStep
<1>4. ReferencesKept'
  <2>1. ASSUME NEW t \in Transactions, transactions[t].state # "none"
        PROVE  categories'[transactions[t].category].state = "live"
    <3>1. categories[transactions[t].category].state = "live"
      BY <1>1, <2>1 DEF ReferencesKept
    <3>2. CASE transactions[t].category = q.category
      BY <1>2, <3>2 DEF Referenced
    <3>3. CASE transactions[t].category # q.category
      BY <1>1, <3>1, <3>3 DEF TypeOK
    <3>4. QED
      BY <3>2, <3>3
  <2>2. QED
    BY <2>1 DEF ReferencesKept
<1>5. q.op # "Delete"
  BY DEF OnRow
<1>6. transactions' \in [Transactions -> Transaction]
  BY <1>1 DEF TypeOK
<1>7. IInv'
  BY <1>2, <1>3, <1>4, <1>5, <1>6, WriteStep
<1>8. QED
  BY <1>3, <1>7

LEMMA InsertCategoryStep ==
    ASSUME IInv, NEW r \in Requests, NEW scope \in Scopes, NEW then \in {"answered", "Change"},
           InsertCategory(r, scope, then),
           req[r].op \in {"CreatePersonal", "CreateFamily"} \cup Syncs,
           then = "Change" => req[r].op \in Syncs,
           req[r].at = "CreateCategory", Witness, UNCHANGED <<owner, role, asked>>
    PROVE  IInv' /\ RowsStep
<1>1. req[r].category \in Categories /\ req[r].op \notin OnRow /\ req[r].at \in CategoryWrites
  BY Facts DEF ReqInv, Carries, Running, OnRow, OnCategory, CategoryWrites, Syncs
<1>2. CASE categories[req[r].category].state = "live"
  BY <1>2, RefuseStep DEF InsertCategory, tables
<1>3. CASE categories[req[r].category].state # "live"
  <2>1. PICK row \in Category : row = [state |-> "live", scope |-> scope]
    BY DEF Category
  <2>2. /\ categories' = [categories EXCEPT ![req[r].category] = row]
        /\ UNCHANGED transactions /\ Goto(r, then)
    BY <1>3, <2>1 DEF InsertCategory
  <2>3. row.state = "live"
    BY <2>1
  <2>4. QED
    BY <1>1, <2>2, <2>3, ChangeCategoryStep
<1>4. QED
  BY <1>2, <1>3

LEMMA RenameCategoryStep ==
    ASSUME IInv, NEW r \in Requests, NEW then \in {"answered", "Change"},
           RenameCategory(r, then), req[r].op \in {"UpdateCategory"} \cup Syncs,
           then = "Change" => req[r].op \in Syncs,
           req[r].at = "UpdateCategory", Witness, UNCHANGED <<owner, role, asked>>
    PROVE  IInv' /\ RowsStep
<1> DEFINE c == req[r].category
<1>1. CASE categories[c].state # "live"
  BY <1>1, RefuseStep DEF RenameCategory, Goto
<1>2. CASE categories[c].state = "live"
  <2>1. Goto(r, then) /\ UNCHANGED tables
    BY <1>2 DEF RenameCategory
  <2>2. /\ req[r].at \in Running /\ req[r].at \in Past
        /\ then \notin Asking \cup RowWrites \cup CategoryWrites
        /\ then \in Running \cup {"answered"}
    BY DEF Running, Past, CategoryWrites, RowWrites, Asking
  <2>3. Guarded(req[r]) => r \in entitled
    BY <2>2, Facts DEF ReqInv, EntitledInv
  <2>4. req[r].op # "Delete"
    BY DEF Syncs
  <2>5. QED
    BY <2>1, <2>2, <2>3, <2>4, GotoStep
<1>3. QED
  BY <1>1, <1>2

LEMMA RemoveCategoryStep ==
    ASSUME IInv, NEW r \in Requests, NEW then \in {"answered", "Change"},
           RemoveCategory(r, then), req[r].op \in {"DeleteCategory"} \cup Syncs,
           then = "Change" => req[r].op \in Syncs,
           req[r].at = "DeleteCategory", Witness, UNCHANGED <<owner, role, asked>>
    PROVE  IInv' /\ RowsStep
<1> DEFINE c == req[r].category
<1>1. /\ c \in Categories /\ req[r].op \notin OnRow /\ req[r].at \in CategoryWrites
      /\ TypeOK
  BY Facts DEF ReqInv, Carries, Running, OnRow, OnCategory, CategoryWrites, Syncs
<1>2. CASE ~(categories[c].state = "live" /\ ~Referenced(c))
  BY <1>2, RefuseStep DEF RemoveCategory, tables
<1>3. CASE categories[c].state = "live" /\ ~Referenced(c)
  <2>1. categories[c] \in Category
    BY <1>1 DEF TypeOK
  <2>2. PICK row \in Category : row = [categories[c] EXCEPT !.state = "gone"]
    BY <2>1 DEF Category
  <2>3. /\ categories' = [categories EXCEPT ![c] = row]
        /\ UNCHANGED transactions /\ Goto(r, then)
    BY <1>3, <2>2 DEF RemoveCategory
  <2>4. QED
    BY <1>1, <1>3, <2>3, ChangeCategoryStep
<1>4. QED
  BY <1>2, <1>3

-----------------------------------------------------------------------------
(* The operations *)

LEMMA CreateStep ==
    ASSUME IInv, NEW r \in Requests, Create(r), Witness, UNCHANGED <<owner, role, asked>>
    PROVE  IInv' /\ RowsStep
<1> DEFINE q == req[r]
<1>1. q.op = "Create" /\ q \in Request /\ q.op \notin OnRow \cup Syncs
  BY Facts DEF Create, OnRow, Syncs
<1>2. CASE /\ q.at = "FindCategory" /\ Read
           /\ Goto(r, IF q.family = None THEN "Create" ELSE "IsMember")
  <2>1. PICK at : at = IF q.family = None THEN "Create" ELSE "IsMember"
    OBVIOUS
  <2>2. Goto(r, at) /\ UNCHANGED tables /\ q.at \in Running
    BY <1>2, <2>1 DEF Read, Running
  <2>3. at \in Asking => q.family \in Families
    BY <1>1, <2>1 DEF Request, Asking
  <2>4. Guarded(q) /\ at \in Past => r \in entitled
    BY <1>1, <2>1 DEF Guarded, Past, RowWrites, CategoryWrites
  <2>5. /\ at \in Running /\ at \notin {"Change", "FindFamily", "ListMembers"}
        /\ q.op # "Delete"
    BY <1>1, <2>1 DEF Running
  <2>6. QED
    BY <1>1, <2>2, <2>3, <2>4, <2>5, GotoStep
<1>3. CASE q.at = "FindCategory" /\ Refuse(r) /\ Read
  BY <1>3, RefuseStep DEF Read
<1>4. CASE IsMember(r, "Create")
  BY <1>1, <1>4, IsMemberStep
<1>5. CASE q.at = "Create" /\ InsertTransaction(r, "answered")
  BY <1>1, <1>5, InsertTransactionStep
<1>6. QED
  BY <1>2, <1>3, <1>4, <1>5 DEF Create

LEMMA RowStep ==
    ASSUME IInv, NEW r \in Requests, Get(r) \/ Update(r) \/ Delete(r), Witness,
           UNCHANGED <<owner, role, asked>>
    PROVE  IInv' /\ RowsStep
<1>1. CASE Get(r)
  <2>1. req[r].op = "Get" /\ req[r].op \in OnRow
    BY <1>1 DEF Get, OnRow
  <2>2. QED
    BY <1>1, <2>1, FindTransactionStep, GetMemberStep DEF Get
<1>2. CASE Update(r)
  BY <1>2, CanModifyStep, UpdateTransactionStep DEF Update
<1>3. CASE Delete(r)
  BY <1>3, CanModifyStep, SoftDeleteStep DEF Delete
<1>4. QED
  BY <1>1, <1>2, <1>3

LEMMA ReadStep ==
    ASSUME IInv, NEW r \in Requests, List(r) \/ ListCategories(r), Witness,
           UNCHANGED <<owner, role, asked>>
    PROVE  IInv' /\ RowsStep
<1>1. req[r].op \notin OnRow \cup Syncs /\ req[r].op # "Delete"
  BY DEF List, ListCategories, OnRow, Syncs
<1>2. QED
  BY <1>1, IsMemberStep, FetchStep DEF List, ListCategories

\* Sync on its way to the first change, or past the last.
LEMMA PassStep ==
    ASSUME IInv, NEW r \in Requests, NEW at \in {"IsMember", "Change", "Fetch"}, Goto(r, at),
           req[r].op \in Syncs, req[r].at \in {"FindUser", "Change"}, Witness,
           UNCHANGED <<owner, role, tables, asked>>,
           at = "IsMember" => req[r].family \in Families,
           req[r].at = "FindUser" /\ Guarded(req[r]) => at = "IsMember"
    PROVE  IInv' /\ RowsStep
<1>1. at \in Running /\ req[r].at \in Running /\ at \notin RowWrites \cup CategoryWrites
  BY DEF Running, RowWrites, CategoryWrites
<1>2. req[r].op \notin OnRow /\ req[r].op # "Delete"
  BY DEF Syncs, OnRow
<1>3. at \in Asking => at = "IsMember"
  BY DEF Asking
<1>4. Guarded(req[r]) /\ at \in Past => r \in entitled
  BY Facts DEF ReqInv, EntitledInv, Past, RowWrites, CategoryWrites
<1>5. at \notin {"FindFamily", "ListMembers"}
  OBVIOUS
<1>6. QED
  BY <1>1, <1>2, <1>3, <1>4, <1>5, GotoStep

LEMMA SyncStep ==
    ASSUME IInv, NEW r \in Requests, Sync(r), Witness, UNCHANGED <<owner, role, asked>>
    PROVE  IInv' /\ RowsStep
<1> DEFINE q == req[r]
<1>1. q.op \in Syncs /\ q \in Request /\ q.op \notin OnRow /\ q.op # "Delete"
  BY Facts DEF Sync, OnRow, Syncs
<1>2. CASE validateScope(r, "Change")
  <2>1. CASE IsMember(r, "Change")
    BY <1>1, <2>1, IsMemberStep
  <2>2. CASE /\ q.at = "FindUser" /\ Read
             /\ Goto(r, IF q.op = "SyncFamily" THEN "IsMember" ELSE "Change")
    <3>1. CASE q.op = "SyncFamily"
      <4>1. q.family \in Families
        BY <2>2, <3>1, Facts DEF ReqInv, Carries
      <4>2. QED
        BY <1>1, <2>2, <3>1, <4>1, PassStep DEF Read
    <3>2. CASE q.op = "SyncPersonal"
      <4>1. ~Guarded(q)
        BY <3>2 DEF Guarded
      <4>2. QED
        BY <1>1, <2>2, <3>2, <4>1, PassStep DEF Read
    <3>3. QED
      BY <1>1, <3>1, <3>2 DEF Syncs
  <2>3. QED
    BY <1>2, <2>1, <2>2 DEF validateScope
<1>3. CASE q.at = "Change" /\ Goto(r, "Fetch") /\ Read
  BY <1>1, <1>3, PassStep DEF Read
<1>4. CASE q.at = "Create" /\ InsertTransaction(r, "Change")
  BY <1>1, <1>4, InsertTransactionStep
<1>5. CASE q.at = "Update" /\ UpdateTransaction(r, "Change")
  BY <1>1, <1>5, UpdateTransactionStep
<1>6. CASE q.at = "SoftDelete" /\ SoftDelete(r, "Change")
  BY <1>1, <1>6, SoftDeleteStep
<1>7. CASE q.at = "CreateCategory" /\ \E scope \in Scopes : InsertCategory(r, scope, "Change")
  BY <1>1, <1>7, InsertCategoryStep
<1>8. CASE q.at = "UpdateCategory" /\ RenameCategory(r, "Change")
  BY <1>1, <1>8, RenameCategoryStep
<1>9. CASE q.at = "DeleteCategory" /\ RemoveCategory(r, "Change")
  BY <1>1, <1>9, RemoveCategoryStep
<1>10. CASE Fetch(r)
  BY <1>1, <1>10, FetchStep
<1>11. QED
  BY <1>2, <1>3, <1>4, <1>5, <1>6, <1>7, <1>8, <1>9, <1>10 DEF Sync

\* Sync has found what its next change is about.
LEMMA TakeStep ==
    ASSUME IInv, NEW r \in Requests, req[r].op \in Syncs, req[r].at = "Change",
           NEW at \in RowWrites \cup CategoryWrites,
           NEW t \in Transactions \cup {None}, NEW c \in Categories \cup {None},
           at \in RowWrites => t \in Transactions,
           at \in CategoryWrites \cup {"Create", "Update"} => c \in Categories,
           Write(r, at, t, c), Witness, UNCHANGED <<owner, role, tables>>, asked' = asked + 1
    PROVE  IInv' /\ RowsStep
<1> DEFINE p == req[r] q == [p EXCEPT !.at = at, !.tx = t, !.category = c]
<1>1. p \in Request /\ ReqInv(r, p) /\ asked' \in Nat
  BY Facts
<1>2. at \in Running /\ p.at \in Running /\ p.at \in Past
  BY DEF Running, RowWrites, CategoryWrites, Past
<1>3. Become(r, q)
  BY DEF Write
<1>4. q \in Request
  BY ZenonT(60), <1>1, <1>2 DEF Request
<1>5. /\ q.at = at /\ q.op = p.op /\ q.user = p.user /\ q.family = p.family
      /\ q.tx = t /\ q.category = c
  BY <1>1 DEF Request
<1> HIDE DEF q
<1>6. /\ q.op \notin OnRow /\ q.op # "Create" /\ q.op \notin OnCategory /\ q.op # "Delete"
      /\ q.at \notin Asking /\ q.at \notin {"FindFamily", "ListMembers"}
  BY <1>5 DEF Syncs, OnRow, OnCategory, Asking, RowWrites, CategoryWrites
<1>7. Carries(q)
  BY <1>1, <1>2, <1>5, <1>6 DEF ReqInv, Carries
<1>8. RowInv(q)
  BY <1>6 DEF RowInv
<1>9. EntitledInv(r, q)
  BY <1>1, <1>2, <1>5, <1>6 DEF ReqInv, EntitledInv, Guarded
<1>10. QED
  BY <1>1, <1>3, <1>4, <1>6, <1>7, <1>8, <1>9, QuietStep

LEMMA ChangeStep ==
    ASSUME IInv, NEW r \in Requests, Change(r), Witness, UNCHANGED <<owner, role>>
    PROVE  IInv' /\ RowsStep
<1>1. /\ req[r].op \in Syncs /\ req[r].at = "Change" /\ asked' = asked + 1
      /\ UNCHANGED <<owner, role, tables>>
  BY DEF Change, Read
<1>2. ClientTransactions \subseteq Transactions /\ ClientCategories \subseteq Categories
  BY DEF ClientTransactions, ClientCategories, KnownTransactions, KnownCategories
<1>3. /\ {"Create", "Update", "SoftDelete"} = RowWrites
      /\ {"CreateCategory", "UpdateCategory", "DeleteCategory"} = CategoryWrites
  BY DEF RowWrites, CategoryWrites
<1>4. CASE Refuse(r)
  BY <1>1, <1>4, RefuseStep
<1>5. CASE applyTransactionUpsert(r)
  <2>1. PICK t \in Transactions, c \in Categories :
            Write(r, "Update", t, c) \/ Write(r, "Create", t, c) \/ Refuse(r)
    BY <1>2, <1>5 DEF applyTransactionUpsert
  <2>2. QED
    BY <1>1, <1>3, <1>4, <2>1, TakeStep
<1>6. CASE applyCategoryUpsert(r)
  <2>1. PICK c \in Categories : \/ Write(r, "UpdateCategory", None, c)
                                \/ Write(r, "CreateCategory", None, c) \/ Refuse(r)
    BY <1>2, <1>6 DEF applyCategoryUpsert
  <2>2. "UpdateCategory" \notin RowWrites /\ "CreateCategory" \notin RowWrites
    BY DEF RowWrites
  <2>3. QED
    BY <1>1, <1>3, <1>4, <2>1, <2>2, TakeStep
<1>7. CASE applyDelete(r)
  <2>1. CASE \E t \in Transactions : Write(r, "SoftDelete", t, None)
    <3>1. "SoftDelete" \notin CategoryWrites \cup {"Create", "Update"}
      BY DEF CategoryWrites
    <3>2. QED
      BY <1>1, <1>3, <2>1, <3>1, TakeStep
  <2>2. CASE \E c \in Categories : Write(r, "DeleteCategory", None, c)
    <3>1. "DeleteCategory" \notin RowWrites
      BY DEF RowWrites
    <3>2. QED
      BY <1>1, <1>3, <2>2, <3>1, TakeStep
  <2>3. QED
    BY <1>7, <2>1, <2>2 DEF applyDelete
<1>8. QED
  BY <1>5, <1>6, <1>7 DEF Change

\* GetCategory, UpdateCategory and DeleteCategory begin.
LEMMA FindCategoryStep ==
    ASSUME IInv, NEW r \in Requests, NEW then \in {"answered", "UpdateCategory", "DeleteCategory"},
           FindCategory(r, then), Witness, UNCHANGED <<owner, role, asked>>,
           req[r].op \in {"GetCategory", "UpdateCategory", "DeleteCategory"}
    PROVE  IInv' /\ RowsStep
<1> DEFINE q == req[r] row == categories[q.category]
<1>1. q.at = "FindCategory" /\ UNCHANGED tables /\ q.at \in Running
  BY DEF FindCategory, Read, Running
<1>2. CASE ~(row.state = "live" /\ (then = "answered" \/ row.scope # "system"))
  BY <1>1, <1>2, RefuseStep DEF FindCategory, Goto
<1>3. CASE row.state = "live" /\ (then = "answered" \/ row.scope # "system")
  <2>1. Goto(r, then)
    BY <1>3 DEF FindCategory
  <2>2. then \in Running \cup {"answered"} /\ then \notin Asking
    BY DEF Running, Asking
  <2>3. ~Guarded(q) /\ q.op \notin Syncs /\ q.op # "Delete"
    BY DEF Guarded, Syncs
  <2>4. QED
    BY <1>1, <2>1, <2>2, <2>3, GotoStep
<1>4. QED
  BY <1>2, <1>3

LEMMA CategoryStep ==
    ASSUME IInv, NEW r \in Requests, Witness, UNCHANGED <<owner, role, asked>>,
           \/ CreatePersonal(r) \/ CreateFamily(r) \/ GetCategory(r)
           \/ UpdateCategory(r) \/ DeleteCategory(r)
    PROVE  IInv' /\ RowsStep
<1>1. CASE CreatePersonal(r)
  BY <1>1, InsertCategoryStep DEF CreatePersonal, At, Scopes
<1>2. CASE CreateFamily(r)
  <2>1. req[r].op = "CreateFamily" /\ req[r].op \notin OnRow \cup Syncs
    BY <1>2 DEF CreateFamily, OnRow, Syncs
  <2>2. QED
    BY <1>2, <2>1, IsMemberStep, InsertCategoryStep DEF CreateFamily, Scopes
<1>3. CASE GetCategory(r)
  BY <1>3, FindCategoryStep DEF GetCategory
<1>4. CASE UpdateCategory(r)
  BY <1>4, FindCategoryStep, RenameCategoryStep DEF UpdateCategory
<1>5. CASE DeleteCategory(r)
  BY <1>5, FindCategoryStep, RemoveCategoryStep DEF DeleteCategory
<1>6. QED
  BY <1>1, <1>2, <1>3, <1>4, <1>5

-----------------------------------------------------------------------------
(* Requests come and go *)

\* A request comes in with what its operation carries.
LEMMA IncomingStep ==
    ASSUME IInv, NEW r \in Requests, NEW q \in Request, Become(r, q), Witness,
           UNCHANGED <<owner, role, tables>>, asked' \in Nat, q.user \in Users,
           q.at \in {"FindTransaction", "FindCategory", "FindUser", "IsMember",
                     "CreateCategory", "Fetch"},
           q.at = "IsMember" \/ q.op = "SyncFamily" => q.family \in Families,
           q.op \in OnRow => q.at = "FindTransaction" /\ q.tx \in KnownTransactions,
           q.op = "Create" => q.at = "FindCategory" /\ q.tx \in FreshTransactions,
           q.op \in OnCategory => q.category \in Categories,
           q.op \in Syncs => q.at = "FindUser",
           Guarded(q) => q.at \notin {"CreateCategory", "Fetch"}
    PROVE  IInv' /\ RowsStep
<1>1. /\ q.at \notin {"FindFamily", "ListMembers", "answered", "Change"} \cup RowWrites
      /\ q.at \in Asking => q.at = "IsMember"
      /\ q.at \in Past => q.at \in {"CreateCategory", "Fetch"}
      /\ {"Create", "Update"} \subseteq RowWrites
      /\ "FindUser" \notin CategoryWrites
  BY DEF Asking, Past, RowWrites, CategoryWrites
<1>2. Carries(q)
  BY <1>1 DEF Carries, KnownTransactions, FreshTransactions
<1>3. RowInv(q)
  BY <1>1 DEF RowInv, OnRow, KnownTransactions
<1>4. EntitledInv(r, q)
  BY <1>1 DEF EntitledInv
<1>5. QED
  BY <1>1, <1>2, <1>3, <1>4, QuietStep

LEMMA ReceiveStep ==
    ASSUME IInv, NEW r \in Requests, NEW u \in Users, Receive(r, u), Witness,
           UNCHANGED <<owner, role>>
    PROVE  IInv' /\ RowsStep
<1>1. asked' \in Nat /\ UNCHANGED <<owner, role, tables>>
  BY Facts DEF Receive
<1>2. /\ Idle \in Request /\ Idle.family = None
      /\ \A f \in Families \cup {None} : Kind(f, "Fetch") \in Running
  BY DEF Idle, Request, Kind, Running
<1>3. CASE CreateTransaction(r, u)
  <2>1. PICK t \in FreshTransactions, c \in KnownCategories, f \in Families \cup {None} :
            Become(r, [Idle EXCEPT !.at = "FindCategory", !.op = "Create", !.user = u,
                  !.family = f, !.category = c, !.tx = t])
    BY <1>3 DEF CreateTransaction
  <2>2. [Idle EXCEPT !.at = "FindCategory", !.op = "Create", !.user = u,
                     !.family = f, !.category = c, !.tx = t] \in Request
    BY ZenonT(60), <1>2 DEF Request, Running, Operations, FreshTransactions, KnownCategories
  <2>3. PICK q \in Request : q = [Idle EXCEPT !.at = "FindCategory", !.op = "Create",
                    !.user = u, !.family = f, !.category = c, !.tx = t]
    BY <2>2
  <2>4. q.at = "FindCategory" /\ q.op = "Create" /\ q.user = u /\ q.category = c /\ q.tx = t
        /\ Become(r, q)
    BY <1>2, <2>1, <2>3 DEF Request
  <2>5. QED
    BY <1>1, <2>4, IncomingStep DEF OnRow, OnCategory, Guarded, Syncs, KnownCategories
<1>4. CASE GetTransaction(r, u)
  <2>1. PICK t \in KnownTransactions :
            Become(r, [Idle EXCEPT !.at = "FindTransaction", !.op = "Get", !.user = u, !.tx = t])
    BY <1>4 DEF GetTransaction
  <2>2. [Idle EXCEPT !.at = "FindTransaction", !.op = "Get", !.user = u, !.tx = t] \in Request
    BY ZenonT(60), <1>2 DEF Request, Running, Operations, KnownTransactions
  <2>3. PICK q \in Request : q = [Idle EXCEPT !.at = "FindTransaction", !.op = "Get",
                    !.user = u, !.tx = t]
    BY <2>2
  <2>4. q.at = "FindTransaction" /\ q.op = "Get" /\ q.user = u /\ q.tx = t /\ Become(r, q)
    BY <1>2, <2>1, <2>3 DEF Request
  <2>5. QED
    BY <1>1, <2>4, IncomingStep DEF OnRow, OnCategory, Guarded, Syncs
<1>5. CASE UpdateTransactionOf(r, u)
  <2>1. PICK t \in KnownTransactions, c \in KnownCategories :
            Become(r, [Idle EXCEPT !.at = "FindTransaction", !.op = "Update", !.user = u,
                  !.category = c, !.tx = t])
    BY <1>5 DEF UpdateTransactionOf
  <2>2. [Idle EXCEPT !.at = "FindTransaction", !.op = "Update", !.user = u,
                     !.category = c, !.tx = t] \in Request
    BY ZenonT(60), <1>2 DEF Request, Running, Operations, KnownTransactions, KnownCategories
  <2>3. PICK q \in Request : q = [Idle EXCEPT !.at = "FindTransaction",
                    !.op = "Update", !.user = u, !.category = c, !.tx = t]
    BY <2>2
  <2>4. q.at = "FindTransaction" /\ q.op = "Update" /\ q.user = u /\ q.category = c /\ q.tx = t
        /\ Become(r, q)
    BY <1>2, <2>1, <2>3 DEF Request
  <2>5. QED
    BY <1>1, <2>4, IncomingStep DEF OnRow, OnCategory, Guarded, Syncs, KnownCategories
<1>6. CASE DeleteTransaction(r, u)
  <2>1. PICK t \in KnownTransactions :
            Become(r, [Idle EXCEPT !.at = "FindTransaction", !.op = "Delete", !.user = u,
                  !.tx = t])
    BY <1>6 DEF DeleteTransaction
  <2>2. [Idle EXCEPT !.at = "FindTransaction", !.op = "Delete", !.user = u, !.tx = t] \in Request
    BY ZenonT(60), <1>2 DEF Request, Running, Operations, KnownTransactions
  <2>3. PICK q \in Request : q = [Idle EXCEPT !.at = "FindTransaction",
                    !.op = "Delete", !.user = u, !.tx = t]
    BY <2>2
  <2>4. q.at = "FindTransaction" /\ q.op = "Delete" /\ q.user = u /\ q.tx = t /\ Become(r, q)
    BY <1>2, <2>1, <2>3 DEF Request
  <2>5. QED
    BY <1>1, <2>4, IncomingStep DEF OnRow, OnCategory, Guarded, Syncs
<1>7. CASE ListTransactions(r, u) \/ Dashboard(r, u)
  <2>1. PICK f \in Families \cup {None} :
            Become(r, [Idle EXCEPT !.at = Kind(f, "Fetch"), !.op = "List", !.user = u,
                  !.family = f])
    BY <1>7 DEF ListTransactions, Dashboard
  <2>2. [Idle EXCEPT !.at = Kind(f, "Fetch"), !.op = "List", !.user = u,
                     !.family = f] \in Request
    BY <1>2 DEF Request, Operations
  <2>3. PICK q \in Request : q = [Idle EXCEPT !.at = Kind(f, "Fetch"), !.op = "List",
                    !.user = u, !.family = f]
    BY <2>2
  <2>4. q.at = Kind(f, "Fetch") /\ q.op = "List" /\ q.user = u /\ q.family = f /\ Become(r, q)
    BY <1>2, <2>1, <2>3 DEF Request
  <2>5. QED
    BY <1>1, <2>4, IncomingStep DEF OnRow, OnCategory, Guarded, Syncs, Kind
<1>9. CASE CreateCategory(r, u)
  <2>1. PICK c \in FreshCategories, f \in Families \cup {None} :
            Become(r, [Idle EXCEPT !.at = Kind(f, "CreateCategory"),
                           !.op = IF f = None THEN "CreatePersonal" ELSE "CreateFamily",
                           !.user = u, !.family = f, !.category = c])
    BY <1>9 DEF CreateCategory
  <2>2. c \in Categories
    BY DEF FreshCategories
  <2>3. PICK at, op : /\ at = Kind(f, "CreateCategory")
                      /\ op = IF f = None THEN "CreatePersonal" ELSE "CreateFamily"
    OBVIOUS
  <2>4. at \in Running /\ op \in Operations
    BY <2>3 DEF Running, Operations, Kind
  <2>5. [Idle EXCEPT !.at = at, !.op = op, !.user = u, !.family = f, !.category = c] \in Request
    BY <1>2, <2>2, <2>4 DEF Request
  <2>6. PICK q \in Request : q = [Idle EXCEPT !.at = at, !.op = op, !.user = u, !.family = f,
                                              !.category = c]
    BY <2>5
  <2>7. /\ q.at = at /\ q.op = op /\ q.user = u /\ q.family = f /\ q.category = c
        /\ Become(r, q)
    BY <1>2, <2>1, <2>3, <2>6 DEF Request
  <2>8. /\ q.at \in {"CreateCategory", "IsMember"}
        /\ q.at = "CreateCategory" <=> f = None
        /\ q.op = "CreatePersonal" <=> f = None
        /\ q.op \in {"CreatePersonal", "CreateFamily"}
    BY <2>3, <2>7 DEF Kind
  <2>9. /\ q.op \notin OnRow \cup {"Create", "SyncFamily"} \cup Syncs
        /\ Guarded(q) => f # None
    BY <2>8 DEF OnRow, Syncs, Guarded
  <2>10. QED
    BY <1>1, <2>2, <2>7, <2>8, <2>9, IncomingStep
<1>10. CASE OtherCategoryRequest(r, u)
  <2>1. PICK op \in {"GetCategory", "UpdateCategory", "DeleteCategory"}, c \in KnownCategories :
            Become(r, [Idle EXCEPT !.at = "FindCategory", !.op = op, !.user = u, !.category = c])
    BY <1>10 DEF OtherCategoryRequest
  <2>2. [Idle EXCEPT !.at = "FindCategory", !.op = op, !.user = u, !.category = c] \in Request
    BY ZenonT(60), <1>2 DEF Request, Running, Operations, KnownCategories
  <2>3. PICK q \in Request : q = [Idle EXCEPT !.at = "FindCategory", !.op = op,
                    !.user = u, !.category = c]
    BY <2>2
  <2>4. q.at = "FindCategory" /\ q.op = op /\ q.user = u /\ q.family = None /\ q.category = c
        /\ Become(r, q)
    BY <1>2, <2>1, <2>3 DEF Request
  <2>5. QED
    BY <1>1, <2>4, IncomingStep DEF OnRow, OnCategory, Guarded, Syncs, KnownCategories
<1>11. CASE ListCategoriesRequest(r, u)
  <2>1. Become(r, [Idle EXCEPT !.at = "Fetch", !.op = "ListCategories", !.user = u])
    BY <1>11 DEF ListCategoriesRequest
  <2>2. [Idle EXCEPT !.at = "Fetch", !.op = "ListCategories", !.user = u] \in Request
    BY ZenonT(60), <1>2 DEF Request, Running, Operations
  <2>3. PICK q \in Request : q = [Idle EXCEPT !.at = "Fetch",
                    !.op = "ListCategories", !.user = u]
    BY <2>2
  <2>4. q.at = "Fetch" /\ q.op = "ListCategories" /\ q.user = u /\ q.family = None
        /\ Become(r, q)
    BY <1>2, <2>1, <2>3 DEF Request
  <2>5. QED
    BY <1>1, <2>4, IncomingStep DEF OnRow, OnCategory, Guarded, Syncs
<1>12. CASE SyncRequest(r, u)
  <2>1. PICK op \in Syncs, f \in Families \cup {None} :
            /\ op = "SyncFamily" => f # None
            /\ Become(r, [Idle EXCEPT !.at = "FindUser", !.op = op, !.user = u, !.family = f])
    BY <1>12 DEF SyncRequest
  <2>2. [Idle EXCEPT !.at = "FindUser", !.op = op, !.user = u, !.family = f] \in Request
    BY ZenonT(60), <1>2 DEF Request, Running, Operations, Syncs
  <2>3. PICK q \in Request : q = [Idle EXCEPT !.at = "FindUser", !.op = op,
                    !.user = u, !.family = f]
    BY <2>2
  <2>4. q.at = "FindUser" /\ q.op = op /\ q.user = u /\ q.family = f /\ Become(r, q)
    BY <1>2, <2>1, <2>3 DEF Request
  <2>5. q.op \notin OnRow \cup OnCategory \cup {"Create"}
    BY <2>4 DEF OnRow, OnCategory, Syncs
  <2>6. QED
    BY <1>1, <2>1, <2>4, <2>5, IncomingStep
<1>13. QED
  BY <1>3, <1>4, <1>5, <1>6, <1>7, <1>9, <1>10, <1>11, <1>12 DEF Receive

LEMMA FinishStep ==
    ASSUME IInv, NEW r \in Requests, Finish(r), Witness, UNCHANGED <<owner, role>>
    PROVE  IInv' /\ RowsStep
<1>1. Idle \in Request /\ Idle.at = "idle" /\ Idle.op = "none"
  BY DEF Idle, Request
<1>2. Carries(Idle) /\ RowInv(Idle) /\ EntitledInv(r, Idle)
  BY <1>1 DEF Carries, RowInv, EntitledInv, Active, Asking, OnRow, OnCategory, Running,
     RowWrites, CategoryWrites, Past, Syncs
<1>3. /\ Become(r, Idle) /\ UNCHANGED <<owner, role, tables>> /\ asked' \in Nat
      /\ ~(Idle.op = "Delete" /\ Idle.at = "answered")
  BY <1>1, Facts DEF Finish
<1>4. QED
  BY <1>1, <1>2, <1>3, QuietStep

LEMMA StatementFailsStep ==
    ASSUME IInv, NEW r \in Requests, StatementFails(r), Witness, UNCHANGED <<owner, role>>
    PROVE  IInv' /\ RowsStep
BY RefuseStep DEF StatementFails

\* A family changes.
LEMMA FamilyStep ==
    ASSUME IInv, Family!Next, UNCHANGED <<tables, req, asked>>, Witness
    PROVE  IInv' /\ RowsStep
<1>1. TypeOK /\ Founded /\ UNCHANGED <<transactions, categories, req, asked>>
  BY DEF IInv, tables
<1>2. /\ owner' \in [Families -> Users \cup {None}]
      /\ role' \in [Families -> [Users -> {"none", "member", "admin", "owner"}]]
      /\ \A f \in Families : owner[f] # None => owner'[f] = owner[f]
      /\ \A f \in Families, u \in Users :
            role'[f][u] # "none" => role[f][u] # "none" \/ owner[f] # None
  <2>1. PICK f \in Families, u \in Users :
            \/ Family!Found(f, u) \/ Family!Leave(f, u)
            \/ \E as \in {"member", "admin", "owner"} : Family!Enter(f, u, as)
    BY DEF Family!Next
  <2>2. CASE Family!Found(f, u)
    BY <1>1, <2>2 DEF TypeOK, Family!Found
  <2>3. CASE Family!Leave(f, u)
    BY <1>1, <2>3 DEF TypeOK, Family!Leave
  <2>4. ASSUME NEW as \in {"member", "admin", "owner"}, Family!Enter(f, u, as)
        PROVE  /\ owner' = owner
               /\ role' \in [Families -> [Users -> {"none", "member", "admin", "owner"}]]
               /\ \A g \in Families, v \in Users :
                     role'[g][v] # "none" => role[g][v] # "none" \/ owner[g] # None
    BY <1>1, <2>4 DEF TypeOK, Family!Enter
  <2>5. QED
    BY <1>1, <2>1, <2>2, <2>3, <2>4 DEF TypeOK
<1>3. RowsStep
  <2>1. transactions' = transactions
    BY <1>1
  <2>2. QED
    BY <2>1 DEF RowsStep
<1>4. ASSUME NEW s \in Requests PROVE ReqInv(s, req[s])'
  BY <1>1, <1>2, <1>3, Frame
<1>5. TypeOK'
  BY <1>1, <1>2 DEF TypeOK, Witness
<1>6. Founded' /\ Noted'
  BY <1>1, <1>2, Noting DEF Founded, Member
<1>7. ReferencesKept' /\ DeletedOnce'
  BY <1>1 DEF IInv, ReferencesKept, DeletedOnce, At
<1>8. QED
  BY <1>3, <1>4, <1>5, <1>6, <1>7 DEF IInv

-----------------------------------------------------------------------------
(* The theorems *)

LEMMA InitInv == Init => IInv
<1> SUFFICES ASSUME Init PROVE IInv
  OBVIOUS
<1>1. /\ Idle \in Request /\ Idle.at = "idle" /\ Idle.op = "none" /\ NoTransaction \in Transaction
      /\ NoTransaction.state = "none" /\ NoCategory \in Category /\ SeedCategory \in Category
  BY DEF Idle, Request, NoTransaction, NoCategory, SeedCategory, Transaction, Category,
     Scopes
<1>2. TypeOK
  BY <1>1 DEF Init, TypeOK, Family!Init
<1>3. \A r \in Requests : ReqInv(r, req[r])
  <2>1. Carries(Idle) /\ RowInv(Idle) /\ \A r \in Requests : EntitledInv(r, Idle)
    BY <1>1 DEF Carries, RowInv, EntitledInv, Active, Asking, OnRow, OnCategory, Running,
       RowWrites, CategoryWrites, Past, Syncs
  <2>2. QED
    BY <2>1 DEF Init, ReqInv
<1>4. DeletedOnce /\ ReferencesKept /\ Noted
  BY <1>1 DEF Init, DeletedOnce, ReferencesKept, Noted, At, Running
<1>5. Founded
  BY ConstantsAssumption DEF Init, Founded, Member, ConstantsAssumption, Family!Init
<1>6. QED
  BY <1>2, <1>3, <1>4, <1>5 DEF IInv

LEMMA NextInv == IInv /\ [Next]_vars => IInv' /\ (RowsStep \/ UNCHANGED vars)
<1> SUFFICES ASSUME IInv, [Next]_vars PROVE IInv' /\ (RowsStep \/ UNCHANGED vars)
  OBVIOUS
<1>1. CASE UNCHANGED vars
  <2>1. UNCHANGED <<owner, role, transactions, categories, req, asked, entitled>>
    BY <1>1 DEF vars, tables
  <2>2. IInv'
    BY <2>1 DEF IInv, TypeOK, ReqInv, Carries, RowInv, EntitledInv, Active, Guarded,
       Noted, Entitled, Manager, Founded, Member, ReferencesKept, DeletedOnce, At
  <2>3. QED
    BY <1>1, <2>2
<1>2. ASSUME NEW r \in Requests, Serve(r), UNCHANGED <<owner, role>>, Witness
      PROVE  IInv' /\ RowsStep
  <2>1. UNCHANGED <<owner, role, asked>>
    BY <1>2 DEF Serve
  <2>2. QED
    BY <1>2, <2>1, CreateStep, RowStep, ReadStep, SyncStep, CategoryStep DEF Serve
<1>3. CASE Next
  BY <1>2, <1>3, ChangeStep, StatementFailsStep, FinishStep, ReceiveStep, FamilyStep DEF Next
<1>4. QED
  BY <1>1, <1>3

LEMMA Invariance == Spec => []IInv
BY InitInv, NextInv, PTL DEF Spec

\* Every field holds a value the services can produce.
THEOREM TypeCorrect == Spec => []TypeOK
<1>1. IInv => TypeOK
  BY DEF IInv
<1>2. QED
  BY <1>1, Invariance, PTL

\* No transaction, live or deleted, is ever without its category.
THEOREM CategoriesStay == Spec => []ReferencesKept
<1>1. IInv => ReferencesKept
  BY DEF IInv
<1>2. QED
  BY <1>1, Invariance, PTL

\* Whoever gets an answer to a guarded request, or has Sync make a change for a
\* family, was entitled to it at some moment since it asked.
THEOREM OnlyEntitledAnswered == Spec => []AnsweredEntitled
<1>1. IInv => AnsweredEntitled
  BY DEF IInv, ReqInv, EntitledInv, Past, AnsweredEntitled
<1>2. QED
  BY <1>1, Invariance, PTL

\* Of overlapping deletes of one transaction one succeeds.
THEOREM DeletesOnce == Spec => []DeletedOnce
<1>1. IInv => DeletedOnce
  BY DEF IInv
<1>2. QED
  BY <1>1, Invariance, PTL

\* Deleted rows stay as they are and live ones keep creator and family, whatever
\* Sync or an update that read them earlier writes.
THEOREM RowsStay == Spec => RowsKept
<1>1. IInv /\ [Next]_vars => [RowsStep]_vars
  BY NextInv
<1>2. QED
  BY <1>1, Invariance, PTL DEF Spec, RowsKept, RowsStep
=============================================================================
