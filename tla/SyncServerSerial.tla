-------------------------- MODULE SyncServerSerial --------------------------
(***************************************************************************)
(* What the sync service keeps when it serves one request at a time, for   *)
(* any number of answered requests on their way to a client, of devices    *)
(* and entities, with statements that fail, rows that break off and        *)
(* crashes: it is a change feed, its replies skip no entry, the log        *)
(* reproduces the tables, and, if no clock is ahead, the last writer wins. *)
(***************************************************************************)
EXTENDS SyncServerProofs, SyncServerPromises, FiniteSetTheorems

OneAtATime == MaxInFlight = 1 /\ IsFiniteSet(Requests)

\* Nobody takes an id of the log behind the request that is inserting one.
SerialInv ==
    /\ \A q, r \in Requests : req[q].pc \in Running /\ req[r].pc \in Running => q = r
    /\ \A r \in Requests : req[r].pc = "commit" => req[r].id = lastId

-----------------------------------------------------------------------------
(* The service is a change feed *)

\* A request that asks nothing new and is told nothing new.
Released(old, new) == /\ AskOf(new) \in {AskOf(old), {}}
                      /\ AnswerOf(new) \in {AnswerOf(old), {}}

LEMMA ReleaseFeed ==
    ASSUME changeLog' = changeLog, \A r \in Requests : Released(req[r], req'[r])
    PROVE  Feed!Next
<1>1. /\ FeedAsks = [r \in Requests |-> AskOf(req[r])]
      /\ FeedAnswers = [r \in Requests |-> AnswerOf(req[r])]
      /\ FeedAsks' = [r \in Requests |-> AskOf(req'[r])]
      /\ FeedAnswers' = [r \in Requests |-> AnswerOf(req'[r])]
  BY DEF FeedAsks, FeedAnswers, AskOf, AnswerOf
<1>2. /\ FeedAsks' = [r \in Requests |-> FeedAsks'[r]]
      /\ FeedAnswers' = [r \in Requests |-> FeedAnswers'[r]]
  BY <1>1
<1>3. \A r \in Requests :
          FeedAsks'[r] \in {FeedAsks[r], {}} /\ FeedAnswers'[r] \in {FeedAnswers[r], {}}
  BY <1>1 DEF Released
<1>4. QED
  BY <1>2, <1>3 DEF Feed!Forget, Feed!Next

\* One request goes on, or ends, without reading or writing the log.
LEMMA MoveFeed ==
    ASSUME IInv, SerialInv, NEW r \in Requests, NEW q \in Request, Become(r, q),
           UNCHANGED <<changeLog, lastId>>, q.pc \in Running => req[r].pc \in Running,
           q.pc # "commit", Released(req[r], q)
    PROVE  Feed!Next /\ SerialInv'
<1>1. \A s \in Requests : req'[s] = IF s = r THEN q ELSE req[s]
  BY DEF IInv, TypeOK, RequestType, Become
<1>2. \A s \in Requests : Released(req[s], req'[s])
  BY <1>1 DEF Released
<1>3. SerialInv'
  BY <1>1 DEF SerialInv
<1>4. QED
  BY <1>2, <1>3, ReleaseFeed

\* The same for a request whose pc, and locals other than the batch, change.
LEMMA GoFeed ==
    ASSUME IInv, SerialInv, NEW r \in Requests, NEW q \in Request, Become(r, q),
           UNCHANGED <<changeLog, lastId>>, req[r].pc \in Running \ {"save"},
           q.pc \in (Running \ {"save", "commit"}) \cup {"failed"}, q.batch = req[r].batch
    PROVE  Feed!Next /\ SerialInv'
<1>1. Released(req[r], q)
  BY DEF Released, AskOf, AnswerOf, Running
<1>2. q.pc \in Running => req[r].pc \in Running
  OBVIOUS
<1>3. q.pc # "commit"
  BY DEF Running
<1>4. QED
  BY <1>1, <1>2, <1>3, MoveFeed

LEMMA FailFeed ==
    ASSUME IInv, SerialInv, NEW r \in Requests, Fail(r), UNCHANGED <<changeLog, lastId>>
    PROVE  Feed!Next /\ SerialInv'
<1> DEFINE q == [req[r] EXCEPT !.pc = "failed"]
<1>1. q \in Request /\ q.pc = "failed"
  BY RequestFacts DEF IInv, Request, Ended
<1>2. Become(r, q)
  BY DEF Fail
<1> HIDE DEF q
<1>3. Released(req[r], q) /\ q.pc \notin Running
  BY <1>1 DEF Released, AskOf, AnswerOf, Running
<1>4. QED
  BY <1>1, <1>2, <1>3, MoveFeed

-----------------------------------------------------------------------------
(* The statements of Sync *)

\* A request comes with a checkpoint its device has saved, a timestamp and changes.
LEMMA ReceiveFacts ==
    ASSUME TypeOK, NEW r \in Requests, NEW d \in Devices, Receive(r, d)
    PROVE  \E last \in {0, held[d]}, t \in 1..(now + MaxSkew), batch \in SUBSET (1..Len(changes)) :
             Become(r, [Idle EXCEPT !.pc = "select", !.device = d, !.last = last,
                                    !.sentAt = t, !.batch = batch, !.todo = batch])
<1>1. PICK a \in 1..(cleared[d] + 1), b \in 0..Len(changes), last \in {0, held[d]},
           t \in 1..(now + MaxSkew) :
          LET batch == {n \in a..b : changes[n].device = d} IN
          Become(r, [Idle EXCEPT !.pc = "select", !.device = d, !.last = last,
                                 !.sentAt = t, !.batch = batch, !.todo = batch])
  BY DEF Receive
<1> DEFINE batch == {n \in a..b : changes[n].device = d}
<1>2. cleared[d] \in Nat /\ Len(changes) \in Nat
  BY DEF TypeOK
<1>3. batch \in SUBSET (1..Len(changes))
  BY <1>1, <1>2
<1>4. Become(r, [Idle EXCEPT !.pc = "select", !.device = d, !.last = last,
                             !.sentAt = t, !.batch = batch, !.todo = batch])
  BY <1>1
<1> HIDE DEF batch
<1>5. QED
  BY <1>1, <1>3, <1>4

\* Find ends in one of four statements.
LEMMA FindFacts ==
    ASSUME NEW r \in Requests, Find(r)
    PROVE  \E n \in req[r].todo, pc \in {"create", "append", "delete", "update"},
              lost \in BOOLEAN :
             /\ Current(r, n)
             /\ pc = Decision(changes[n].action, rows[changes[n].entity], req[r].sentAt)
             /\ lost = Loses(changes[n].action, rows[changes[n].entity], req[r].sentAt)
             /\ Become(r, [req[r] EXCEPT !.pc = pc, !.lost = lost, !.stamp = now])
<1>1. PICK n \in req[r].todo :
          /\ Current(r, n)
          /\ Become(r, [req[r] EXCEPT
              !.pc = Decision(changes[n].action, rows[changes[n].entity], req[r].sentAt),
              !.lost = Loses(changes[n].action, rows[changes[n].entity], req[r].sentAt),
              !.stamp = now])
  BY DEF Find
<1>2. PICK pc \in {"create", "append", "delete", "update"} :
          pc = Decision(changes[n].action, rows[changes[n].entity], req[r].sentAt)
  BY DEF Decision
<1>3. PICK lost \in BOOLEAN :
          lost = Loses(changes[n].action, rows[changes[n].entity], req[r].sentAt)
  BY DEF Loses
<1>4. QED
  BY <1>1, <1>2, <1>3

\* The entry of the change at hand appears under the id taken for it.
LEMMA AppendCommitFacts ==
    ASSUME NEW r \in Requests, AppendCommit(r)
    PROVE  \E n \in req[r].todo :
             /\ Current(r, n)
             /\ changeLog' = changeLog \cup {[id |-> req[r].id, change |-> n]}
             /\ Become(r, [req[r] EXCEPT !.pc = LoopHead(req[r].todo \ {n}),
                                         !.todo = @ \ {n}, !.stamp = 0, !.id = 0])
BY DEF AppendCommit

LEMMA CheckpointFeed ==
    ASSUME IInv, SerialInv, NEW r \in Requests, SelectCheckpoint(r) \/ InsertCheckpoint(r)
    PROVE  Feed!Next /\ SerialInv'
<1>1. req[r] \in Request /\ req[r].pc \in Running \ {"save"}
  BY RequestFacts DEF IInv, SelectCheckpoint, InsertCheckpoint, Running
<1>2. UNCHANGED <<changeLog, lastId>>
  BY DEF SelectCheckpoint, InsertCheckpoint, database
<1>3. CASE Fail(r)
  BY <1>2, <1>3, FailFeed
<1>4. CASE ~Fail(r)
  <2>1. PICK pc \in {"insert", "find", "read"} : Become(r, [req[r] EXCEPT !.pc = pc])
    BY <1>4 DEF SelectCheckpoint, InsertCheckpoint, LoopHead
  <2> DEFINE q == [req[r] EXCEPT !.pc = pc]
  <2>2. q \in Request /\ q.pc = pc /\ q.batch = req[r].batch
    BY <1>1 DEF Request, Running
  <2> HIDE DEF q
  <2>3. Become(r, q)
    BY <2>1 DEF q
  <2>4. q.pc \in (Running \ {"save", "commit"}) \cup {"failed"}
    BY <2>2 DEF Running
  <2>5. QED
    BY <1>1, <1>2, <2>2, <2>3, <2>4, GoFeed
<1>5. QED
  BY <1>3, <1>4

LEMMA FindFeed ==
    ASSUME IInv, SerialInv, NEW r \in Requests, Find(r)
    PROVE  Feed!Next /\ SerialInv'
<1>1. req[r] \in Request /\ req[r].pc \in Running \ {"save"} /\ now \in Nat
  BY RequestFacts DEF IInv, TypeOK, Find, Running
<1>2. UNCHANGED <<changeLog, lastId>>
  BY DEF Find, database
<1>3. PICK n \in req[r].todo, pc \in {"create", "append", "delete", "update"},
           lost \in BOOLEAN :
          Become(r, [req[r] EXCEPT !.pc = pc, !.lost = lost, !.stamp = now])
  BY FindFacts
<1> DEFINE q == [req[r] EXCEPT !.pc = pc, !.lost = lost, !.stamp = now]
<1>4. q \in Request
  BY <1>1 DEF Request, Running
<1>5. q.pc = pc /\ q.batch = req[r].batch
  BY <1>1 DEF Request
<1>6. Become(r, q)
  BY <1>3
<1> HIDE DEF q
<1>7. q.pc \in (Running \ {"save", "commit"}) \cup {"failed"}
  BY <1>5 DEF Running
<1>8. QED
  BY <1>1, <1>2, <1>4, <1>5, <1>6, <1>7, GoFeed

LEMMA WriteFeed ==
    ASSUME IInv, SerialInv, NEW r \in Requests, Update(r) \/ Create(r) \/ Delete(r)
    PROVE  Feed!Next /\ SerialInv'
<1>1. req[r] \in Request /\ req[r].pc \in Running \ {"save"}
  BY RequestFacts DEF IInv, Update, Create, Delete, Running
<1>2. UNCHANGED <<changeLog, lastId>>
  BY DEF Update, Create, Delete
<1>3. CASE Fail(r)
  BY <1>2, <1>3, FailFeed
<1>4. CASE ~Fail(r)
  <2> DEFINE q == [req[r] EXCEPT !.pc = "append"]
  <2>1. q \in Request /\ q.pc = "append" /\ q.batch = req[r].batch
    BY <1>1 DEF Request, Running
  <2>2. Become(r, q)
    BY <1>4 DEF Update, Create, Delete
  <2> HIDE DEF q
  <2>3. q.pc \in (Running \ {"save", "commit"}) \cup {"failed"}
    BY <2>1 DEF Running
  <2>4. QED
    BY <1>1, <1>2, <2>1, <2>2, <2>3, GoFeed
<1>5. QED
  BY <1>3, <1>4

\* The request takes the next id, which nobody but it can use.
LEMMA AppendBeginFeed ==
    ASSUME IInv, SerialInv, NEW r \in Requests, AppendBegin(r)
    PROVE  Feed!Next /\ SerialInv'
<1> DEFINE q == [req[r] EXCEPT !.pc = "commit", !.id = lastId + 1]
<1>1. req[r] \in Request /\ req[r].pc = "append" /\ req[r].pc \in Running
  BY RequestFacts DEF IInv, AppendBegin, Running
<1>2. lastId' = lastId + 1 /\ changeLog' = changeLog
  BY DEF AppendBegin
<1>3. q.pc = "commit" /\ q.id = lastId' /\ q.batch = req[r].batch
  BY <1>1, <1>2 DEF Request
<1>4. \A s \in Requests : req'[s] = IF s = r THEN q ELSE req[s]
  BY DEF IInv, TypeOK, RequestType, Become, AppendBegin
<1> HIDE DEF q
<1>5. Released(req[r], q)
  BY <1>1, <1>3 DEF Released, AskOf, AnswerOf, Running
<1>6. \A s \in Requests : Released(req[s], req'[s])
  BY <1>4, <1>5 DEF Released
<1>7. \A s \in Requests \ {r} : req[s].pc \notin Running
  BY <1>1 DEF SerialInv
<1>8. SerialInv'
  BY <1>1, <1>3, <1>4, <1>7 DEF SerialInv, Running
<1>9. QED
  BY <1>2, <1>6, <1>8, ReleaseFeed

\* Its entry comes above all others.
LEMMA AppendCommitFeed ==
    ASSUME IInv, SerialInv, NEW r \in Requests, AppendCommit(r)
    PROVE  Feed!Next /\ SerialInv'
<1>1. /\ req[r] \in Request /\ req[r].pc = "commit" /\ req[r].pc \in Running
      /\ LocalInv(req[r]) /\ LogType /\ req[r].id = lastId /\ lastId' = lastId
  BY RequestFacts DEF IInv, TypeOK, AppendCommit, Running, SerialInv
<1>2. PICK n \in req[r].todo :
          /\ changeLog' = changeLog \cup {[id |-> req[r].id, change |-> n]}
          /\ Become(r, [req[r] EXCEPT !.pc = LoopHead(req[r].todo \ {n}),
                                      !.todo = @ \ {n}, !.stamp = 0, !.id = 0])
  BY AppendCommitFacts
<1> DEFINE x == [id |-> req[r].id, change |-> n]
           q == [req[r] EXCEPT !.pc = LoopHead(req[r].todo \ {n}), !.todo = @ \ {n},
                               !.stamp = 0, !.id = 0]
<1>3. q.pc \in {"read", "find"} /\ q.batch = req[r].batch
  BY <1>1 DEF Request, LoopHead
<1>4. \A s \in Requests : req'[s] = IF s = r THEN q ELSE req[s]
  BY <1>2 DEF IInv, TypeOK, RequestType, Become
<1> HIDE DEF q
<1>5. AskOf(q) = AskOf(req[r]) /\ AnswerOf(q) = AnswerOf(req[r])
  BY <1>1, <1>3 DEF AskOf, AnswerOf, Running
<1>6. FeedAsks' = FeedAsks /\ FeedAnswers' = FeedAnswers
  BY <1>4, <1>5 DEF FeedAsks, FeedAnswers, AskOf, AnswerOf
<1>7. \A y \in changeLog : y.id < x.id
  <2>1. \A y \in changeLog : y.id \in Nat /\ y.id <= lastId /\ y.id # req[r].id
    BY <1>1 DEF LogType, LocalInv, CommitInv, Entry
  <2>2. QED
    BY <1>1, <2>1 DEF LogType
<1>8. Feed!Add(x) /\ x \in changeLog'
  BY <1>2, <1>6, <1>7 DEF Feed!Add
<1>9. SerialInv'
  BY <1>1, <1>3, <1>4 DEF SerialInv
<1>10. QED
  BY <1>8, <1>9 DEF Feed!Next

\* The answer: the log above the checkpoint of the request, which holds what the
\* loop has passed, up to the entry the answer ends with.
LEMMA ReadFeed ==
    ASSUME IInv, SerialInv, NEW r \in Requests, Read(r) \/ ReadBreaksOff(r)
    PROVE  Feed!Next /\ SerialInv'
<1> DEFINE last == req[r].last
<1>0. PICK ids \in SUBSET Newer(r) : ReadsUpTo(r, ids)
  BY ReadFacts DEF IInv
<1>1. /\ req[r] \in Request /\ req[r].pc = "read" /\ req[r].pc \in Running
      /\ LocalInv(req[r]) /\ changeLog \subseteq Entry /\ UNCHANGED <<changeLog, lastId>>
  BY <1>0, RequestFacts DEF IInv, TypeOK, LogType, ReadsUpTo, Reply, Running, database
<1>2. PICK hi \in ids \cup {last} :
          /\ \A i \in ids \cup {last} : i <= hi
          /\ Become(r, [req[r] EXCEPT !.pc = "save", !.reply = ids, !.hi = hi])
  BY <1>0 DEF ReadsUpTo, Reply
<1> DEFINE q == [req[r] EXCEPT !.pc = "save", !.reply = ids, !.hi = hi]
           a == [after |-> last, ids |-> ids, upTo |-> hi]
<1>3. q.pc = "save" /\ q.reply = ids /\ q.hi = hi /\ q.last = last
  BY <1>1 DEF Request
<1>4. \A s \in Requests : req'[s] = IF s = r THEN q ELSE req[s]
  BY <1>2 DEF IInv, TypeOK, RequestType, Become
<1> HIDE DEF q
<1>5. AskOf(q) = {} /\ AnswerOf(q) = {a}
  BY <1>3 DEF AskOf, AnswerOf
<1>6. FeedAsks' = [FeedAsks EXCEPT ![r] = {}]
  BY <1>4, <1>5 DEF FeedAsks, AskOf
<1>7. FeedAnswers' = [FeedAnswers EXCEPT ![r] = {a}]
  BY <1>4, <1>5 DEF FeedAnswers, AnswerOf
<1>8. ids = {x.id : x \in {y \in Feed!Above(last) : y.id <= hi}}
  <2>1. last \in Nat /\ \A x \in changeLog : x.id \in Nat
    BY <1>1 DEF Request, Entry
  <2>2. ids \subseteq Newer(r) /\ \A i \in ids, j \in Newer(r) : j <= i => j \in ids
    BY <1>0 DEF ReadsUpTo
  <2>3. ASSUME NEW i \in ids PROVE \E x \in Feed!Above(last) : x.id = i /\ x.id <= hi
    BY <1>2, <2>2 DEF Newer, Feed!Above
  <2>4. ASSUME NEW x \in Feed!Above(last), x.id <= hi PROVE x.id \in ids
    <3>1. x \in changeLog /\ x.id > last /\ x.id \in Newer(r)
      BY DEF Feed!Above, Newer
    <3>2. hi \in ids
      BY <1>2, <2>1, <2>4, <3>1
    <3>3. QED
      BY <2>2, <2>4, <3>1, <3>2
  <2>5. QED
    BY <2>3, <2>4
<1>9. FeedAsks[r] \subseteq {x.change : x \in Feed!Above(last)}
  <2>1. SUFFICES ASSUME NEW n \in req[r].batch
                 PROVE  n \in {x.change : x \in Feed!Above(last)}
    BY DEF FeedAsks, AskOf
  <2>2. PICK x \in changeLog : x.change = n /\ last < x.id
    BY <1>1 DEF LocalInv, DoneInv, LoggedInv
  <2>3. last \in Nat /\ x.id \in Nat
    BY <1>1 DEF Request, Entry
  <2>4. x \in Feed!Above(last)
    BY <2>2, <2>3 DEF Feed!Above
  <2>5. QED
    BY <2>2, <2>4
<1>10. hi = last \/ \E x \in Feed!Above(last) : x.id = hi
  BY <1>0, <1>2 DEF ReadsUpTo, Newer, Feed!Above
<1>11. Feed!Answer(r, last, hi)
  BY <1>1, <1>6, <1>7, <1>8, <1>9, <1>10 DEF Feed!Answer
<1>12. a \in FeedAnswers'[r] /\ a.after = last /\ a.upTo = hi
  BY <1>7 DEF FeedAnswers
<1>13. SerialInv'
  BY <1>1, <1>3, <1>4 DEF SerialInv
<1>14. QED
  BY <1>11, <1>12, <1>13 DEF Feed!Next

LEMMA UpdateCheckpointFeed ==
    ASSUME IInv, SerialInv, NEW r \in Requests, UpdateCheckpoint(r)
    PROVE  Feed!Next /\ SerialInv'
<1> DEFINE q == [req[r] EXCEPT !.pc = "answered"]
<1>1. req[r] \in Request /\ req[r].pc = "save" /\ UNCHANGED <<changeLog, lastId>>
  BY RequestFacts DEF IInv, UpdateCheckpoint
<1>2. /\ q \in Request /\ q.pc = "answered" /\ q.last = req[r].last /\ q.reply = req[r].reply
      /\ q.hi = req[r].hi
  BY <1>1 DEF Request, Ended
<1>3. Become(r, q)
  BY DEF UpdateCheckpoint
<1> HIDE DEF q
<1>4. Released(req[r], q) /\ q.pc \notin Running
  BY <1>1, <1>2 DEF Released, AskOf, AnswerOf, Running
<1>5. QED
  BY <1>1, <1>2, <1>3, <1>4, MoveFeed

-----------------------------------------------------------------------------
(* Devices and failures *)

LEMMA ReceiveFeed ==
    ASSUME OneAtATime, IInv, SerialInv, NEW r \in Requests, NEW d \in Devices, Receive(r, d)
    PROVE  Feed!Next /\ SerialInv'
<1>1. req[r].pc = "idle" /\ UNCHANGED <<changeLog, lastId>>
  BY DEF Receive, database
<1>2. PICK last \in {0, held[d]}, t \in 1..(now + MaxSkew), batch \in SUBSET (1..Len(changes)) :
          Become(r, [Idle EXCEPT !.pc = "select", !.device = d, !.last = last,
                                 !.sentAt = t, !.batch = batch, !.todo = batch])
  BY ReceiveFacts DEF IInv
<1> DEFINE q == [Idle EXCEPT !.pc = "select", !.device = d, !.last = last,
                             !.sentAt = t, !.batch = batch, !.todo = batch]
<1>3. q.pc = "select" /\ q.batch = batch
  BY DEF Idle
<1>4. \A s \in Requests : req'[s] = IF s = r THEN q ELSE req[s]
  BY <1>2 DEF IInv, TypeOK, RequestType, Become
<1> HIDE DEF q
<1>5. \A s \in Requests : req[s].pc \notin Running
  <2> DEFINE S == {s \in Requests : req[s].pc \in Running}
  <2>1. IsFiniteSet(S)
    BY FS_Subset DEF OneAtATime
  <2>2. Cardinality(S) < 1
    BY DEF Receive, OneAtATime
  <2>3. Cardinality(S) = 0
    BY <2>1, <2>2, FS_CardinalityType
  <2>4. S = {}
    BY <2>1, <2>3, FS_EmptySet
  <2>5. QED
    BY <2>4
<1>6. SerialInv'
  BY <1>3, <1>4, <1>5 DEF SerialInv, Running
<1>7. FeedAsks' = [FeedAsks EXCEPT ![r] = FeedAsks'[r]]
  BY <1>4 DEF FeedAsks, AskOf
<1>8. FeedAnswers' = [FeedAnswers EXCEPT ![r] = {}]
  BY <1>3, <1>4 DEF FeedAnswers, AnswerOf
<1>9. Feed!Ask(r)
  BY <1>1, <1>7, <1>8 DEF Feed!Ask
<1>10. QED
  BY <1>6, <1>9 DEF Feed!Next

LEMMA LeaveFeed ==
    ASSUME IInv, SerialInv, NEW r \in Requests, Deliver(r) \/ Drop(r)
    PROVE  Feed!Next /\ SerialInv'
<1>1. Become(r, Idle) /\ UNCHANGED <<changeLog, lastId>>
  BY DEF Deliver, Drop, database
<1>2. Released(req[r], Idle) /\ Idle.pc = "idle"
  BY DEF Released, AskOf, AnswerOf, Running, Idle
<1>3. QED
  BY <1>1, <1>2, IdleType, MoveFeed DEF Running

LEMMA CrashFeed ==
    ASSUME IInv, SerialInv, Crash
    PROVE  Feed!Next /\ SerialInv'
<1>1. \A r \in Requests :
          req'[r] = IF req[r].pc \in Running THEN [req[r] EXCEPT !.pc = "failed"] ELSE req[r]
  BY DEF Crash
<1>2. \A r \in Requests : Released(req[r], req'[r]) /\ req'[r].pc \notin Running
  <2> TAKE r \in Requests
  <2>1. CASE req[r].pc \notin Running
    BY <1>1, <2>1 DEF Released
  <2>2. CASE req[r].pc \in Running
    <3>1. req'[r].pc = "failed"
      BY <1>1, <2>2, RequestFacts DEF IInv, Request
    <3>2. QED
      BY <3>1 DEF Released, AskOf, AnswerOf, Running
  <2>3. QED
    BY <2>1, <2>2
<1>3. SerialInv'
  BY <1>2 DEF SerialInv, Running
<1>4. changeLog' = changeLog
  BY DEF Crash, database
<1>5. QED
  BY <1>2, <1>3, <1>4, ReleaseFeed

LEMMA SameFeed ==
    ASSUME SerialInv, UNCHANGED <<req, changeLog, lastId>>
    PROVE  Feed!Next /\ SerialInv'
BY ReleaseFeed DEF Released, SerialInv

-----------------------------------------------------------------------------
(* The refinement *)

LEMMA NextFeed ==
    ASSUME OneAtATime, IInv, SerialInv, [Next]_vars
    PROVE  [Feed!Next]_Feed!feeds /\ SerialInv'
<1> SUFFICES Feed!Next /\ SerialInv'
  OBVIOUS
<1>1. ASSUME NEW r \in Requests, Sync(r) PROVE Feed!Next /\ SerialInv'
  <2>1. CASE AppendRefused(r)
    BY <2>1, FailFeed DEF AppendRefused, database
  <2>2. QED
    BY <1>1, <2>1, CheckpointFeed, FindFeed, WriteFeed, AppendBeginFeed, AppendCommitFeed,
       ReadFeed, UpdateCheckpointFeed DEF Sync
<1>2. ASSUME NEW r \in Requests, ReadBreaksOff(r) \/ StatementFails(r)
      PROVE  Feed!Next /\ SerialInv'
  BY <1>2, ReadFeed, FailFeed DEF StatementFails, database
<1>3. ASSUME NEW d \in Devices, NEW e \in Edited, NEW a \in {"upsert", "delete"},
             MakeChange(d, e, a)
      PROVE  Feed!Next /\ SerialInv'
  BY <1>3, SameFeed DEF MakeChange, database
<1>4. ASSUME NEW r \in Requests, (\E d \in Devices : Receive(r, d)) \/ Deliver(r) \/ Drop(r)
      PROVE  Feed!Next /\ SerialInv'
  BY <1>4, ReceiveFeed, LeaveFeed
<1>5. CASE Crash
  BY <1>5, CrashFeed
<1>6. CASE Tick \/ UNCHANGED vars
  BY <1>6, SameFeed DEF Tick, vars, database
<1>7. QED
  BY <1>1, <1>2, <1>3, <1>4, <1>5, <1>6 DEF Next, DeviceStep

LEMMA InitFeed == Init => Feed!Init /\ SerialInv
<1> SUFFICES ASSUME Init PROVE Feed!Init /\ SerialInv
  OBVIOUS
<1>1. \A r \in Requests : req[r] = Idle /\ req[r].pc = "idle"
  BY IdleType DEF Init
<1>2. AskOf(Idle) = {} /\ AnswerOf(Idle) = {}
  BY IdleType DEF AskOf, AnswerOf, Running
<1>3. FeedAsks = [r \in Requests |-> {}] /\ FeedAnswers = [r \in Requests |-> {}]
  BY <1>1, <1>2 DEF FeedAsks, FeedAnswers
<1>4. QED
  BY <1>1, <1>3 DEF Init, Feed!Init, SerialInv, Running

\* Served one at a time, every request is answered with the log above its
\* checkpoint up to the one it is handed, and entries appear in the order of
\* their ids: the service implements ChangeFeed, whatever statement fails and
\* wherever the rows of the log break off.
THEOREM ServesFeed ==
    ASSUME OneAtATime
    PROVE  Spec => FeedImplemented
<1>1. IInv /\ SerialInv /\ [Next]_vars => [Feed!Next]_Feed!feeds /\ SerialInv'
  BY NextFeed
<1>2. QED
  BY <1>1, InitFeed, Invariance, PTL DEF Spec, FeedImplemented, Feed!Spec

-----------------------------------------------------------------------------
(* No reply skips an entry *)

\* Some visible entry is not below k.
Reached(k) == k = 0 \/ \E x \in changeLog : k <= x.id

\* The checkpoints of a request; the log does not grow before its answer leaves, and
\* later only above it.
CutInv(q) ==
    /\ Reached(q.last) /\ Reached(q.hi)
    /\ q.pc \in {"save", "answered"} =>
          \A x \in changeLog : q.last < x.id /\ x.id <= q.hi => x.id \in q.reply

CutsInv ==
    /\ \A r \in Requests : CutInv(req[r])
    /\ \A d \in Devices : Reached(held[d])

\* A request that keeps its answer, or has none.
SameCut(old, new) ==
    \/ /\ new.last = old.last /\ new.hi = old.hi /\ new.reply = old.reply
       /\ \/ new.pc \in {old.pc, "failed"} \cup (Running \ {"save"})
          \/ old.pc = "save" /\ new.pc = "answered"
    \/ Reached(new.last) /\ new.hi = 0 /\ new.pc \notin {"save", "answered"}

\* The log is left alone, and checkpoints go from hand to hand.
LEMMA CutSame ==
    ASSUME CutsInv, changeLog' = changeLog,
           \A r \in Requests : SameCut(req[r], req'[r]),
           \A d \in Devices : held'[d] = held[d] \/ \E r \in Requests : held'[d] = req[r].hi
    PROVE  CutsInv'
<1>1. \A k : Reached(k)' <=> Reached(k)
  BY DEF Reached
<1>2. Reached(0)
  BY DEF Reached
<1>3. ASSUME NEW r \in Requests PROVE CutInv(req[r])'
  <2>1. CutInv(req[r])
    BY DEF CutsInv
  <2>2. CASE /\ req'[r].last = req[r].last /\ req'[r].hi = req[r].hi
             /\ req'[r].reply = req[r].reply
             /\ \/ req'[r].pc \in {req[r].pc, "failed"} \cup (Running \ {"save"})
                \/ req[r].pc = "save" /\ req'[r].pc = "answered"
    BY <2>1, <2>2 DEF CutInv, Reached, Running
  <2>3. CASE Reached(req'[r].last) /\ req'[r].hi = 0 /\ req'[r].pc \notin {"save", "answered"}
    BY <1>2, <2>3 DEF CutInv, Reached
  <2>4. QED
    BY <2>2, <2>3 DEF SameCut
<1>4. \A r \in Requests : Reached(req[r].hi)
  BY DEF CutsInv, CutInv
<1>5. \A d \in Devices : Reached(held[d])'
  <2> TAKE d \in Devices
  <2>1. Reached(held'[d])
    BY <1>4 DEF CutsInv
  <2>2. QED
    BY <2>1 DEF Reached
<1>6. QED
  BY <1>3, <1>5 DEF CutsInv

\* One request moves and the log stays.
LEMMA CutMove ==
    ASSUME IInv, CutsInv, NEW r \in Requests, NEW q, Become(r, q), SameCut(req[r], q),
           UNCHANGED <<changeLog, held>>
    PROVE  CutsInv'
<1>1. req'[r] = q /\ \A s \in Requests \ {r} : req'[s] = req[s]
  BY BecomeFacts DEF IInv
<1>2. \A s \in Requests : SameCut(req[s], req'[s])
  BY <1>1 DEF SameCut
<1>3. QED
  BY <1>2, CutSame

\* The statements that neither read nor extend the log.
LEMMA CutStatements ==
    ASSUME IInv, CutsInv, NEW r \in Requests,
           \/ SelectCheckpoint(r) \/ InsertCheckpoint(r) \/ Find(r) \/ Update(r) \/ Create(r)
           \/ Delete(r) \/ AppendBegin(r) \/ AppendRefused(r) \/ StatementFails(r)
    PROVE  CutsInv'
<1>1. TypeOK /\ req[r] \in Request
  BY RequestFacts DEF IInv
<1>2. UNCHANGED <<changeLog, held>>
  <2>1. CASE SelectCheckpoint(r) \/ InsertCheckpoint(r) \/ Find(r) \/ AppendRefused(r)
             \/ StatementFails(r)
    BY <2>1 DEF SelectCheckpoint, InsertCheckpoint, Find, AppendRefused, StatementFails,
                database, devices
  <2>2. CASE Update(r) \/ Create(r) \/ Delete(r) \/ AppendBegin(r)
    BY <2>2 DEF Update, Create, Delete, AppendBegin, devices
  <2>3. QED
    BY <2>1, <2>2
<1>4. ASSUME NEW q, Become(r, q), q.last = req[r].last, q.hi = req[r].hi,
             q.reply = req[r].reply, q.pc \in {"failed"} \cup (Running \ {"save"})
      PROVE  CutsInv'
  BY <1>2, <1>4, CutMove DEF SameCut
<1>5. ASSUME NEW pc \in {"failed"} \cup (Running \ {"save"}), Become(r, [req[r] EXCEPT !.pc = pc])
      PROVE  CutsInv'
  BY <1>1, <1>4, <1>5 DEF Request
<1>6. CASE SelectCheckpoint(r) \/ InsertCheckpoint(r)
  BY <1>5, <1>6 DEF SelectCheckpoint, InsertCheckpoint, LoopHead, Fail, Running
<1>7. CASE Update(r) \/ Create(r) \/ Delete(r) \/ AppendRefused(r) \/ StatementFails(r)
  BY <1>5, <1>7 DEF Update, Create, Delete, AppendRefused, StatementFails, Fail, Running
<1>8. CASE AppendBegin(r)
  <2> DEFINE q == [req[r] EXCEPT !.pc = "commit", !.id = lastId + 1]
  <2>1. Become(r, q)
    BY <1>8 DEF AppendBegin
  <2>2. /\ q.last = req[r].last /\ q.hi = req[r].hi /\ q.reply = req[r].reply
        /\ q.pc = "commit"
    BY <1>1 DEF Request
  <2> HIDE DEF q
  <2>3. QED
    BY <1>4, <2>1, <2>2 DEF Running
<1>9. CASE Find(r)
  <2>1. PICK n \in req[r].todo, pc \in {"create", "append", "delete", "update"},
             lost \in BOOLEAN :
            Become(r, [req[r] EXCEPT !.pc = pc, !.lost = lost, !.stamp = now])
    BY <1>9, FindFacts
  <2> DEFINE q == [req[r] EXCEPT !.pc = pc, !.lost = lost, !.stamp = now]
  <2>2. Become(r, q)
    BY <2>1
  <2>3. q.last = req[r].last /\ q.hi = req[r].hi /\ q.reply = req[r].reply /\ q.pc = pc
    BY <1>1 DEF Request
  <2> HIDE DEF q
  <2>4. QED
    BY <1>4, <2>2, <2>3 DEF Running
<1>10. QED
  BY <1>6, <1>7, <1>8, <1>9

\* The entry that appears is above every answer that has left.
LEMMA CutCommit ==
    ASSUME IInv, SerialInv, CutsInv, NEW r \in Requests, AppendCommit(r)
    PROVE  CutsInv'
<1>1. /\ TypeOK /\ req[r] \in Request /\ req[r].pc = "commit" /\ req[r].pc \in Running
      /\ LocalInv(req[r]) /\ LogType /\ req[r].id = lastId /\ req[r].last \in Nat
  BY RequestFacts DEF IInv, TypeOK, AppendCommit, Running, SerialInv, Request
<1>2. PICK n \in req[r].todo :
          /\ changeLog' = changeLog \cup {[id |-> req[r].id, change |-> n]}
          /\ Become(r, [req[r] EXCEPT !.pc = LoopHead(req[r].todo \ {n}),
                                      !.todo = @ \ {n}, !.stamp = 0, !.id = 0])
  BY AppendCommitFacts
<1> DEFINE x == [id |-> req[r].id, change |-> n]
           q == [req[r] EXCEPT !.pc = LoopHead(req[r].todo \ {n}), !.todo = @ \ {n},
                               !.stamp = 0, !.id = 0]
<1>3. /\ q.pc \in {"read", "find"} /\ q.last = req[r].last /\ q.hi = req[r].hi
  BY <1>1 DEF Request, LoopHead
<1>4. req'[r] = q /\ \A s \in Requests \ {r} : req'[s] = req[s]
  BY <1>1, <1>2, BecomeFacts
<1> HIDE DEF q
<1>5. \A k : Reached(k) => Reached(k)'
  BY <1>2 DEF Reached
<1>6. x.id \in Nat /\ 0 < x.id /\ \A y \in changeLog : y.id \in Nat /\ y.id < x.id
  <2>1. \A y \in changeLog : y.id \in Nat /\ y.id <= lastId /\ y.id # req[r].id
    BY <1>1 DEF LogType, LocalInv, CommitInv, Entry
  <2>2. 0 < req[r].id
    BY <1>1 DEF LocalInv, CommitInv, LogType
  <2>3. QED
    BY <1>1, <2>1, <2>2 DEF LogType
<1>7. \A s \in Requests : req[s].hi \in Nat /\ req[s].hi < x.id
  <2> TAKE s \in Requests
  <2>1. req[s].hi \in Nat
    BY <1>1, RequestFacts DEF Request
  <2>2. Reached(req[s].hi)
    BY DEF CutsInv, CutInv
  <2>3. QED
    BY <1>6, <2>1, <2>2 DEF Reached
<1>8. ASSUME NEW s \in Requests PROVE CutInv(req[s])'
  <2>1. req'[s].last = req[s].last /\ req'[s].hi = req[s].hi
    BY <1>3, <1>4
  <2>2. Reached(req[s].last)' /\ Reached(req[s].hi)'
    BY <1>2, <2>1 DEF CutsInv, CutInv, Reached
  <2>3. ASSUME req'[s].pc = "save" PROVE FALSE
    BY <1>1, <1>3, <1>4, <2>3 DEF SerialInv, Running
  <2>4. ASSUME req'[s].pc = "answered", NEW y \in changeLog',
               req'[s].last < y.id, y.id <= req'[s].hi
        PROVE  y.id \in req'[s].reply
    <3>1. s # r /\ req'[s] = req[s]
      BY <1>3, <1>4, <2>4
    <3>2. y # x
      BY <1>6, <1>7, <2>4, <3>1
    <3>3. y \in changeLog
      BY <1>2, <3>2
    <3>4. QED
      BY <2>4, <3>1, <3>3 DEF CutsInv, CutInv
  <2>5. QED
    BY <2>2, <2>3, <2>4 DEF CutInv
<1>9. held' = held
  BY DEF AppendCommit, devices
<1>10. \A d \in Devices : Reached(held[d])'
  BY <1>5, <1>9 DEF CutsInv, Reached
<1>11. QED
  BY <1>8, <1>10 DEF CutsInv

\* The reply is the log above the checkpoint up to its last entry.
LEMMA CutRead ==
    ASSUME IInv, CutsInv, NEW r \in Requests, Read(r) \/ ReadBreaksOff(r)
    PROVE  CutsInv'
<1> DEFINE last == req[r].last
<1>0. PICK ids \in SUBSET Newer(r) : ReadsUpTo(r, ids)
  BY ReadFacts DEF IInv
<1>1. /\ TypeOK /\ req[r] \in Request /\ changeLog \subseteq Entry /\ last \in Nat
      /\ UNCHANGED <<changeLog, held>>
  BY <1>0, RequestFacts DEF IInv, TypeOK, LogType, ReadsUpTo, Reply, Request, database, devices
<1>2. PICK hi \in ids \cup {last} :
          /\ \A i \in ids \cup {last} : i <= hi
          /\ Become(r, [req[r] EXCEPT !.pc = "save", !.reply = ids, !.hi = hi])
  BY <1>0 DEF ReadsUpTo, Reply
<1> DEFINE q == [req[r] EXCEPT !.pc = "save", !.reply = ids, !.hi = hi]
<1>3. q.pc = "save" /\ q.reply = ids /\ q.hi = hi /\ q.last = last
  BY <1>1 DEF Request
<1>4. req'[r] = q /\ \A s \in Requests \ {r} : req'[s] = req[s]
  BY <1>1, <1>2, BecomeFacts
<1> HIDE DEF q
<1>5. \A x \in changeLog : x.id \in Nat
  BY <1>1 DEF Entry
<1>6. hi \in Nat /\ (hi = last \/ \E x \in changeLog : x.id = hi)
  BY <1>0, <1>1, <1>2, <1>5 DEF Newer
<1>7. ASSUME NEW x \in changeLog, last < x.id, x.id <= hi PROVE x.id \in ids
  <2>1. x.id \in Newer(r)
    BY <1>1, <1>5, <1>7 DEF Newer
  <2>2. hi \in ids
    BY <1>1, <1>2, <1>5, <1>6, <1>7
  <2>3. QED
    BY <1>0, <1>7, <2>1, <2>2 DEF ReadsUpTo
<1>8. Reached(last) /\ Reached(hi)
  <2>1. Reached(last)
    BY DEF CutsInv, CutInv
  <2>2. QED
    BY <1>6, <2>1 DEF Reached
<1>9. CutInv(req[r])'
  BY <1>1, <1>3, <1>4, <1>7, <1>8 DEF CutInv, Reached
<1>10. \A s \in Requests \ {r} : CutInv(req[s])'
  BY <1>1, <1>4 DEF CutsInv, CutInv, Reached
<1>11. \A d \in Devices : Reached(held[d])'
  BY <1>1 DEF CutsInv, Reached
<1>12. QED
  BY <1>9, <1>10, <1>11 DEF CutsInv

LEMMA CutSave ==
    ASSUME IInv, CutsInv, NEW r \in Requests, UpdateCheckpoint(r)
    PROVE  CutsInv'
<1> DEFINE q == [req[r] EXCEPT !.pc = "answered"]
<1>1. TypeOK /\ req[r] \in Request /\ req[r].hi \in Nat /\ req[r].pc = "save"
  BY RequestFacts DEF IInv, Request, UpdateCheckpoint
<1>2. /\ q.pc = "answered" /\ q.last = req[r].last /\ q.hi = req[r].hi
      /\ q.reply = req[r].reply
  BY <1>1 DEF Request
<1>3. Become(r, q) /\ UNCHANGED <<changeLog, held>>
  BY DEF UpdateCheckpoint, devices
<1> HIDE DEF q
<1>4. QED
  BY <1>1, <1>2, <1>3, CutMove DEF SameCut

\* A request comes with a checkpoint its device has saved, and a device saves what
\* it was answered.
LEMMA CutDevice ==
    ASSUME IInv, CutsInv, NEW r \in Requests,
           (\E d \in Devices : Receive(r, d)) \/ Deliver(r) \/ Drop(r)
    PROVE  CutsInv'
<1>1. TypeOK /\ changeLog' = changeLog
  BY DEF IInv, Receive, Deliver, Drop, database
<1>3. Reached(0)
  BY DEF Reached
<1>4. ASSUME NEW d \in Devices, Receive(r, d) PROVE CutsInv'
  <2>1. PICK last \in {0, held[d]}, t \in 1..(now + MaxSkew),
             batch \in SUBSET (1..Len(changes)) :
            Become(r, [Idle EXCEPT !.pc = "select", !.device = d, !.last = last,
                                   !.sentAt = t, !.batch = batch, !.todo = batch])
    BY <1>1, <1>4, ReceiveFacts
  <2> DEFINE q == [Idle EXCEPT !.pc = "select", !.device = d, !.last = last,
                               !.sentAt = t, !.batch = batch, !.todo = batch]
  <2>2. q.pc = "select" /\ q.last = last /\ q.hi = 0
    BY DEF Idle
  <2> HIDE DEF q
  <2>3. SameCut(req[r], q)
    BY <1>3, <2>2 DEF SameCut, CutsInv
  <2>4. Become(r, q) /\ held' = held
    BY <1>4, <2>1 DEF Receive, devices, q
  <2>5. QED
    BY <1>1, <2>3, <2>4, CutMove
<1>5. CASE Deliver(r) \/ Drop(r)
  <2>1. req'[r] = Idle /\ \A s \in Requests \ {r} : req'[s] = req[s]
    BY <1>1, <1>5, BecomeFacts DEF Deliver, Drop
  <2>2. Idle.pc = "idle" /\ Idle.last = 0 /\ Idle.hi = 0
    BY DEF Idle
  <2>3. \A s \in Requests : SameCut(req[s], req'[s])
    BY <1>3, <2>1, <2>2 DEF SameCut
  <2>4. \A d \in Devices : held'[d] \in {held[d], req[r].hi}
    <3>1. held \in [Devices -> Nat]
      BY <1>1 DEF TypeOK
    <3>2. CASE held' = held
      BY <3>2
    <3>3. CASE held' = [held EXCEPT ![req[r].device] = req[r].hi]
      BY <3>1, <3>3
    <3>4. QED
      BY <1>5, <3>2, <3>3 DEF Deliver, Drop, devices
  <2>5. QED
    BY <1>1, <2>3, <2>4, CutSame
<1>6. QED
  BY <1>4, <1>5

LEMMA CutRest ==
    ASSUME IInv, CutsInv, UNCHANGED <<changeLog, held>>,
           \A r \in Requests : req'[r] = req[r] \/ req'[r] = [req[r] EXCEPT !.pc = "failed"]
    PROVE  CutsInv'
<1>1. \A r \in Requests : SameCut(req[r], req'[r])
  <2> TAKE r \in Requests
  <2>1. req[r] \in Request
    BY RequestFacts DEF IInv
  <2>2. QED
    BY <2>1 DEF SameCut, Request
<1>2. QED
  BY <1>1, CutSame

LEMMA CutNext ==
    ASSUME IInv, SerialInv, CutsInv, [Next]_vars
    PROVE  CutsInv'
<1>1. ASSUME NEW r \in Requests, Sync(r) \/ ReadBreaksOff(r) \/ StatementFails(r) PROVE CutsInv'
  BY <1>1, CutStatements, CutCommit, CutRead, CutSave DEF Sync
<1>2. ASSUME NEW r \in Requests, (\E d \in Devices : Receive(r, d)) \/ Deliver(r) \/ Drop(r)
      PROVE  CutsInv'
  BY <1>2, CutDevice
<1>3. CASE Crash
  BY <1>3, CutRest DEF Crash, database, devices
<1>4. CASE Tick \/ UNCHANGED vars
           \/ \E d \in Devices, e \in Edited, a \in {"upsert", "delete"} : MakeChange(d, e, a)
  BY <1>4, CutRest DEF Tick, vars, MakeChange, database, devices
<1>5. QED
  BY <1>1, <1>2, <1>3, <1>4 DEF Next, DeviceStep

LEMMA CutInit == Init => CutsInv
<1> SUFFICES ASSUME Init PROVE CutsInv
  OBVIOUS
<1>1. Idle.pc = "idle" /\ Idle.last = 0 /\ Idle.hi = 0
  BY DEF Idle
<1>2. QED
  BY <1>1 DEF Init, CutsInv, CutInv, Reached

LEMMA SerialInvariance ==
    ASSUME OneAtATime
    PROVE  Spec => [](IInv /\ SerialInv /\ CutsInv)
<1>1. IInv /\ SerialInv /\ CutsInv /\ [Next]_vars => SerialInv' /\ CutsInv'
  BY NextFeed, CutNext
<1>2. QED
  BY <1>1, InitFeed, CutInit, Invariance, PTL DEF Spec

\* Requests served one at a time get every entry between their two checkpoints,
\* those answered earlier and still on their way to a client included, and those
\* whose rows broke off.
THEOREM RepliesAreComplete ==
    ASSUME OneAtATime
    PROVE  Spec => []NothingSkipped
<1>1. IInv /\ CutsInv => NothingSkipped
  BY DEF CutsInv, CutInv, NothingSkipped
<1>2. QED
  BY <1>1, SerialInvariance, PTL

-----------------------------------------------------------------------------
(* The last writer wins, as long as no device's clock is ahead *)

\* The client timestamp of a running request is past, its write is stamped no
\* earlier, and the row it is about to overwrite is older than that.
ClockInv(q) ==
    q.pc \in Running =>
        /\ q.sentAt <= now
        /\ q.pc \in {"update", "create"} => q.sentAt <= q.stamp
        /\ q.pc = "update" =>
              \A n \in q.todo : HeadOf(q, n) => rows[changes[n].entity].updatedAt < q.sentAt

ClocksInv ==
    /\ \A r \in Requests : ClockInv(req[r])
    /\ \A e \in Entities : rows[e].sentAt <= rows[e].updatedAt

\* No row is written, and a request goes on without one in hand, or ends.
LEMMA ClockSame ==
    ASSUME IInv, ClocksInv, rows' = rows, Len(changes) <= Len(changes'), now' \in Nat, now <= now',
           \A n \in 1..Len(changes) : changes'[n] = changes[n],
           \A r \in Requests :
               \/ req'[r] = req[r] \/ req'[r].pc \notin Running
               \/ req'[r].pc \notin {"update", "create"} /\ req'[r].sentAt \in 0..now
    PROVE  ClocksInv'
<1>1. TypeOK /\ now \in Nat
  BY DEF IInv, TypeOK
<1>2. ASSUME NEW r \in Requests PROVE ClockInv(req[r])'
  <2>1. ClockInv(req[r]) /\ req[r] \in Request
    BY <1>1, RequestFacts DEF ClocksInv
  <2>2. CASE req'[r].pc \notin Running
    BY <2>2 DEF ClockInv
  <2>3. CASE req'[r].pc \notin {"update", "create"} /\ req'[r].sentAt \in 0..now
    BY <1>1, <2>3 DEF ClockInv
  <2>4. CASE req'[r] = req[r]
    <3>1. req[r].sentAt \in Nat /\ \A n \in req[r].todo : n \in 1..Len(changes)
      BY <1>1, <2>1, RequestFacts DEF Request
    <3>2. \A n \in req[r].todo : changes'[n] = changes[n]
      BY <3>1
    <3>3. QED
      BY <1>1, <2>1, <2>4, <3>1, <3>2 DEF ClockInv, HeadOf
  <2>5. QED
    BY <2>2, <2>3, <2>4
<1>3. \A e \in Entities : rows'[e].sentAt <= rows'[e].updatedAt
  BY DEF ClocksInv
<1>4. QED
  BY <1>2, <1>3 DEF ClocksInv

\* The statements that write no row.
LEMMA ClockStatements ==
    ASSUME IInv, ClocksInv, NEW r \in Requests,
           \/ SelectCheckpoint(r) \/ InsertCheckpoint(r) \/ AppendBegin(r) \/ AppendCommit(r)
           \/ AppendRefused(r) \/ Read(r) \/ ReadBreaksOff(r) \/ UpdateCheckpoint(r)
           \/ StatementFails(r)
    PROVE  ClocksInv'
<1>1. TypeOK /\ req[r] \in Request /\ now \in Nat /\ req[r].pc \in Running /\ ClockInv(req[r])
  BY RequestFacts DEF IInv, TypeOK, ClocksInv, Running, SelectCheckpoint, InsertCheckpoint,
     AppendBegin, AppendCommit, AppendRefused, Read, ReadBreaksOff, Reply, UpdateCheckpoint,
     StatementFails
<1>2. rows' = rows /\ changes' = changes /\ now' = now
  BY DEF SelectCheckpoint, InsertCheckpoint, AppendBegin, AppendCommit, AppendRefused, Read,
         ReadBreaksOff, Reply, UpdateCheckpoint, StatementFails, database, devices
<1>3. req[r].sentAt \in Nat /\ req[r].sentAt <= now
  BY <1>1 DEF ClockInv, Request
<1>4. ASSUME NEW q, Become(r, q), q.sentAt = req[r].sentAt, q.pc \notin {"update", "create"}
      PROVE  ClocksInv'
  <2>1. req'[r] = q /\ \A s \in Requests \ {r} : req'[s] = req[s]
    BY <1>1, <1>4, BecomeFacts
  <2>2. QED
    BY <1>1, <1>2, <1>3, <1>4, <2>1, ClockSame DEF TypeOK
<1>5. ASSUME NEW pc, pc \notin {"update", "create"}, Become(r, [req[r] EXCEPT !.pc = pc])
      PROVE  ClocksInv'
  BY <1>1, <1>4, <1>5 DEF Request
<1>6. CASE SelectCheckpoint(r) \/ InsertCheckpoint(r)
  BY <1>5, <1>6 DEF SelectCheckpoint, InsertCheckpoint, LoopHead, Fail
<1>7. CASE AppendRefused(r) \/ UpdateCheckpoint(r) \/ StatementFails(r)
  BY <1>5, <1>7 DEF AppendRefused, UpdateCheckpoint, StatementFails, Fail
<1>8. CASE AppendBegin(r)
  <2> DEFINE q == [req[r] EXCEPT !.pc = "commit", !.id = lastId + 1]
  <2>1. Become(r, q) /\ q.sentAt = req[r].sentAt /\ q.pc = "commit"
    BY <1>1, <1>8 DEF AppendBegin, Request
  <2> HIDE DEF q
  <2>2. QED
    BY <1>4, <2>1
<1>9. CASE AppendCommit(r)
  <2>1. PICK n \in req[r].todo :
            Become(r, [req[r] EXCEPT !.pc = LoopHead(req[r].todo \ {n}),
                                     !.todo = @ \ {n}, !.stamp = 0, !.id = 0])
    BY <1>9, AppendCommitFacts
  <2> DEFINE q == [req[r] EXCEPT !.pc = LoopHead(req[r].todo \ {n}),
                                 !.todo = @ \ {n}, !.stamp = 0, !.id = 0]
  <2>2. q.sentAt = req[r].sentAt /\ q.pc \in {"read", "find"}
    BY <1>1 DEF Request, LoopHead
  <2> HIDE DEF q
  <2>3. Become(r, q)
    BY <2>1 DEF q
  <2>4. QED
    BY <1>4, <2>2, <2>3
<1>10. CASE Read(r) \/ ReadBreaksOff(r)
  <2>1. PICK ids, hi : Become(r, [req[r] EXCEPT !.pc = "save", !.reply = ids, !.hi = hi])
    BY <1>10 DEF Read, ReadBreaksOff, Reply
  <2> DEFINE q == [req[r] EXCEPT !.pc = "save", !.reply = ids, !.hi = hi]
  <2>2. Become(r, q) /\ q.sentAt = req[r].sentAt /\ q.pc = "save"
    BY <1>1, <2>1 DEF Request
  <2> HIDE DEF q
  <2>3. QED
    BY <1>4, <2>2
<1>11. QED
  BY <1>6, <1>7, <1>8, <1>9, <1>10

\* The stamp is taken with the decision.
LEMMA ClockFind ==
    ASSUME IInv, ClocksInv, NEW r \in Requests, Find(r)
    PROVE  ClocksInv'
<1>1. /\ TypeOK /\ req[r] \in Request /\ now \in Nat /\ req[r].pc \in Running
      /\ ClockInv(req[r]) /\ req[r].sentAt \in Nat
  BY RequestFacts DEF IInv, TypeOK, ClocksInv, Running, Find, Request
<1>2. UNCHANGED <<rows, changes, now>>
  BY DEF Find, database, devices
<1>3. PICK n \in req[r].todo, pc \in {"create", "append", "delete", "update"},
           lost \in BOOLEAN :
          /\ Current(r, n)
          /\ pc = Decision(changes[n].action, rows[changes[n].entity], req[r].sentAt)
          /\ Become(r, [req[r] EXCEPT !.pc = pc, !.lost = lost, !.stamp = now])
  BY FindFacts
<1> DEFINE q == [req[r] EXCEPT !.pc = pc, !.lost = lost, !.stamp = now]
<1>4. q.pc = pc /\ q.sentAt = req[r].sentAt /\ q.stamp = now /\ q.todo = req[r].todo
  BY <1>1 DEF Request
<1>5. req'[r] = q /\ \A s \in Requests \ {r} : req'[s] = req[s]
  BY <1>1, <1>3, BecomeFacts
<1> HIDE DEF q
<1>6. \A m \in q.todo : HeadOf(q, m) => m = n
  <2>1. \A m \in q.todo : m \in Nat
    BY <1>1, <1>4 DEF Request
  <2>2. n \in q.todo /\ \A m \in q.todo : n <= m
    BY <1>3, <1>4 DEF Current
  <2>3. QED
    BY <2>1, <2>2 DEF HeadOf
<1>7. pc = "update" => rows[changes[n].entity].updatedAt < req[r].sentAt
  <2>1. rows[changes[n].entity].updatedAt \in Nat
    BY <1>1, RequestFacts DEF TypeOK, TablesType, Row, Change
  <2>2. pc = "update" => req[r].sentAt > rows[changes[n].entity].updatedAt
    BY <1>3 DEF Decision
  <2>3. QED
    BY <1>1, <2>1, <2>2
<1>8. ClockInv(req[r])'
  BY <1>1, <1>2, <1>4, <1>5, <1>6, <1>7 DEF ClockInv
<1>9. \A s \in Requests \ {r} : ClockInv(req[s])'
  BY <1>2, <1>5 DEF ClocksInv, ClockInv, HeadOf
<1>10. \A e \in Entities : rows'[e].sentAt <= rows'[e].updatedAt
  BY <1>2 DEF ClocksInv
<1>11. QED
  BY <1>8, <1>9, <1>10 DEF ClocksInv

\* A request that is running runs alone.
LEMMA Alone ==
    ASSUME SerialInv, NEW r \in Requests, req[r].pc \in Running
    PROVE  \A s \in Requests \ {r} : req[s].pc \notin Running
BY DEF SerialInv

\* A row is written from one request, and shows a timestamp not later than its stamp.
LEMMA ClockWrite ==
    ASSUME IInv, SerialInv, ClocksInv, NEW r \in Requests, Update(r) \/ Create(r) \/ Delete(r)
    PROVE  ClocksInv'
<1>1. /\ TypeOK /\ req[r] \in Request /\ now \in Nat /\ req[r].pc \in Running
      /\ ClockInv(req[r]) /\ req[r].sentAt \in Nat /\ req[r].stamp \in Nat
      /\ rows \in [Entities -> Row]
  BY RequestFacts DEF IInv, TypeOK, TablesType, ClocksInv, Running, Update, Create, Delete, Request
<1>2. UNCHANGED <<changes, now>>
  BY DEF Update, Create, Delete, devices
<1>3. PICK pc \in {"append", "failed"} : Become(r, [req[r] EXCEPT !.pc = pc])
  BY DEF Update, Create, Delete, Fail
<1> DEFINE q == [req[r] EXCEPT !.pc = pc]
<1>4. q.pc = pc /\ q.sentAt = req[r].sentAt
  BY <1>1 DEF Request
<1>5. req'[r] = q /\ \A s \in Requests \ {r} : req'[s] = req[s]
  BY <1>1, <1>3, BecomeFacts
<1> HIDE DEF q
<1>6. ClockInv(req[r])'
  BY <1>1, <1>2, <1>4, <1>5 DEF ClockInv
<1>7. \A s \in Requests \ {r} : ClockInv(req[s])'
  BY <1>1, <1>5, Alone DEF ClockInv
<1>8. ASSUME NEW e \in Entities PROVE rows'[e].sentAt <= rows'[e].updatedAt
  <2>1. rows[e].sentAt <= rows[e].updatedAt
    BY DEF ClocksInv
  <2>2. CASE rows' = rows
    BY <2>1, <2>2
  <2>3. ASSUME NEW n \in req[r].todo, Write(r, n), req[r].sentAt <= req[r].stamp
        PROVE  rows'[e].sentAt <= rows'[e].updatedAt
    BY <1>1, <2>1, <2>3 DEF Write
  <2>4. ASSUME NEW n \in req[r].todo,
               rows' = [rows EXCEPT ![changes[n].entity] =
                            IF changes[n].entity \in Transactions THEN Tombstone(r, n) ELSE Absent]
        PROVE  rows'[e].sentAt <= rows'[e].updatedAt
    <3>1. req[r].sentAt <= now
      BY <1>1 DEF ClockInv
    <3>2. /\ Tombstone(r, n).sentAt <= Tombstone(r, n).updatedAt
          /\ Absent.sentAt <= Absent.updatedAt
      BY <3>1 DEF Tombstone, Absent
    <3>3. rows'[e] = rows[e] \/ rows'[e] = Tombstone(r, n) \/ rows'[e] = Absent
      BY <1>1, <2>4
    <3>4. QED
      BY <2>1, <3>2, <3>3
  <2>5. CASE Update(r) \/ Create(r)
    <3>1. req[r].sentAt <= req[r].stamp
      BY <1>1, <2>5 DEF ClockInv, Update, Create
    <3>2. QED
      BY <2>2, <2>3, <2>5, <3>1 DEF Update, Create
  <2>6. CASE Delete(r)
    BY <2>2, <2>4, <2>6 DEF Delete
  <2>7. QED
    BY <2>5, <2>6
<1>9. QED
  BY <1>6, <1>7, <1>8 DEF ClocksInv

LEMMA ClockReceive ==
    ASSUME MaxSkew = 0, IInv, ClocksInv, NEW r \in Requests, NEW d \in Devices, Receive(r, d)
    PROVE  ClocksInv'
<1>1. TypeOK /\ now \in Nat
  BY DEF IInv, TypeOK
<1>2. UNCHANGED <<rows, changes, now>>
  BY DEF Receive, database, devices
<1>3. PICK last \in {0, held[d]}, t \in 1..(now + MaxSkew), batch \in SUBSET (1..Len(changes)) :
          Become(r, [Idle EXCEPT !.pc = "select", !.device = d, !.last = last,
                                 !.sentAt = t, !.batch = batch, !.todo = batch])
  BY <1>1, ReceiveFacts
<1> DEFINE q == [Idle EXCEPT !.pc = "select", !.device = d, !.last = last,
                             !.sentAt = t, !.batch = batch, !.todo = batch]
<1>4. q.pc = "select" /\ q.sentAt = t
  BY DEF Idle
<1>5. req'[r] = q /\ \A s \in Requests \ {r} : req'[s] = req[s]
  BY <1>1, <1>3, BecomeFacts
<1> HIDE DEF q
<1>6. t \in 0..now
  BY <1>1, <1>3
<1>7. QED
  BY <1>1, <1>2, <1>4, <1>5, <1>6, ClockSame DEF TypeOK

LEMMA ClockNext ==
    ASSUME MaxSkew = 0, IInv, SerialInv, ClocksInv, [Next]_vars
    PROVE  ClocksInv'
<1>1. TypeOK /\ now \in Nat /\ changes \in Seq(Change)
  BY DEF IInv, TypeOK
<1>2. ASSUME NEW r \in Requests, Sync(r) \/ ReadBreaksOff(r) \/ StatementFails(r) PROVE ClocksInv'
  BY <1>2, ClockStatements, ClockFind, ClockWrite DEF Sync
<1>3. ASSUME NEW r \in Requests, NEW d \in Devices, Receive(r, d) PROVE ClocksInv'
  BY <1>3, ClockReceive
<1>4. ASSUME NEW r \in Requests, Deliver(r) \/ Drop(r) PROVE ClocksInv'
  <2>1. Idle.pc \notin Running
    BY DEF Idle, Running
  <2>2. req'[r] = Idle /\ \A s \in Requests \ {r} : req'[s] = req[s]
    BY <1>1, <1>4, BecomeFacts DEF Deliver, Drop
  <2>3. UNCHANGED <<rows, changes, now>>
    BY <1>4 DEF Deliver, Drop, database, devices
  <2>4. QED
    BY <1>1, <2>1, <2>2, <2>3, ClockSame
<1>5. CASE Crash
  <2>1. UNCHANGED <<rows, changes, now>>
    BY <1>5 DEF Crash, database, devices
  <2>2. ASSUME NEW r \in Requests PROVE req'[r] = req[r] \/ req'[r].pc \notin Running
    <3>1. req[r] \in Request
      BY <1>1, RequestFacts
    <3>2. req'[r] = req[r] \/ req'[r] = [req[r] EXCEPT !.pc = "failed"]
      BY <1>5 DEF Crash
    <3>3. QED
      BY <3>1, <3>2 DEF Request, Running
  <2>3. QED
    BY <1>1, <2>1, <2>2, ClockSame
<1>6. ASSUME NEW d \in Devices, NEW e \in Edited, NEW a \in {"upsert", "delete"}, MakeChange(d, e, a)
      PROVE  ClocksInv'
  <2>1. UNCHANGED <<rows, req, now>>
    BY <1>6 DEF MakeChange, database
  <2>2. Len(changes) <= Len(changes') /\ \A n \in 1..Len(changes) : changes'[n] = changes[n]
    BY <1>1, <1>6, MakeChangeFacts
  <2>3. QED
    BY <1>1, <2>1, <2>2, ClockSame
<1>7. CASE Tick \/ UNCHANGED vars
  <2>1. UNCHANGED <<rows, req, changes>> /\ now' \in {now, now + 1}
    BY <1>7 DEF Tick, vars, database, devices
  <2>2. QED
    BY <1>1, <2>1, ClockSame
<1>8. QED
  BY <1>2, <1>3, <1>4, <1>5, <1>6, <1>7 DEF Next, DeviceStep

LEMMA ClockInit == Init => ClocksInv
<1> SUFFICES ASSUME Init PROVE ClocksInv
  OBVIOUS
<1>1. Idle.pc \notin Running
  BY DEF Idle, Running
<1>2. \A r \in Requests : ClockInv(req[r])
  BY <1>1 DEF Init, ClockInv
<1>3. /\ Absent.sentAt = 0 /\ Absent.updatedAt = 0
      /\ [Absent EXCEPT !.state = "live"].sentAt = 0
      /\ [Absent EXCEPT !.state = "live"].updatedAt = 0
  BY DEF Absent
<1>4. \A e \in Entities : rows[e].sentAt <= rows[e].updatedAt
  BY <1>3 DEF Init
<1>5. QED
  BY <1>2, <1>4 DEF ClocksInv

\* A live row is replaced by Update alone.
LEMMA WriterStep ==
    ASSUME IInv, ClocksInv, [Next]_vars, NEW e \in Entities, rows[e].state = "live",
           rows'[e].state = "live", rows'[e].change # rows[e].change
    PROVE  rows'[e].sentAt >= rows[e].sentAt
<1>1. TypeOK /\ rows \in [Entities -> Row] /\ rows[e] \in Row
  BY DEF IInv, TypeOK, TablesType
<1>2. rows' # rows
  OBVIOUS
<1>3. PICK r \in Requests : Update(r) \/ Create(r) \/ Delete(r)
  <2>1. ASSUME NEW r \in Requests,
               \/ SelectCheckpoint(r) \/ InsertCheckpoint(r) \/ AppendBegin(r) \/ AppendCommit(r)
               \/ AppendRefused(r) \/ Read(r) \/ ReadBreaksOff(r) \/ UpdateCheckpoint(r)
               \/ StatementFails(r) \/ Find(r)
        PROVE  FALSE
    BY <1>2, <2>1 DEF SelectCheckpoint, InsertCheckpoint, AppendBegin, AppendCommit,
         AppendRefused, Read, ReadBreaksOff, Reply, UpdateCheckpoint, StatementFails, Find, database
  <2>2. ~ (DeviceStep \/ Crash \/ Tick \/ UNCHANGED vars)
    BY <1>2 DEF DeviceStep, MakeChange, Receive, Deliver, Drop, Crash, Tick, vars, database
  <2>3. QED
    BY <2>1, <2>2 DEF Next, Sync
<1>4. req[r] \in Request /\ req[r].sentAt \in Nat /\ ClockInv(req[r])
  BY <1>1, RequestFacts DEF Request, ClocksInv
<1>5. CASE Update(r)
  <2>1. PICK n \in req[r].todo : Current(r, n) /\ Write(r, n)
    BY <1>2, <1>5 DEF Update
  <2>2. e = changes[n].entity /\ rows'[e].sentAt = req[r].sentAt
    BY <1>1, <2>1 DEF Write
  <2>3. req[r].pc \in Running /\ req[r].pc = "update" /\ HeadOf(req[r], n)
    BY <1>5, <2>1 DEF Update, Running, Current, HeadOf
  <2>4. rows[e].updatedAt < req[r].sentAt
    BY <1>4, <2>2, <2>3 DEF ClockInv
  <2>5. rows[e].sentAt <= rows[e].updatedAt /\ rows[e].sentAt \in Nat /\ rows[e].updatedAt \in Nat
    BY <1>1 DEF ClocksInv, Row
  <2>6. QED
    BY <1>4, <2>2, <2>4, <2>5
<1>6. CASE Create(r)
  <2>1. PICK n \in req[r].todo : Insertable(changes[n].entity) /\ Write(r, n)
    BY <1>2, <1>6 DEF Create
  <2>2. e = changes[n].entity
    BY <1>1, <2>1 DEF Write
  <2>3. QED
    BY <2>1, <2>2 DEF Insertable
<1>7. CASE Delete(r)
  <2>1. PICK n \in req[r].todo :
            rows' = [rows EXCEPT ![changes[n].entity] =
                         IF changes[n].entity \in Transactions THEN Tombstone(r, n) ELSE Absent]
    BY <1>2, <1>7 DEF Delete
  <2>2. rows'[e] = rows[e] \/ rows'[e] = Tombstone(r, n) \/ rows'[e] = Absent
    BY <1>1, <2>1
  <2>3. Tombstone(r, n).state = "deleted" /\ Absent.state = "none"
    BY DEF Tombstone, Absent
  <2>4. QED
    BY <2>2, <2>3
<1>8. QED
  BY <1>3, <1>5, <1>6, <1>7

\* With requests served one at a time and no clock ahead of the server's, comparing a
\* client timestamp with the server's updated_at does order the writers.
THEOREM LaterWriterWins ==
    ASSUME OneAtATime, MaxSkew = 0
    PROVE  Spec => LastWriterWins
<1>1. IInv /\ SerialInv /\ ClocksInv /\ [Next]_vars => ClocksInv'
  BY ClockNext
<1>2. IInv /\ ClocksInv /\ [Next]_vars =>
          [\A e \in Entities :
              rows[e].state = "live" /\ rows'[e].state = "live"
                  /\ rows'[e].change # rows[e].change
              => rows'[e].sentAt >= rows[e].sentAt]_vars
  BY WriterStep
<1>3. QED
  BY <1>1, <1>2, SerialInvariance, ClockInit, PTL DEF Spec, LastWriterWins

-----------------------------------------------------------------------------
(* The log reproduces the tables *)

\* A row is as the change leaves it: gone, or written from that very change.
Reflects(n) ==
    LET change == changes[n] row == rows[change.entity] IN
    IF change.action = "delete" THEN row.state # "live" ELSE row.state = "live" /\ row.change = n

\* The change a request has applied and is about to log.
Logs(q, n) == q.pc \in {"append", "commit"} /\ ~q.lost /\ HeadOf(q, n)

\* What a request is doing fits the change at hand.
Fits(q, n) ==
    HeadOf(q, n) =>
        /\ q.pc \in {"update", "create"} => changes[n].action = "upsert"
        /\ q.pc = "delete" => changes[n].action = "delete"
        /\ Logs(q, n) => Reflects(n)

\* The last entry of the entity agrees with its row.
Agreed(e) ==
    \A x \in EntriesOf(e) : (\A y \in EntriesOf(e) : y.id <= x.id) => Reflects(x.change)

AgreeInv ==
    /\ \A r \in Requests : \A n \in req[r].todo : Fits(req[r], n)
    /\ faults = 0 => \A e \in Entities :
           \/ Agreed(e)
           \/ \E r \in Requests : \E n \in req[r].todo :
                 Logs(req[r], n) /\ changes[n].entity = e

\* Neither rows nor log change, and what a request is about to log stays so.
LEMMA AgreeSame ==
    ASSUME IInv, AgreeInv, UNCHANGED <<rows, changeLog>>,
           \A n \in 1..Len(changes) : changes'[n] = changes[n],
           faults' = 0 => faults = 0,
           \A r \in Requests :
               req'[r].todo \subseteq 1..Len(changes) /\ \A n \in req'[r].todo : Fits(req'[r], n),
           faults' = 0 => \A r \in Requests : \A n \in req[r].todo :
               Logs(req[r], n) => n \in req'[r].todo /\ Logs(req'[r], n)
    PROVE  AgreeInv'
<1>1. TypeOK /\ \A x \in changeLog : x.change \in 1..Len(changes)
  BY DEF IInv, TypeOK, LogType
<1>2. \A n \in 1..Len(changes) : Reflects(n)' <=> Reflects(n)
  BY DEF Reflects
<1>3. ASSUME NEW r \in Requests, NEW n \in req'[r].todo PROVE Fits(req[r], n)'
  <2>1. Fits(req'[r], n) /\ n \in 1..Len(changes)
    OBVIOUS
  <2>2. changes'[n] = changes[n] /\ (Reflects(n)' <=> Reflects(n))
    BY <1>2, <2>1
  <2>3. QED
    BY <2>1, <2>2 DEF Fits, Logs, HeadOf
<1>4. \A e \in Entities : EntriesOf(e)' = EntriesOf(e)
  BY <1>1 DEF EntriesOf
<1>5. \A e \in Entities : Agreed(e) => Agreed(e)'
  BY <1>1, <1>2, <1>4 DEF Agreed, EntriesOf
<1>6. ASSUME faults' = 0, NEW e \in Entities, ~Agreed(e)'
      PROVE  \E r \in Requests : \E n \in req'[r].todo :
                 Logs(req'[r], n) /\ changes'[n].entity = e
  <2>1. PICK r \in Requests : \E n \in req[r].todo : Logs(req[r], n) /\ changes[n].entity = e
    BY <1>5, <1>6 DEF AgreeInv
  <2>2. PICK n \in req[r].todo : Logs(req[r], n) /\ changes[n].entity = e
    BY <2>1
  <2>3. n \in req'[r].todo /\ Logs(req'[r], n)
    BY <1>6, <2>2
  <2>4. changes'[n] = changes[n]
    BY <1>1, RequestFacts
  <2>5. QED
    BY <2>2, <2>3, <2>4
<1>7. \A r \in Requests : \A n \in req'[r].todo : Logs(req'[r], n) <=> Logs(req[r], n)'
  BY DEF Logs, HeadOf
<1>8. QED
  BY <1>3, <1>6, <1>7 DEF AgreeInv

\* One request moves without applying or logging anything.
LEMMA AgreeMove ==
    ASSUME IInv, AgreeInv, NEW r \in Requests, NEW q, Become(r, q), q.todo \subseteq 1..Len(changes),
           UNCHANGED <<rows, changeLog, changes>>, faults' = 0 => faults = 0,
           \A n \in q.todo : Fits(q, n),
           faults' = 0 => \A n \in req[r].todo : Logs(req[r], n) => n \in q.todo /\ Logs(q, n)
    PROVE  AgreeInv'
<1>1. TypeOK
  BY DEF IInv
<1>2. req'[r] = q /\ \A s \in Requests \ {r} : req'[s] = req[s]
  BY <1>1, BecomeFacts
<1>3. \A s \in Requests : req[s].todo \subseteq 1..Len(changes)
  BY <1>1, RequestFacts
<1>4. ASSUME NEW s \in Requests
      PROVE  /\ req'[s].todo \subseteq 1..Len(changes)
             /\ \A n \in req'[s].todo : Fits(req'[s], n)
  BY <1>2, <1>3 DEF AgreeInv
<1>5. ASSUME faults' = 0, NEW s \in Requests, NEW n \in req[s].todo, Logs(req[s], n)
      PROVE  n \in req'[s].todo /\ Logs(req'[s], n)
  BY <1>2, <1>5
<1>6. QED
  BY <1>4, <1>5, AgreeSame

\* The request neither had nor has anything in hand.
LEMMA AgreeGo ==
    ASSUME IInv, AgreeInv, NEW r \in Requests, NEW pc,
           pc \notin {"update", "create", "delete", "append", "commit"},
           Become(r, [req[r] EXCEPT !.pc = pc]),
           UNCHANGED <<rows, changeLog, changes>>,
           \/ faults' # 0
           \/ faults' = faults /\ (req[r].pc \notin {"append", "commit"} \/ req[r].lost)
    PROVE  AgreeInv'
<1> DEFINE q == [req[r] EXCEPT !.pc = pc]
<1>1. req[r] \in Request /\ req[r].todo \subseteq 1..Len(changes)
  BY RequestFacts DEF IInv
<1>2. q.pc = pc /\ q.todo = req[r].todo
  BY <1>1 DEF Request
<1>3. Become(r, q)
  OBVIOUS
<1> HIDE DEF q
<1>4. \A n : Fits(q, n)
  BY <1>2 DEF Fits, Logs
<1>5. faults' = 0 => \A n \in req[r].todo : ~Logs(req[r], n)
  BY DEF Logs
<1>6. QED
  BY <1>1, <1>2, <1>3, <1>4, <1>5, AgreeMove

LEMMA AgreeStatements ==
    ASSUME IInv, AgreeInv, NEW r \in Requests,
           \/ SelectCheckpoint(r) \/ InsertCheckpoint(r) \/ AppendRefused(r)
           \/ UpdateCheckpoint(r) \/ StatementFails(r)
    PROVE  AgreeInv'
<1>1. UNCHANGED <<rows, changeLog, changes>>
  BY DEF SelectCheckpoint, InsertCheckpoint, AppendRefused, UpdateCheckpoint, StatementFails,
         database, devices
<1>2. CASE SelectCheckpoint(r) \/ InsertCheckpoint(r)
  BY <1>1, <1>2, AgreeGo DEF SelectCheckpoint, InsertCheckpoint, LoopHead, Fail
<1>3. CASE AppendRefused(r)
  BY <1>1, <1>3, AgreeGo DEF AppendRefused, Fail
<1>4. CASE UpdateCheckpoint(r)
  BY <1>1, <1>4, AgreeGo DEF UpdateCheckpoint
<1>5. CASE StatementFails(r)
  <2>1. faults' # 0
    BY <1>5 DEF StatementFails, Fault, IInv, TypeOK
  <2>2. QED
    BY <1>1, <1>5, <2>1, AgreeGo DEF StatementFails, Fail
<1>6. QED
  BY <1>2, <1>3, <1>4, <1>5

\* A delete goes straight to the log when its row is not live; other changes that do
\* are lost.
LEMMA AgreeFind ==
    ASSUME IInv, AgreeInv, NEW r \in Requests, Find(r)
    PROVE  AgreeInv'
<1>1. /\ TypeOK /\ req[r] \in Request /\ req[r].todo \subseteq 1..Len(changes)
      /\ req[r].pc = "find" /\ UNCHANGED <<rows, changeLog, changes, faults>>
  BY RequestFacts DEF IInv, Find, database, devices
<1>2. PICK n \in req[r].todo, pc \in {"create", "append", "delete", "update"},
           lost \in BOOLEAN :
          /\ Current(r, n)
          /\ pc = Decision(changes[n].action, rows[changes[n].entity], req[r].sentAt)
          /\ lost = Loses(changes[n].action, rows[changes[n].entity], req[r].sentAt)
          /\ Become(r, [req[r] EXCEPT !.pc = pc, !.lost = lost, !.stamp = now])
  BY FindFacts
<1> DEFINE q == [req[r] EXCEPT !.pc = pc, !.lost = lost, !.stamp = now]
<1>3. q.pc = pc /\ q.lost = lost /\ q.todo = req[r].todo
  BY <1>1 DEF Request
<1>4. Become(r, q)
  BY <1>2
<1> HIDE DEF q
<1>5. \A m \in q.todo : HeadOf(q, m) => m = n
  <2>1. \A m \in q.todo : m \in Nat
    BY <1>1, <1>3 DEF Request
  <2>2. n \in q.todo /\ \A m \in q.todo : n <= m
    BY <1>2, <1>3 DEF Current
  <2>3. QED
    BY <2>1, <2>2 DEF HeadOf
<1>6. /\ pc \in {"update", "create"} => changes[n].action = "upsert"
      /\ pc = "delete" => changes[n].action = "delete"
      /\ pc = "append" /\ ~lost => Reflects(n)
  <2>1. changes[n].action \in {"upsert", "delete"}
    BY <1>1, RequestFacts DEF Change
  <2>2. /\ req[r].sentAt \in Nat /\ rows[changes[n].entity].updatedAt \in Nat
    BY <1>1, RequestFacts DEF Request, TypeOK, TablesType, Row, Change
  <2> DEFINE action == changes[n].action
             row    == rows[changes[n].entity]
             later  == req[r].sentAt > row.updatedAt
  <2>3. /\ pc = Decision(action, row, req[r].sentAt) /\ lost = Loses(action, row, req[r].sentAt)
        /\ (req[r].sentAt <= row.updatedAt <=> ~later)
    BY <1>2, <2>2
  <2>4. Reflects(n) <=> IF action = "delete" THEN row.state # "live"
                        ELSE row.state = "live" /\ row.change = n
    BY DEF Reflects
  <2> HIDE DEF action, row
  <2>5. CASE row.state # "live" /\ action = "upsert"
    BY <2>3, <2>5 DEF Decision, action
  <2>6. CASE row.state # "live" /\ action = "delete"
    BY <2>3, <2>4, <2>6 DEF Decision, action
  <2>7. CASE row.state = "live" /\ action = "delete"
    BY <2>3, <2>7 DEF Decision, action
  <2>8. CASE row.state = "live" /\ action = "upsert"
    <3>1. pc = IF later THEN "update" ELSE "append"
      BY <2>3, <2>8 DEF Decision
    <3>2. lost <=> ~later
      BY <2>3, <2>8 DEF Loses
    <3>3. QED
      BY <2>8, <3>1, <3>2 DEF action
  <2>9. QED
    BY <2>1, <2>5, <2>6, <2>7, <2>8 DEF action
<1>7. \A m \in q.todo : Fits(q, m)
  BY <1>3, <1>5, <1>6 DEF Fits, Logs
<1>8. \A m \in req[r].todo : ~Logs(req[r], m)
  BY <1>1 DEF Logs
<1>9. QED
  BY <1>1, <1>3, <1>4, <1>7, <1>8, AgreeMove

\* The row changes and its entry is next.
LEMMA AgreeWrite ==
    ASSUME IInv, SerialInv, AgreeInv, NEW r \in Requests, Update(r) \/ Create(r) \/ Delete(r)
    PROVE  AgreeInv'
<1>1. /\ TypeOK /\ req[r] \in Request /\ req[r].todo \subseteq 1..Len(changes)
      /\ req[r].pc \in {"update", "create", "delete"} /\ req[r].pc \in Running
      /\ UNCHANGED <<changeLog, changes, faults>>
      /\ rows \in [Entities -> Row]
  BY RequestFacts DEF IInv, TypeOK, TablesType, Running, Update, Create, Delete, devices
<1>2. CASE Fail(r) /\ rows' = rows
  BY <1>1, <1>2, AgreeGo DEF Fail
<1>3. CASE ~(Fail(r) /\ rows' = rows)
  <2>1. PICK n \in req[r].todo :
            /\ Current(r, n)
            /\ Become(r, [req[r] EXCEPT !.pc = "append"])
            /\ \/ Write(r, n) /\ req[r].pc \in {"update", "create"}
               \/ /\ req[r].pc = "delete"
                  /\ rows' = [rows EXCEPT ![changes[n].entity] =
                        IF changes[n].entity \in Transactions THEN Tombstone(r, n) ELSE Absent]
    BY <1>1, <1>3 DEF Update, Create, Delete
  <2> DEFINE q == [req[r] EXCEPT !.pc = "append"]
             e == changes[n].entity
  <2>2. q.pc = "append" /\ q.todo = req[r].todo /\ q.lost = req[r].lost
    BY <1>1 DEF Request
  <2>3. req'[r] = q /\ \A s \in Requests \ {r} : req'[s] = req[s]
    BY <1>1, <2>1, BecomeFacts
  <2> HIDE DEF q
  <2>4. ~q.lost /\ HeadOf(q, n) /\ HeadOf(req[r], n) /\ \A m \in q.todo : HeadOf(q, m) => m = n
    <3>1. LocalInv(req[r])
      BY DEF IInv
    <3>2. ~q.lost
      BY <1>1, <2>2, <3>1 DEF LocalInv, LostInv
    <3>3. \A m \in q.todo : m \in Nat
      BY <1>1, <2>2 DEF Request
    <3>4. n \in q.todo /\ \A m \in q.todo : n <= m
      BY <2>1, <2>2 DEF Current
    <3>5. QED
      BY <2>2, <3>2, <3>3, <3>4 DEF HeadOf
  <2>5. e \in Entities /\ \A d \in Entities : d # e => rows'[d] = rows[d]
    BY <1>1, <2>1, RequestFacts DEF Write, Change
  <2>6. Reflects(n)'
    <3>1. Fits(req[r], n)
      BY DEF AgreeInv
    <3>2. CASE Write(r, n) /\ req[r].pc \in {"update", "create"}
      <4>1. rows'[e].state = "live" /\ rows'[e].change = n
        BY <1>1, <2>5, <3>2 DEF Write
      <4>2. changes[n].action = "upsert"
        BY <2>4, <3>1, <3>2 DEF Fits
      <4>3. QED
        BY <1>1, <4>1, <4>2 DEF Reflects
    <3>3. CASE /\ req[r].pc = "delete"
               /\ rows' = [rows EXCEPT ![e] = IF e \in Transactions THEN Tombstone(r, n) ELSE Absent]
      <4>1. rows'[e].state # "live"
        <5>1. Tombstone(r, n).state = "deleted" /\ Absent.state = "none"
          BY DEF Tombstone, Absent
        <5>2. rows'[e] \in {Tombstone(r, n), Absent}
          BY <1>1, <2>5, <3>3
        <5>3. QED
          BY <5>1, <5>2
      <4>2. changes[n].action = "delete"
        BY <2>4, <3>1, <3>3 DEF Fits
      <4>3. QED
        BY <1>1, <4>1, <4>2 DEF Reflects
    <3>4. QED
      BY <2>1, <3>2, <3>3
  <2>7. ASSUME NEW s \in Requests, NEW m \in req'[s].todo PROVE Fits(req[s], m)'
    <3>1. CASE s = r
      BY <2>2, <2>3, <2>4, <2>6, <3>1 DEF Fits, Logs, HeadOf
    <3>2. CASE s # r
      <4>1. req'[s] = req[s] /\ req[s].pc \notin Running
        BY <1>1, <2>3, <3>2, Alone
      <4>2. QED
        BY <4>1 DEF Fits, Logs, Running
    <3>3. QED
      BY <3>1, <3>2
  <2>8. ASSUME faults = 0, NEW d \in Entities, d # e PROVE Agreed(d)'
    <3>1. Agreed(d)
      <4>1. \A s \in Requests : \A m \in req[s].todo : ~Logs(req[s], m)
        BY <1>1, Alone DEF Logs, Running
      <4>2. QED
        BY <2>8, <4>1 DEF AgreeInv
    <3>2. EntriesOf(d)' = EntriesOf(d)
      BY <1>1 DEF EntriesOf
    <3>3. \A x \in EntriesOf(d) : Reflects(x.change)' <=> Reflects(x.change)
      BY <1>1, <2>5, <2>8 DEF Reflects, EntriesOf
    <3>4. QED
      BY <3>1, <3>2, <3>3 DEF Agreed
  <2>9. n \in req'[r].todo /\ Logs(req[r], n)' /\ changes'[n].entity = e
    BY <1>1, <2>2, <2>3, <2>4 DEF Logs, HeadOf
  <2>10. faults' = faults
    BY <1>1
  <2>11. QED
    BY <2>7, <2>8, <2>9, <2>10 DEF AgreeInv
<1>4. QED
  BY <1>2, <1>3

LEMMA AgreeBegin ==
    ASSUME IInv, AgreeInv, NEW r \in Requests, AppendBegin(r)
    PROVE  AgreeInv'
<1> DEFINE q == [req[r] EXCEPT !.pc = "commit", !.id = lastId + 1]
<1>1. /\ req[r] \in Request /\ req[r].todo \subseteq 1..Len(changes)
      /\ req[r].pc = "append" /\ UNCHANGED <<rows, changeLog, changes, faults>>
  BY RequestFacts DEF IInv, AppendBegin, devices
<1>2. q.pc = "commit" /\ q.todo = req[r].todo /\ q.lost = req[r].lost
  BY <1>1 DEF Request
<1>3. Become(r, q)
  BY DEF AppendBegin
<1> HIDE DEF q
<1>4. \A n : Logs(q, n) <=> Logs(req[r], n)
  BY <1>1, <1>2 DEF Logs, HeadOf
<1>5. \A n \in q.todo : Fits(q, n)
  BY <1>2, <1>4 DEF AgreeInv, Fits, HeadOf
<1>6. QED
  BY <1>1, <1>2, <1>3, <1>4, <1>5, AgreeMove

\* The new entry is the last of its entity, and agrees with the row.
LEMMA AgreeCommit ==
    ASSUME IInv, SerialInv, AgreeInv, NEW r \in Requests, AppendCommit(r)
    PROVE  AgreeInv'
<1>1. /\ TypeOK /\ req[r] \in Request /\ req[r].todo \subseteq 1..Len(changes)
      /\ req[r].pc = "commit" /\ req[r].pc \in Running
      /\ LocalInv(req[r]) /\ LogType /\ req[r].id = lastId
      /\ UNCHANGED <<rows, changes, faults>>
  BY RequestFacts DEF IInv, TypeOK, AppendCommit, Running, SerialInv, devices
<1>2. PICK n \in req[r].todo :
          /\ Current(r, n)
          /\ changeLog' = changeLog \cup {[id |-> req[r].id, change |-> n]}
          /\ Become(r, [req[r] EXCEPT !.pc = LoopHead(req[r].todo \ {n}),
                                      !.todo = @ \ {n}, !.stamp = 0, !.id = 0])
  BY AppendCommitFacts
<1> DEFINE x == [id |-> req[r].id, change |-> n]
           q == [req[r] EXCEPT !.pc = LoopHead(req[r].todo \ {n}), !.todo = @ \ {n},
                               !.stamp = 0, !.id = 0]
           e == changes[n].entity
<1>3. q.pc \in {"read", "find"}
  BY <1>1 DEF Request, LoopHead
<1>4. req'[r] = q /\ \A s \in Requests \ {r} : req'[s] = req[s]
  BY <1>1, <1>2, BecomeFacts
<1> HIDE DEF q
<1>5. x.id \in Nat /\ \A y \in changeLog : y.id \in Nat /\ y.id < x.id
  <2>1. \A y \in changeLog : y.id \in Nat /\ y.id <= lastId /\ y.id # req[r].id
    BY <1>1 DEF LogType, LocalInv, CommitInv, Entry
  <2>2. QED
    BY <1>1, <2>1 DEF LogType
<1>6. HeadOf(req[r], n) /\ \A m \in req[r].todo : HeadOf(req[r], m) => m = n
  <2>1. \A m \in req[r].todo : m \in Nat
    BY <1>1 DEF Request
  <2>2. QED
    BY <1>2, <2>1 DEF Current, HeadOf
<1>7. Reflects(n)'
  <2>1. Logs(req[r], n)
    BY <1>1, <1>6 DEF Logs, LocalInv, LostInv
  <2>2. Reflects(n)
    BY <1>6, <2>1 DEF AgreeInv, Fits
  <2>3. QED
    BY <1>1, <2>2 DEF Reflects
<1>8. ASSUME NEW s \in Requests, NEW m \in req'[s].todo PROVE Fits(req[s], m)'
  <2>1. req'[s].pc \notin {"update", "create", "delete", "append", "commit"}
    BY <1>1, <1>3, <1>4, Alone DEF Running
  <2>2. QED
    BY <2>1 DEF Fits, Logs
<1>9. ASSUME faults = 0, NEW d \in Entities PROVE Agreed(d)'
  <2>1. CASE d = e
    <3>1. x \in EntriesOf(d)' /\ EntriesOf(d)' \subseteq changeLog'
      BY <1>1, <1>2, <2>1 DEF EntriesOf
    <3>2. ASSUME NEW y \in EntriesOf(d)', \A z \in EntriesOf(d)' : z.id <= y.id
          PROVE  Reflects(y.change)'
      <4>1. x.id <= y.id /\ y \in changeLog'
        BY <3>1, <3>2
      <4>2. y = x
        BY <1>2, <1>5, <4>1
      <4>3. QED
        BY <1>7, <4>2
    <3>3. QED
      BY <3>2 DEF Agreed
  <2>2. CASE d # e
    <3>1. \A s \in Requests : \A m \in req[s].todo : ~(Logs(req[s], m) /\ changes[m].entity = d)
      <4> TAKE s \in Requests
      <4> TAKE m \in req[s].todo
      <4>1. CASE s = r
        BY <1>6, <2>2, <4>1 DEF Logs
      <4>2. CASE s # r
        BY <1>1, <4>2, Alone DEF Logs, Running
      <4>3. QED
        BY <4>1, <4>2
    <3>2. Agreed(d)
      BY <1>9, <3>1 DEF AgreeInv
    <3>3. EntriesOf(d)' = EntriesOf(d)
      BY <1>1, <1>2, <2>2 DEF EntriesOf
    <3>4. \A y : Reflects(y)' <=> Reflects(y)
      BY <1>1 DEF Reflects
    <3>5. QED
      BY <3>2, <3>3, <3>4 DEF Agreed
  <2>3. QED
    BY <2>1, <2>2
<1>10. QED
  BY <1>1, <1>8, <1>9 DEF AgreeInv

LEMMA AgreeRead ==
    ASSUME IInv, AgreeInv, NEW r \in Requests, Read(r) \/ ReadBreaksOff(r)
    PROVE  AgreeInv'
<1>0. PICK s \in SUBSET Newer(r) : ReadsUpTo(r, s)
  BY ReadFacts DEF IInv
<1>1. /\ req[r] \in Request /\ req[r].todo \subseteq 1..Len(changes)
      /\ req[r].pc = "read" /\ UNCHANGED <<rows, changeLog, changes>>
      /\ faults' = 0 => faults = 0
  BY <1>0, RequestFacts DEF IInv, ReadsUpTo, Reply, database, devices
<1>2. PICK ids, hi : Become(r, [req[r] EXCEPT !.pc = "save", !.reply = ids, !.hi = hi])
  BY <1>0 DEF ReadsUpTo, Reply
<1> DEFINE q == [req[r] EXCEPT !.pc = "save", !.reply = ids, !.hi = hi]
<1>3. Become(r, q) /\ q.pc = "save" /\ q.todo = req[r].todo
  BY <1>1, <1>2 DEF Request
<1> HIDE DEF q
<1>4. \A n : Fits(q, n) /\ ~Logs(req[r], n)
  BY <1>1, <1>3 DEF Fits, Logs
<1>5. QED
  BY <1>1, <1>3, <1>4, AgreeMove

\* A request arrives with all its changes before it, and leaves with none in hand.
LEMMA AgreeDevice ==
    ASSUME IInv, AgreeInv, NEW r \in Requests,
           (\E d \in Devices : Receive(r, d)) \/ Deliver(r) \/ Drop(r)
    PROVE  AgreeInv'
<1>1. /\ TypeOK /\ UNCHANGED <<rows, changeLog, changes, faults>>
      /\ req[r].pc \notin {"append", "commit"}
  BY DEF IInv, Receive, Deliver, Drop, Ended, database, devices
<1>2. \A n : ~Logs(req[r], n)
  BY <1>1 DEF Logs
<1>3. ASSUME NEW d \in Devices, Receive(r, d) PROVE AgreeInv'
  <2>1. PICK last \in {0, held[d]}, t \in 1..(now + MaxSkew),
             batch \in SUBSET (1..Len(changes)) :
            Become(r, [Idle EXCEPT !.pc = "select", !.device = d, !.last = last,
                                   !.sentAt = t, !.batch = batch, !.todo = batch])
    BY <1>1, <1>3, ReceiveFacts
  <2> DEFINE q == [Idle EXCEPT !.pc = "select", !.device = d, !.last = last,
                               !.sentAt = t, !.batch = batch, !.todo = batch]
  <2>2. Become(r, q) /\ q.pc = "select" /\ q.todo = batch
    BY <2>1 DEF Idle
  <2> HIDE DEF q
  <2>3. \A n : Fits(q, n)
    BY <2>2 DEF Fits, Logs
  <2>4. QED
    BY <1>1, <1>2, <2>2, <2>3, AgreeMove
<1>4. CASE Deliver(r) \/ Drop(r)
  <2>1. Become(r, Idle) /\ Idle.pc = "idle" /\ Idle.todo = {}
    BY <1>4 DEF Deliver, Drop, Idle
  <2>2. QED
    BY <1>1, <1>2, <2>1, AgreeMove
<1>5. QED
  BY <1>3, <1>4

LEMMA AgreeCrash ==
    ASSUME IInv, AgreeInv, Crash
    PROVE  AgreeInv'
<1>1. /\ TypeOK /\ UNCHANGED <<rows, changeLog, changes>> /\ faults' # 0
  BY DEF IInv, TypeOK, Crash, Fault, database, devices
<1>2. ASSUME NEW r \in Requests
      PROVE  req'[r].todo \subseteq 1..Len(changes) /\ \A n \in req'[r].todo : Fits(req'[r], n)
  <2>1. req[r] \in Request /\ req[r].todo \subseteq 1..Len(changes)
    BY <1>1, RequestFacts
  <2>2. req'[r] = IF req[r].pc \in Running THEN [req[r] EXCEPT !.pc = "failed"] ELSE req[r]
    BY DEF Crash
  <2>3. req'[r].todo = req[r].todo /\ (req'[r] = req[r] \/ req'[r].pc = "failed")
    BY <2>1, <2>2 DEF Request
  <2>4. CASE req'[r] = req[r]
    BY <2>1, <2>4 DEF AgreeInv
  <2>5. CASE req'[r].pc = "failed"
    BY <2>1, <2>3, <2>5 DEF Fits, Logs
  <2>6. QED
    BY <2>3, <2>4, <2>5
<1>3. QED
  BY <1>1, <1>2, AgreeSame

LEMMA AgreeRest ==
    ASSUME IInv, AgreeInv, UNCHANGED <<rows, changeLog, req, faults>>,
           \A n \in 1..Len(changes) : changes'[n] = changes[n]
    PROVE  AgreeInv'
<1>1. \A r \in Requests : req[r].todo \subseteq 1..Len(changes)
  BY RequestFacts DEF IInv
<1>2. \A r \in Requests : \A n \in req[r].todo : Fits(req[r], n)
  BY DEF AgreeInv
<1>3. QED
  BY <1>1, <1>2, AgreeSame

LEMMA AgreeNext ==
    ASSUME IInv, SerialInv, AgreeInv, [Next]_vars
    PROVE  AgreeInv'
<1>1. ASSUME NEW r \in Requests, Sync(r) \/ ReadBreaksOff(r) \/ StatementFails(r) PROVE AgreeInv'
  BY <1>1, AgreeStatements, AgreeFind, AgreeWrite, AgreeBegin, AgreeCommit, AgreeRead DEF Sync
<1>2. ASSUME NEW r \in Requests, (\E d \in Devices : Receive(r, d)) \/ Deliver(r) \/ Drop(r)
      PROVE  AgreeInv'
  BY <1>2, AgreeDevice
<1>3. CASE Crash
  BY <1>3, AgreeCrash
<1>4. ASSUME NEW d \in Devices, NEW e \in Edited, NEW a \in {"upsert", "delete"}, MakeChange(d, e, a)
      PROVE  AgreeInv'
  BY <1>4, MakeChangeFacts, AgreeRest DEF MakeChange, database, IInv
<1>5. CASE Tick \/ UNCHANGED vars
  BY <1>5, AgreeRest DEF Tick, vars, database, devices
<1>6. QED
  BY <1>1, <1>2, <1>3, <1>4, <1>5 DEF Next, DeviceStep

LEMMA AgreeInit == Init => AgreeInv
BY IdleType DEF Init, AgreeInv, Agreed, EntriesOf

\* With requests served one at a time, applying the whole log in id order ends with
\* the rows of the server.
THEOREM LogReproducesRows ==
    ASSUME OneAtATime
    PROVE  Spec => []LogAgreesWithRows
<1>1. IInv /\ SerialInv /\ AgreeInv /\ [Next]_vars => AgreeInv'
  BY AgreeNext
<1>2. IInv /\ AgreeInv => LogAgreesWithRows
  <2> SUFFICES ASSUME IInv, AgreeInv, Quiet, faults = 0, NEW x \in changeLog,
                      \A y \in EntriesOf(changes[x.change].entity) : y.id <= x.id
               PROVE  Reflects(x.change)
    BY DEF LogAgreesWithRows, Reflects
  <2>1. changes[x.change] \in Change
    BY DEF IInv, TypeOK, LogType
  <2>2. changes[x.change].entity \in Entities /\ x \in EntriesOf(changes[x.change].entity)
    BY <2>1 DEF Change, EntriesOf
  <2>3. \A r \in Requests : \A n \in req[r].todo : ~Logs(req[r], n)
    BY DEF Quiet, Logs, Running
  <2>4. Agreed(changes[x.change].entity)
    BY <2>2, <2>3 DEF AgreeInv
  <2>5. QED
    BY <2>2, <2>4 DEF Agreed
<1>3. QED
  BY <1>1, <1>2, SerialInvariance, AgreeInit, PTL DEF Spec
=============================================================================
