-------------------------- MODULE SyncServerProofs --------------------------
(***************************************************************************)
(* The safety of SyncServer for any number of concurrent requests, devices *)
(* and entities: the inductive invariant, and type correctness.            *)
(***************************************************************************)
EXTENDS SyncServer, TLAPS

-----------------------------------------------------------------------------
(* The invariant *)

\* The change a request is handling: the one Current names, for a request given
\* as a record.
HeadOf(q, n) == n \in q.todo /\ \A m \in q.todo : n <= m

\* Checkpoints come from ids of the sequence.
CheckpointInv(q) == q.last <= lastId /\ q.hi <= lastId

\* The id of an entry being inserted is its own, and above the checkpoint the
\* request came with.
CommitInv(q) ==
    q.pc = "commit" => /\ q.last < q.id /\ q.id <= lastId
                       /\ \A x \in changeLog : x.id # q.id

\* A lost change ends the request at its append.
LostInv(q) == q.lost => q.pc \in {"append", "failed"}

\* The log is read when no change is left.
DoneInv(q) == q.pc \in {"read", "save", "answered"} => q.todo = {}

\* What the loop has passed is logged above the request's checkpoint.
LoggedInv(q) ==
    \A n \in q.batch \ q.todo : \E x \in changeLog : x.change = n /\ q.last < x.id

\* A request's own changes are in its reply or above its new checkpoint.
EchoInv(q) ==
    q.pc \in {"save", "answered"} =>
        \A n \in q.batch :
            \E x \in changeLog :
                /\ x.change = n /\ q.last < x.id
                /\ x.id \in q.reply \/ q.hi < x.id

\* The upsert of a transaction that is about to be logged has its row.
StoredInv(q) ==
    q.pc \in {"append", "commit"} /\ ~q.lost =>
        \A n \in q.todo :
            /\ HeadOf(q, n)
            /\ changes[n].action = "upsert"
            /\ changes[n].entity \in Transactions
            => rows[changes[n].entity].state # "none"

LocalInv(q) ==
    /\ CheckpointInv(q) /\ CommitInv(q) /\ LostInv(q) /\ DoneInv(q)
    /\ LoggedInv(q) /\ EchoInv(q) /\ StoredInv(q)

HeldInv == \A d \in Devices : held[d] <= lastId

\* Two entries being inserted have different ids.
DistinctIds ==
    \A q, r \in Requests :
        req[q].pc = "commit" /\ req[r].pc = "commit" /\ req[q].id = req[r].id => q = r

\* As AppliedIsLogged; the request that has still to log the change of a row is
\* handling that very change, and will not be refused.
AppliedInv ==
    faults = 0 => \A e \in Entities :
        \/ rows[e].change = 0
        \/ Logged(rows[e].change)
        \/ \E r \in Requests : /\ req[r].pc \in {"append", "commit"}
                               /\ ~req[r].lost
                               /\ HeadOf(req[r], rows[e].change)

IInv ==
    /\ TypeOK
    /\ HeldInv
    /\ \A r \in Requests : LocalInv(req[r])
    /\ DistinctIds
    /\ AppliedInv
    /\ LoggedWasStored

-----------------------------------------------------------------------------
(* Types *)

\* A request's state in the invariant's terms: well typed, its changes made.
LEMMA RequestFacts ==
    ASSUME TypeOK, NEW r \in Requests
    PROVE  /\ req[r] \in Request
           /\ req[r].todo \subseteq req[r].batch
           /\ req[r].batch \subseteq 1..Len(changes)
           /\ \A n \in req[r].todo : n \in Nat /\ changes[n] \in Change
<1>1. /\ req[r] \in Request
      /\ req[r].todo \subseteq req[r].batch
      /\ req[r].batch \subseteq 1..Len(changes)
  BY DEF TypeOK, RequestType
<1>2. changes \in Seq(Change)
  BY DEF TypeOK
<1>3. QED
  BY <1>1, <1>2

\* The state of a slot that holds no request.
LEMMA IdleType == Idle \in Request /\ Idle.pc = "idle" /\ Idle.todo = {} /\ Idle.batch = {}
<1>1. (CHOOSE d \in Devices : TRUE) \in Devices
  BY ConstantsAssumption DEF ConstantsAssumption
<1>2. QED
  BY <1>1 DEF Idle, Request

\* Giving one request a well-typed state keeps all of them well typed.
LEMMA RequestUpdate ==
    ASSUME TypeOK, NEW r \in Requests, NEW new \in Request, Become(r, new),
           new.todo \subseteq new.batch, new.batch \subseteq 1..Len(changes),
           UNCHANGED changes
    PROVE  RequestType'
BY DEF TypeOK, RequestType, Become

\* A request that fails keeps everything but its program counter.
LEMMA FailType ==
    ASSUME TypeOK, NEW r \in Requests, Fail(r), UNCHANGED changes
    PROVE  RequestType'
<1>1. [req[r] EXCEPT !.pc = "failed"] \in Request
  BY RequestFacts DEF Request, Ended
<1>2. QED
  BY <1>1, RequestFacts, RequestUpdate DEF Fail, Request

\* The statement that writes a row leaves all rows well typed.
LEMMA WriteType ==
    ASSUME TypeOK, NEW r \in Requests, NEW n \in req[r].todo, Write(r, n)
    PROVE  /\ rows' \in [Entities -> Row]
           /\ \A c \in Categories : rows'[c].state # "deleted"
<1>1. /\ changes[n].entity \in Entities
      /\ req[r].sentAt \in Nat /\ req[r].stamp \in Nat /\ n \in Nat
  BY RequestFacts DEF Change, Request, Entities
<1> DEFINE new == [state |-> "live", change |-> n, sentAt |-> req[r].sentAt,
                   updatedAt |-> req[r].stamp]
<1>2. new \in Row /\ new.state = "live"
  BY <1>1 DEF Row
<1>3. rows' = [rows EXCEPT ![changes[n].entity] = new]
  BY DEF Write
<1>4. rows \in [Entities -> Row] /\ \A c \in Categories : rows[c].state # "deleted"
  BY DEF TypeOK, TablesType
<1> HIDE DEF new
<1>5. QED
  BY <1>1, <1>2, <1>3, <1>4 DEF Entities

\* So does a deletion: a transaction is marked, a category removed.
LEMMA EraseType ==
    ASSUME TypeOK, NEW r \in Requests, NEW n \in req[r].todo,
           rows' = [rows EXCEPT ![changes[n].entity] =
                        IF changes[n].entity \in Transactions THEN Tombstone(r, n)
                                                              ELSE Absent]
    PROVE  /\ rows' \in [Entities -> Row]
           /\ \A c \in Categories : rows'[c].state # "deleted"
<1>1. /\ changes[n].entity \in Entities
      /\ req[r].sentAt \in Nat /\ now \in Nat /\ n \in Nat
  BY RequestFacts DEF Change, Request, Entities, TypeOK
<1>2. Tombstone(r, n) \in Row /\ Absent \in Row /\ Absent.state = "none"
  BY <1>1 DEF Row, Tombstone, Absent
<1>3. rows \in [Entities -> Row] /\ \A c \in Categories : rows[c].state # "deleted"
  BY DEF TypeOK, TablesType
<1>4. \A c \in Categories : c \notin Transactions
  BY ConstantsAssumption DEF ConstantsAssumption
<1>5. QED
  BY <1>1, <1>2, <1>3, <1>4 DEF Entities

\* The service starts well typed.
LEMMA InitType == Init => TypeOK
<1> SUFFICES ASSUME Init PROVE TypeOK
  OBVIOUS
<1>1. Absent \in Row /\ [Absent EXCEPT !.state = "live"] \in Row
      /\ Absent.state = "none" /\ [Absent EXCEPT !.state = "live"].state = "live"
  BY DEF Absent, Row
<1>2. TablesType
  BY <1>1 DEF Init, TablesType, Entities
<1>3. LogType /\ RequestType
  BY IdleType DEF Init, LogType, RequestType
<1>4. QED
  BY <1>2, <1>3 DEF Init, TypeOK

-----------------------------------------------------------------------------
(* What no step takes back *)

\* Entries, ids and changes only accumulate, and a transaction's row is never
\* removed.
Grown ==
    /\ lastId' \in Nat /\ lastId <= lastId'
    /\ changeLog \subseteq changeLog'
    /\ Len(changes) <= Len(changes')
    /\ \A n \in 1..Len(changes) : changes'[n] = changes[n]
    /\ \A t \in Transactions : rows[t].state # "none" => rows'[t].state # "none"

\* A statement that writes a row removes none.
LEMMA WriteGrown ==
    ASSUME TypeOK, NEW r \in Requests, NEW n \in req[r].todo,
           Write(r, n) \/ rows' = [rows EXCEPT ![changes[n].entity] =
                              IF changes[n].entity \in Transactions THEN Tombstone(r, n)
                                                                    ELSE Absent],
           UNCHANGED <<lastId, changeLog, changes>>
    PROVE  Grown
<1>1. rows \in [Entities -> Row] /\ changes[n].entity \in Entities
  BY RequestFacts DEF TypeOK, TablesType, Change, Entities
<1>2. \A t \in Transactions : rows[t].state # "none" => rows'[t].state # "none"
  BY <1>1 DEF Write, Tombstone, Entities
<1>3. QED
  BY <1>2 DEF Grown, TypeOK, LogType

\* A step that leaves rows, log and changes alone.
LEMMA SameGrown ==
    ASSUME TypeOK, UNCHANGED <<rows, lastId, changeLog, changes>>
    PROVE  Grown
BY DEF Grown, TypeOK, LogType

\* Making a change appends it.
LEMMA MakeChangeFacts ==
    ASSUME TypeOK, NEW d \in Devices, NEW e \in Edited,
           NEW a \in {"upsert", "delete"}, MakeChange(d, e, a)
    PROVE  /\ changes' \in Seq(Change)
           /\ Len(changes') = Len(changes) + 1
           /\ \A n \in 1..Len(changes) : changes'[n] = changes[n]
<1>1. [device |-> d, entity |-> e, action |-> a] \in Change
  BY ConstantsAssumption DEF ConstantsAssumption, Change, Entities
<1>2. changes \in Seq(Change)
  BY DEF TypeOK
<1>3. changes' = Append(changes, [device |-> d, entity |-> e, action |-> a])
  BY DEF MakeChange
<1>4. QED
  BY <1>1, <1>2, <1>3

\* A request that fails on its own writes nothing.
LEMMA SyncGrown ==
    ASSUME TypeOK, NEW r \in Requests, Sync(r)
    PROVE  Grown
<1>1. CASE SelectCheckpoint(r) \/ InsertCheckpoint(r) \/ Find(r) \/ AppendRefused(r)
           \/ Read(r) \/ UpdateCheckpoint(r)
  BY <1>1, SameGrown DEF SelectCheckpoint, InsertCheckpoint, Find, AppendRefused, Read,
                         Reply, UpdateCheckpoint, database, devices
<1>2. CASE Update(r)
  <2>1. CASE UNCHANGED rows
    BY <1>2, <2>1, SameGrown DEF Update, devices
  <2>2. CASE \E n \in req[r].todo : Write(r, n)
    BY <1>2, <2>2, WriteGrown DEF Update, devices
  <2>3. QED
    BY <1>2, <2>1, <2>2 DEF Update
<1>3. CASE Create(r)
  <2>1. CASE UNCHANGED rows
    BY <1>3, <2>1, SameGrown DEF Create, devices
  <2>2. CASE \E n \in req[r].todo : Write(r, n)
    BY <1>3, <2>2, WriteGrown DEF Create, devices
  <2>3. QED
    BY <1>3, <2>1, <2>2 DEF Create
<1>4. CASE Delete(r)
  <2>1. CASE UNCHANGED rows
    BY <1>4, <2>1, SameGrown DEF Delete, devices
  <2>2. CASE \E n \in req[r].todo :
               rows' = [rows EXCEPT ![changes[n].entity] =
                          IF changes[n].entity \in Transactions THEN Tombstone(r, n)
                                                                ELSE Absent]
    BY <1>4, <2>2, WriteGrown DEF Delete, devices
  <2>3. QED
    BY <1>4, <2>1, <2>2 DEF Delete
<1>5. CASE AppendBegin(r)
  BY <1>5 DEF AppendBegin, Grown, TypeOK, LogType, devices
<1>6. CASE AppendCommit(r)
  BY <1>6 DEF AppendCommit, Grown, TypeOK, LogType, devices
<1>7. QED
  BY <1>1, <1>2, <1>3, <1>4, <1>5, <1>6 DEF Sync

\* No step of the service, the devices or a failure takes anything back.
LEMMA StepGrown ==
    ASSUME TypeOK, [Next]_vars
    PROVE  Grown
<1>1. ASSUME NEW r \in Requests, Sync(r) PROVE Grown
  BY <1>1, SyncGrown
<1>2. ASSUME NEW r \in Requests, ReadBreaksOff(r) \/ StatementFails(r) PROVE Grown
  BY <1>2, SameGrown DEF ReadBreaksOff, Reply, StatementFails, database, devices
<1>3. ASSUME NEW d \in Devices, NEW e \in Edited, NEW a \in {"upsert", "delete"},
             MakeChange(d, e, a)
      PROVE  Grown
  <2>1. UNCHANGED <<rows, lastId, changeLog>>
    BY <1>3 DEF MakeChange, database
  <2>2. changes \in Seq(Change)
    BY DEF TypeOK
  <2>3. QED
    BY <1>3, <2>1, <2>2, MakeChangeFacts DEF Grown, TypeOK, LogType
<1>4. ASSUME NEW r \in Requests,
             (\E d \in Devices : Receive(r, d)) \/ Deliver(r) \/ Drop(r)
      PROVE  Grown
  BY <1>4, SameGrown DEF Receive, Deliver, Drop, database, devices
<1>5. CASE Crash \/ Tick \/ UNCHANGED vars
  BY <1>5, SameGrown DEF Crash, Tick, vars, database, devices
<1>6. QED
  BY <1>1, <1>2, <1>3, <1>4, <1>5 DEF Next, DeviceStep

-----------------------------------------------------------------------------
(* Frames *)

\* Only the slot of the request that moves changes.
LEMMA BecomeFacts ==
    ASSUME TypeOK, NEW r \in Requests, NEW new, Become(r, new)
    PROVE  /\ req'[r] = new
           /\ \A q \in Requests \ {r} : req'[q] = req[q]
BY DEF TypeOK, RequestType, Become

\* A request that does not move keeps what it knows, as long as no entry takes
\* the id it is inserting.
LEMMA LocalFrame ==
    ASSUME IInv, Grown, NEW q \in Requests, req'[q] = req[q],
           req[q].pc = "commit" => \A x \in changeLog' \ changeLog : x.id # req[q].id
    PROVE  LocalInv(req[q])'
<1>1. /\ LocalInv(req[q]) /\ lastId \in Nat
      /\ req[q] \in Request /\ \A n \in req[q].todo : n \in 1..Len(changes)
  BY RequestFacts DEF IInv, TypeOK, LogType
<1>2. CheckpointInv(req[q])' /\ CommitInv(req[q])'
  BY <1>1 DEF LocalInv, CheckpointInv, CommitInv, Grown, Request
<1>3. LostInv(req[q])' /\ DoneInv(req[q])'
  BY <1>1 DEF LocalInv, LostInv, DoneInv
<1>4. LoggedInv(req[q])' /\ EchoInv(req[q])'
  BY <1>1 DEF LocalInv, LoggedInv, EchoInv, Grown
<1>5. StoredInv(req[q])'
  BY <1>1 DEF LocalInv, StoredInv, HeadOf, Grown
<1>6. QED
  BY <1>2, <1>3, <1>4, <1>5 DEF LocalInv

\* A logged transaction keeps its row.
LEMMA StoredFrame ==
    ASSUME IInv, Grown
    PROVE  \A x \in changeLog :
             /\ changes'[x.change].action = "upsert"
             /\ changes'[x.change].entity \in Transactions
             => rows'[changes'[x.change].entity].state # "none"
BY DEF IInv, Grown, LoggedWasStored, TypeOK, LogType

\* A request moves, without an id, and rows, log and changes stay.
LEMMA KeepInv ==
    ASSUME IInv, NEW r \in Requests, NEW new \in Request, Become(r, new),
           UNCHANGED <<rows, changeLog, lastId, changes>>,
           LocalInv(new), new.pc # "commit",
           new.todo \subseteq new.batch, new.batch \subseteq 1..Len(changes),
           \* it had nothing left to log of what it wrote, or was interrupted
           req[r].pc \in {"append", "commit"} /\ ~req[r].lost => faults' # 0,
           faults' = 0 => faults = 0,
           HeldInv', held' \in [Devices -> Nat], cleared' \in [Devices -> Nat],
           checkpoints' \in [Users -> Nat \cup {NoRow}], now' \in Nat, faults' \in Nat
    PROVE  IInv'
<1>1. TypeOK /\ \A q \in Requests : LocalInv(req[q])
  BY DEF IInv
<1>2. req'[r] = new /\ \A q \in Requests \ {r} : req'[q] = req[q]
  BY <1>1, BecomeFacts
<1>3. Grown
  BY <1>1, SameGrown
<1>4. TypeOK'
  <2>1. RequestType'
    BY <1>1, RequestUpdate
  <2>2. TablesType' /\ LogType'
    BY <1>1 DEF TypeOK, TablesType, LogType
  <2>3. QED
    BY <1>1, <2>1, <2>2 DEF TypeOK
<1>5. \A q \in Requests : LocalInv(req[q])'
  <2>1. LocalInv(req[r])'
    BY <1>2 DEF LocalInv, CheckpointInv, CommitInv, LostInv, DoneInv, LoggedInv,
                EchoInv, StoredInv, HeadOf
  <2>2. ASSUME NEW q \in Requests \ {r} PROVE LocalInv(req[q])'
    BY <1>2, <1>3, LocalFrame
  <2>3. QED
    BY <2>1, <2>2
<1>6. DistinctIds'
  BY <1>2 DEF IInv, DistinctIds
<1>7. AppliedInv'
  BY <1>2 DEF IInv, AppliedInv, Logged
<1>8. LoggedWasStored'
  BY DEF IInv, LoggedWasStored
<1>9. QED
  BY <1>4, <1>5, <1>6, <1>7, <1>8 DEF IInv

\* A request that ends in an error without having written anything since the
\* last change it logged.
LEMMA FailInv ==
    ASSUME IInv, NEW r \in Requests, req[r].pc \in Running, Fail(r),
           UNCHANGED <<rows, changeLog, lastId, changes, checkpoints, held, cleared, now>>,
           req[r].pc \in {"append", "commit"} /\ ~req[r].lost => faults' # 0,
           faults' \in Nat, faults' = 0 => faults = 0
    PROVE  IInv'
<1> DEFINE new == [req[r] EXCEPT !.pc = "failed"]
<1>1. TypeOK /\ LocalInv(req[r])
  BY DEF IInv
<1>2. /\ req[r] \in Request
      /\ req[r].todo \subseteq req[r].batch /\ req[r].batch \subseteq 1..Len(changes)
  BY <1>1, RequestFacts
<1>3. new \in Request
  BY <1>2 DEF Request, Ended
<1>4. /\ new.pc = "failed" /\ new.todo = req[r].todo /\ new.batch = req[r].batch
      /\ new.last = req[r].last /\ new.hi = req[r].hi
  BY <1>2 DEF Request
<1>5. Become(r, new)
  BY DEF Fail
<1> HIDE DEF new
<1>6. LocalInv(new)
  BY <1>1, <1>4 DEF LocalInv, CheckpointInv, CommitInv, LostInv, DoneInv, LoggedInv,
                    EchoInv, StoredInv
<1>7. HeldInv' /\ held' \in [Devices -> Nat] /\ cleared' \in [Devices -> Nat]
      /\ checkpoints' \in [Users -> Nat \cup {NoRow}] /\ now' \in Nat
  BY <1>1 DEF IInv, HeldInv, TypeOK, TablesType
<1>8. QED
  BY <1>2, <1>3, <1>4, <1>5, <1>6, <1>7, KeepInv

\* The row of the change at hand has been written or removed; its append is
\* next.
LEMMA RowInv ==
    ASSUME IInv, NEW r \in Requests, NEW n \in req[r].todo, HeadOf(req[r], n),
           req[r].pc \in {"update", "create", "delete"},
           Become(r, [req[r] EXCEPT !.pc = "append"]),
           NEW row, rows' = [rows EXCEPT ![changes[n].entity] = row],
           row.change \in {0, n},
           changes[n].entity \in Transactions => row.state # "none",
           rows' \in [Entities -> Row],
           \A c \in Categories : rows'[c].state # "deleted",
           Grown,
           UNCHANGED <<changeLog, lastId, checkpoints, now, changes, held, cleared, faults>>
    PROVE  IInv'
<1>1. TypeOK /\ \A q \in Requests : LocalInv(req[q])
  BY DEF IInv
<1> DEFINE new == [req[r] EXCEPT !.pc = "append"]
<1>2. /\ req[r] \in Request
      /\ req[r].todo \subseteq req[r].batch /\ req[r].batch \subseteq 1..Len(changes)
  BY <1>1, RequestFacts
<1>3. new \in Request
  BY <1>2 DEF Request, Running
<1>4. /\ new.pc = "append" /\ new.todo = req[r].todo /\ new.batch = req[r].batch
      /\ new.last = req[r].last /\ new.hi = req[r].hi /\ new.lost = req[r].lost
  BY <1>2 DEF Request
<1>5. req'[r] = new /\ \A q \in Requests \ {r} : req'[q] = req[q]
  BY <1>1, BecomeFacts
<1> HIDE DEF new
<1>6. ~new.lost
  BY <1>1, <1>4 DEF LocalInv, LostInv
<1>7. TypeOK'
  <2>1. RequestType'
    BY <1>1, <1>2, <1>3, <1>4, RequestUpdate DEF new
  <2>2. TablesType' /\ LogType'
    BY <1>1 DEF TypeOK, TablesType, LogType
  <2>3. QED
    BY <1>1, <2>1, <2>2 DEF TypeOK
<1>8. rows'[changes[n].entity] = row
      /\ \A e \in Entities : e # changes[n].entity => rows'[e] = rows[e]
  BY <1>1, RequestFacts DEF TypeOK, TablesType, Change, Entities
<1>9. \A q \in Requests : LocalInv(req[q])'
  <2>1. LocalInv(req[r])'
    <3>1. (CheckpointInv(req[r]) /\ CommitInv(req[r]) /\ LostInv(req[r])
           /\ DoneInv(req[r]) /\ LoggedInv(req[r]) /\ EchoInv(req[r]))'
      BY <1>1, <1>4, <1>5, <1>6 DEF LocalInv, CheckpointInv, CommitInv, LostInv, DoneInv,
                                    LoggedInv, EchoInv
    <3>2. \A m \in req'[r].todo : HeadOf(req'[r], m) => m = n
      BY <1>2, <1>4, <1>5 DEF HeadOf
    <3>3. StoredInv(req[r])'
      BY <1>5, <1>8, <3>2 DEF StoredInv, HeadOf
    <3>4. QED
      BY <3>1, <3>3 DEF LocalInv
  <2>2. ASSUME NEW q \in Requests \ {r} PROVE LocalInv(req[q])'
    BY <1>5, LocalFrame
  <2>3. QED
    BY <2>1, <2>2
<1>10. DistinctIds'
  BY <1>4, <1>5 DEF IInv, DistinctIds
<1>11. AppliedInv'
  <2> SUFFICES ASSUME faults = 0, NEW e \in Entities,
                      rows'[e].change # 0, ~ Logged(rows[e].change)'
               PROVE  \E q \in Requests : /\ req'[q].pc \in {"append", "commit"}
                                          /\ ~req'[q].lost
                                          /\ HeadOf(req'[q], rows'[e].change)
    BY DEF AppliedInv, HeadOf
  <2>1. CASE e = changes[n].entity
    BY <1>4, <1>5, <1>6, <1>8, <2>1 DEF HeadOf
  <2>2. CASE e # changes[n].entity
    <3>1. PICK q \in Requests : /\ req[q].pc \in {"append", "commit"} /\ ~req[q].lost
                                /\ HeadOf(req[q], rows[e].change)
      BY <1>8, <2>2 DEF IInv, AppliedInv, Logged
    <3>2. q # r
      BY <3>1
    <3>3. QED
      BY <1>5, <1>8, <2>2, <3>1, <3>2
  <2>3. QED
    BY <2>1, <2>2
<1>12. LoggedWasStored'
  BY StoredFrame DEF LoggedWasStored
<1>13. HeldInv'
  BY DEF IInv, HeldInv
<1>14. QED
  BY <1>7, <1>9, <1>10, <1>11, <1>12, <1>13 DEF IInv

-----------------------------------------------------------------------------
(* The statements of Sync *)

\* What the frames ask of a step that touches only a request's own state.
LEMMA SameTypes ==
    ASSUME IInv, UNCHANGED <<held, cleared, now, faults>>,
           lastId' = lastId
    PROVE  /\ HeldInv' /\ held' \in [Devices -> Nat] /\ cleared' \in [Devices -> Nat]
           /\ now' \in Nat /\ faults' \in Nat /\ faults' = faults
BY DEF IInv, HeldInv, TypeOK

\* The checkpoint row is read, or inserted.
LEMMA CheckpointStep ==
    ASSUME IInv, NEW r \in Requests, SelectCheckpoint(r) \/ InsertCheckpoint(r)
    PROVE  IInv'
<1>1. TypeOK /\ LocalInv(req[r])
  BY DEF IInv
<1>2. /\ req[r] \in Request
      /\ req[r].todo \subseteq req[r].batch /\ req[r].batch \subseteq 1..Len(changes)
  BY <1>1, RequestFacts
<1>3. ASSUME NEW pc \in {"insert", "read", "find"}, pc = "read" => req[r].todo = {},
             req[r].pc \in {"select", "insert"},
             Become(r, [req[r] EXCEPT !.pc = pc]),
             checkpoints' \in [Users -> Nat \cup {NoRow}],
             UNCHANGED <<rows, changeLog, lastId, now, devices, faults>>
      PROVE  IInv'
  <2> DEFINE new == [req[r] EXCEPT !.pc = pc]
  <2>1. new \in Request
    BY <1>2 DEF Request, Running
  <2>2. /\ new.pc = pc /\ new.todo = req[r].todo /\ new.batch = req[r].batch
        /\ new.last = req[r].last /\ new.hi = req[r].hi /\ new.lost = req[r].lost
    BY <1>2 DEF Request
  <2> HIDE DEF new
  <2>3. LocalInv(new)
    BY <1>1, <1>3, <2>2 DEF LocalInv, CheckpointInv, CommitInv, LostInv, DoneInv,
                            LoggedInv, EchoInv, StoredInv
  <2>4. UNCHANGED <<rows, changeLog, lastId, changes, held, cleared, now, faults>>
    BY <1>3 DEF devices
  <2>5. Become(r, new)
    BY <1>3 DEF new
  <2>6. new.todo \subseteq new.batch /\ new.batch \subseteq 1..Len(changes)
        /\ new.pc # "commit" /\ req[r].pc \notin {"append", "commit"}
    BY <1>2, <1>3, <2>2
  <2>7. QED
    BY <1>3, <2>1, <2>3, <2>4, <2>5, <2>6, SameTypes, KeepInv
<1>4. checkpoints \in [Users -> Nat \cup {NoRow}]
  BY <1>1 DEF TypeOK, TablesType
<1>5. LoopHead(req[r].todo) \in {"read", "find"}
      /\ (LoopHead(req[r].todo) = "read" => req[r].todo = {})
  BY DEF LoopHead
<1>6. CASE SelectCheckpoint(r)
  <2>1. CASE checkpoints[UserOf[req[r].device]] = NoRow
    BY <1>3, <1>4, <1>6, <2>1 DEF SelectCheckpoint, database
  <2>2. CASE checkpoints[UserOf[req[r].device]] # NoRow
    BY <1>3, <1>4, <1>5, <1>6, <2>2 DEF SelectCheckpoint, database
  <2>3. QED
    BY <2>1, <2>2
<1>7. CASE InsertCheckpoint(r)
  <2>1. CASE /\ checkpoints' = [checkpoints EXCEPT ![UserOf[req[r].device]] = 0]
             /\ Become(r, [req[r] EXCEPT !.pc = LoopHead(req[r].todo)])
    <3>1. checkpoints' \in [Users -> Nat \cup {NoRow}]
      BY <1>4, <2>1
    <3>2. QED
      BY <1>3, <1>5, <1>7, <2>1, <3>1 DEF InsertCheckpoint
  <2>2. CASE Fail(r) /\ UNCHANGED checkpoints
    <3>1. req[r].pc = "insert" /\ req[r].pc \in Running
      BY <1>7 DEF InsertCheckpoint, Running
    <3>2. faults' = faults /\ faults \in Nat
      BY <1>1, <1>7 DEF InsertCheckpoint, TypeOK
    <3>3. UNCHANGED <<rows, changeLog, lastId, changes, checkpoints, held, cleared, now>>
      BY <1>7, <2>2 DEF InsertCheckpoint, devices
    <3>4. QED
      BY <2>2, <3>1, <3>2, <3>3, FailInv
  <2>3. QED
    BY <1>7, <2>1, <2>2 DEF InsertCheckpoint
<1>8. QED
  BY <1>6, <1>7

\* The decision on the row found; a change decided for the log alone is lost,
\* or a delete.
LEMMA FindStep ==
    ASSUME IInv, NEW r \in Requests, Find(r)
    PROVE  IInv'
<1>1. TypeOK /\ LocalInv(req[r]) /\ req[r].pc = "find"
  BY DEF IInv, Find
<1>2. /\ req[r] \in Request
      /\ req[r].todo \subseteq req[r].batch /\ req[r].batch \subseteq 1..Len(changes)
      /\ now \in Nat
  BY <1>1, RequestFacts DEF TypeOK
<1>3. PICK n \in req[r].todo :
        LET row == rows[changes[n].entity] IN
        /\ Current(r, n)
        /\ Become(r, [req[r] EXCEPT
               !.pc = Decision(changes[n].action, row, req[r].sentAt),
               !.lost = Loses(changes[n].action, row, req[r].sentAt),
               !.stamp = now])
  BY DEF Find
<1> DEFINE row  == rows[changes[n].entity]
           pc   == Decision(changes[n].action, row, req[r].sentAt)
           lost == Loses(changes[n].action, row, req[r].sentAt)
           new  == [req[r] EXCEPT !.pc = pc, !.lost = lost, !.stamp = now]
<1>4. /\ changes[n].action \in {"upsert", "delete"}
      /\ req[r].sentAt \in Nat /\ row.updatedAt \in Nat
  BY <1>1, <1>2, RequestFacts DEF Change, Request, TypeOK, TablesType, Row, Entities
<1>5. pc \in {"create", "update", "delete", "append"}
  BY DEF Decision
<1>6. lost \in BOOLEAN /\ (lost => pc = "append")
  BY <1>4 DEF Decision, Loses
<1>7. pc = "append" /\ ~lost => changes[n].action # "upsert"
  BY <1>4 DEF Decision, Loses
<1>8. Become(r, new)
  BY <1>3
<1> HIDE DEF pc, lost
<1>9. new \in Request
  BY <1>2, <1>5, <1>6 DEF Request, Running
<1>10. /\ new.pc = pc /\ new.todo = req[r].todo /\ new.batch = req[r].batch
       /\ new.last = req[r].last /\ new.hi = req[r].hi /\ new.lost = lost
  BY <1>2 DEF Request
<1> HIDE DEF new
<1>11. \A m \in new.todo : HeadOf(new, m) => m = n
  BY <1>2, <1>3, <1>10 DEF HeadOf, Current
<1>12. LocalInv(new)
  <2>1. CheckpointInv(new) /\ CommitInv(new) /\ LostInv(new) /\ DoneInv(new)
        /\ LoggedInv(new) /\ EchoInv(new)
    BY <1>1, <1>5, <1>6, <1>10 DEF LocalInv, CheckpointInv, CommitInv, LostInv, DoneInv,
                                   LoggedInv, EchoInv
  <2>2. StoredInv(new)
    BY <1>5, <1>7, <1>10, <1>11 DEF StoredInv
  <2>3. QED
    BY <2>1, <2>2 DEF LocalInv
<1>13. UNCHANGED <<rows, changeLog, lastId, changes, held, cleared, now, faults>>
  BY DEF Find, database, devices
<1>14. checkpoints' \in [Users -> Nat \cup {NoRow}]
  BY <1>1 DEF Find, database, TypeOK, TablesType
<1>15. new.todo \subseteq new.batch /\ new.batch \subseteq 1..Len(changes)
       /\ new.pc # "commit" /\ req[r].pc \notin {"append", "commit"}
  BY <1>1, <1>2, <1>5, <1>10
<1>16. QED
  BY <1>8, <1>9, <1>12, <1>13, <1>14, <1>15, SameTypes, KeepInv

\* Update, insert and delete write the row of the change at hand, or fail.
LEMMA WriteStep ==
    ASSUME IInv, NEW r \in Requests, Update(r) \/ Create(r) \/ Delete(r)
    PROVE  IInv'
<1>1. TypeOK
  BY DEF IInv
<1>2. /\ req[r].pc \in {"update", "create", "delete"} /\ req[r].pc \in Running
      /\ UNCHANGED <<changeLog, lastId, checkpoints, now, changes, held, cleared, faults>>
  BY DEF Update, Create, Delete, devices, Running
<1>3. PICK n \in req[r].todo :
        /\ Current(r, n)
        /\ \/ Fail(r) /\ UNCHANGED rows
           \/ /\ Become(r, [req[r] EXCEPT !.pc = "append"])
              /\ \/ Write(r, n)
                 \/ rows' = [rows EXCEPT ![changes[n].entity] =
                                IF changes[n].entity \in Transactions THEN Tombstone(r, n)
                                                                      ELSE Absent]
  BY DEF Update, Create, Delete
<1>4. HeadOf(req[r], n)
  BY <1>3 DEF Current, HeadOf
<1>5. CASE Fail(r) /\ UNCHANGED rows
  BY <1>1, <1>2, <1>5, FailInv DEF TypeOK
<1>6. CASE Become(r, [req[r] EXCEPT !.pc = "append"]) /\ Write(r, n)
  <2> DEFINE row == [state |-> "live", change |-> n, sentAt |-> req[r].sentAt,
                     updatedAt |-> req[r].stamp]
  <2>1. rows' = [rows EXCEPT ![changes[n].entity] = row] /\ row.change = n
        /\ row.state # "none"
    BY <1>6 DEF Write
  <2>2. rows' \in [Entities -> Row] /\ \A c \in Categories : rows'[c].state # "deleted"
    BY <1>1, <1>6, WriteType
  <2>3. Grown
    BY <1>1, <1>2, <1>6, WriteGrown
  <2> HIDE DEF row
  <2>4. QED
    BY <1>2, <1>4, <1>6, <2>1, <2>2, <2>3, RowInv
<1>7. CASE /\ Become(r, [req[r] EXCEPT !.pc = "append"])
           /\ rows' = [rows EXCEPT ![changes[n].entity] =
                          IF changes[n].entity \in Transactions THEN Tombstone(r, n)
                                                                ELSE Absent]
  <2> DEFINE row == IF changes[n].entity \in Transactions THEN Tombstone(r, n) ELSE Absent
  <2>1. rows' = [rows EXCEPT ![changes[n].entity] = row] /\ row.change \in {0, n}
        /\ (changes[n].entity \in Transactions => row.state # "none")
    BY <1>7 DEF Tombstone, Absent
  <2>2. rows' \in [Entities -> Row] /\ \A c \in Categories : rows'[c].state # "deleted"
    BY <1>1, <1>7, EraseType
  <2>3. Grown
    BY <1>1, <1>2, <1>7, WriteGrown
  <2> HIDE DEF row
  <2>4. QED
    BY <1>2, <1>4, <1>7, <2>1, <2>2, <2>3, RowInv
<1>8. QED
  BY <1>3, <1>5, <1>6, <1>7

\* The append takes the next id of the sequence.
LEMMA AppendBeginStep ==
    ASSUME IInv, NEW r \in Requests, AppendBegin(r)
    PROVE  IInv'
<1>1. TypeOK /\ (\A q \in Requests : LocalInv(req[q])) /\ lastId \in Nat
  BY DEF IInv, TypeOK, LogType
<1>2. /\ req[r] \in Request
      /\ req[r].todo \subseteq req[r].batch /\ req[r].batch \subseteq 1..Len(changes)
      /\ req[r].last \in Nat
  BY <1>1, RequestFacts DEF Request
<1>3. req[r].pc = "append" /\ ~req[r].lost /\ lastId' = lastId + 1
      /\ UNCHANGED <<rows, changeLog, checkpoints, now, changes, held, cleared, faults>>
  BY DEF AppendBegin, devices
<1> DEFINE id  == lastId + 1
           new == [req[r] EXCEPT !.pc = "commit", !.id = id]
<1>4. Become(r, new) /\ id \in Nat
  BY <1>1 DEF AppendBegin
<1> HIDE DEF id
<1>5. new \in Request
  BY <1>2, <1>4 DEF Request, Running
<1>6. /\ new.pc = "commit" /\ new.id = id
      /\ new.todo = req[r].todo /\ new.batch = req[r].batch
      /\ new.last = req[r].last /\ new.hi = req[r].hi /\ new.lost = req[r].lost
  BY <1>2 DEF Request
<1>7. req'[r] = new /\ \A q \in Requests \ {r} : req'[q] = req[q]
  BY <1>1, <1>4, BecomeFacts
<1>8. Grown
  BY <1>1, <1>3 DEF Grown
<1> HIDE DEF new
<1> USE DEF id
<1>9. \A x \in changeLog : x.id \in Nat /\ x.id <= lastId
  BY <1>1 DEF TypeOK, LogType, Entry
<1>10. TypeOK'
  <2>1. RequestType'
    BY <1>1, <1>2, <1>3, <1>4, <1>5, <1>6, RequestUpdate
  <2>2. TablesType'
    BY <1>1, <1>3 DEF TypeOK, TablesType
  <2>3. LogType'
    BY <1>1, <1>3, <1>9 DEF TypeOK, LogType
  <2>4. QED
    BY <1>1, <1>3, <2>1, <2>2, <2>3 DEF TypeOK
<1>11. \A q \in Requests : LocalInv(req[q])'
  <2>1. LocalInv(req[r])'
    <3>1. req[r].last <= lastId /\ req[r].hi <= lastId /\ req[r].hi \in Nat
      BY <1>1, <1>2 DEF LocalInv, CheckpointInv, Request
    <3>2. CheckpointInv(req[r])' /\ CommitInv(req[r])'
      BY <1>1, <1>2, <1>3, <1>6, <1>7, <1>9, <3>1 DEF CheckpointInv, CommitInv
    <3>3. (LostInv(req[r]) /\ DoneInv(req[r]) /\ LoggedInv(req[r]) /\ EchoInv(req[r]))'
      BY <1>1, <1>3, <1>6, <1>7 DEF LocalInv, LostInv, DoneInv, LoggedInv, EchoInv
    <3>4. StoredInv(req[r])'
      BY <1>1, <1>3, <1>6, <1>7 DEF LocalInv, StoredInv, HeadOf
    <3>5. QED
      BY <3>2, <3>3, <3>4 DEF LocalInv
  <2>2. ASSUME NEW q \in Requests \ {r} PROVE LocalInv(req[q])'
    BY <1>3, <1>7, <1>8, LocalFrame
  <2>3. QED
    BY <2>1, <2>2
<1>12. DistinctIds'
  <2>1. ASSUME NEW q \in Requests \ {r}, req[q].pc = "commit" PROVE req[q].id # new.id
    <3>1. req[q].id \in Nat /\ req[q].id <= lastId
      BY <1>1, <2>1, RequestFacts DEF LocalInv, CommitInv, Request
    <3>2. QED
      BY <1>1, <1>6, <3>1
  <2>2. QED
    BY <1>6, <1>7, <2>1 DEF IInv, DistinctIds
<1>13. AppliedInv'
  <2> SUFFICES ASSUME faults = 0, NEW e \in Entities, rows[e].change # 0,
                      ~ Logged(rows[e].change)
               PROVE  \E q \in Requests : /\ req'[q].pc \in {"append", "commit"}
                                          /\ ~req'[q].lost
                                          /\ HeadOf(req'[q], rows[e].change)
    BY <1>3 DEF AppliedInv, HeadOf, Logged
  <2>1. PICK q \in Requests : /\ req[q].pc \in {"append", "commit"} /\ ~req[q].lost
                              /\ HeadOf(req[q], rows[e].change)
    BY DEF IInv, AppliedInv
  <2>2. QED
    BY <1>6, <1>7, <2>1 DEF HeadOf
<1>14. LoggedWasStored'
  BY <1>3 DEF IInv, LoggedWasStored
<1>15. HeldInv'
  BY <1>1, <1>3 DEF IInv, HeldInv, TypeOK
<1>16. QED
  BY <1>10, <1>11, <1>12, <1>13, <1>14, <1>15 DEF IInv

\* The entry becomes visible and the loop goes on.
LEMMA AppendCommitStep ==
    ASSUME IInv, NEW r \in Requests, AppendCommit(r)
    PROVE  IInv'
<1>1. TypeOK /\ (\A q \in Requests : LocalInv(req[q])) /\ lastId \in Nat
  BY DEF IInv, TypeOK, LogType
<1>2. /\ req[r] \in Request
      /\ req[r].todo \subseteq req[r].batch /\ req[r].batch \subseteq 1..Len(changes)
  BY <1>1, RequestFacts
<1>3. PICK n \in req[r].todo :
        /\ Current(r, n)
        /\ changeLog' = changeLog \cup {[id |-> req[r].id, change |-> n]}
        /\ Become(r, [req[r] EXCEPT !.pc = LoopHead(req[r].todo \ {n}),
                                    !.todo = @ \ {n}, !.stamp = 0, !.id = 0])
  BY DEF AppendCommit
<1>4. req[r].pc = "commit" /\ UNCHANGED <<rows, lastId, checkpoints, now, changes, held,
                                          cleared, faults>>
  BY DEF AppendCommit, devices
<1>5. /\ ~req[r].lost /\ req[r].last < req[r].id /\ req[r].id <= lastId
      /\ \A x \in changeLog : x.id # req[r].id
      /\ req[r].id \in Nat /\ req[r].last \in Nat
  BY <1>1, <1>2, <1>4 DEF LocalInv, LostInv, CommitInv, Request
<1> DEFINE entry == [id |-> req[r].id, change |-> n]
           left  == req[r].todo \ {n}
           new   == [req[r] EXCEPT !.pc = LoopHead(left), !.todo = left,
                                   !.stamp = 0, !.id = 0]
<1>6. Become(r, new)
  BY <1>3
<1>7. LoopHead(left) \in {"read", "find"} /\ (LoopHead(left) = "read" => left = {})
  BY DEF LoopHead
<1>8. new \in Request
  BY <1>2, <1>7 DEF Request, Running
<1>9. /\ new.pc \in {"read", "find"} /\ (new.pc = "read" => new.todo = {})
      /\ new.todo = left /\ new.batch = req[r].batch /\ new.last = req[r].last
      /\ new.hi = req[r].hi /\ new.lost = FALSE
  BY <1>2, <1>5, <1>7 DEF Request
<1>10. entry \in Entry /\ entry.id = req[r].id /\ entry.change = n
       /\ n \in 1..Len(changes) /\ changeLog' = changeLog \cup {entry}
  BY <1>2, <1>3, <1>5, RequestFacts, <1>1 DEF Entry
<1>11. req'[r] = new /\ \A q \in Requests \ {r} : req'[q] = req[q]
  BY <1>1, <1>6, BecomeFacts
<1> HIDE DEF new, entry
<1>12. Grown
  BY <1>1, <1>4, <1>10 DEF Grown
<1>13. TypeOK'
  <2>1. RequestType'
    BY <1>1, <1>2, <1>4, <1>6, <1>8, <1>9, RequestUpdate
  <2>2. TablesType'
    BY <1>1, <1>4 DEF TypeOK, TablesType
  <2>3. LogType'
    BY <1>1, <1>4, <1>5, <1>10 DEF TypeOK, LogType
  <2>4. QED
    BY <1>1, <1>4, <2>1, <2>2, <2>3 DEF TypeOK
<1>14. \A q \in Requests : LocalInv(req[q])'
  <2>1. LocalInv(req[r])'
    <3>1. (CheckpointInv(req[r]) /\ CommitInv(req[r]) /\ LostInv(req[r])
           /\ DoneInv(req[r]) /\ EchoInv(req[r]) /\ StoredInv(req[r]))'
      BY <1>1, <1>4, <1>9, <1>11 DEF LocalInv, CheckpointInv, CommitInv, LostInv, DoneInv,
                                     EchoInv, StoredInv
    <3>2. LoggedInv(req[r])'
      <4> SUFFICES ASSUME NEW m \in new.batch \ new.todo
                   PROVE  \E x \in changeLog' : x.change = m /\ new.last < x.id
        BY <1>11 DEF LoggedInv
      <4>1. CASE m = n
        BY <1>5, <1>9, <1>10, <4>1
      <4>2. CASE m # n
        BY <1>1, <1>9, <1>10, <4>2 DEF LocalInv, LoggedInv
      <4>3. QED
        BY <4>1, <4>2
    <3>3. QED
      BY <3>1, <3>2 DEF LocalInv
  <2>2. ASSUME NEW q \in Requests \ {r} PROVE LocalInv(req[q])'
    <3>1. req[q].pc = "commit" => req[q].id # req[r].id
      BY <1>4 DEF IInv, DistinctIds
    <3>2. QED
      BY <1>10, <1>11, <1>12, <3>1, LocalFrame
  <2>3. QED
    BY <2>1, <2>2
<1>15. DistinctIds'
  BY <1>9, <1>11 DEF IInv, DistinctIds
<1>16. AppliedInv'
  <2> SUFFICES ASSUME faults = 0, NEW e \in Entities, rows[e].change # 0,
                      ~ Logged(rows[e].change)'
               PROVE  \E q \in Requests : /\ req'[q].pc \in {"append", "commit"}
                                          /\ ~req'[q].lost
                                          /\ HeadOf(req'[q], rows[e].change)
    BY <1>4 DEF AppliedInv, HeadOf
  <2>1. rows[e].change # n /\ ~ Logged(rows[e].change)
    BY <1>4, <1>10 DEF Logged
  <2>2. PICK q \in Requests : /\ req[q].pc \in {"append", "commit"} /\ ~req[q].lost
                              /\ HeadOf(req[q], rows[e].change)
    BY <2>1 DEF IInv, AppliedInv
  <2>3. q # r
    BY <1>1, <1>2, <1>3, <2>1, <2>2, RequestFacts DEF HeadOf, Current
  <2>4. QED
    BY <1>11, <2>2, <2>3
<1>17. LoggedWasStored'
  <2>1. changes[n].action = "upsert" /\ changes[n].entity \in Transactions
        => rows[changes[n].entity].state # "none"
    BY <1>1, <1>3, <1>4, <1>5 DEF LocalInv, StoredInv, HeadOf, Current
  <2>2. QED
    BY <1>4, <1>10, <2>1 DEF IInv, LoggedWasStored
<1>18. HeldInv'
  BY <1>4 DEF IInv, HeldInv
<1>19. QED
  BY <1>13, <1>14, <1>15, <1>16, <1>17, <1>18 DEF IInv

\* A lost change ends the request.
LEMMA AppendRefusedStep ==
    ASSUME IInv, NEW r \in Requests, AppendRefused(r)
    PROVE  IInv'
<1>1. req[r].pc \in Running /\ req[r].lost /\ Fail(r)
      /\ UNCHANGED <<rows, changeLog, lastId, changes, checkpoints, held, cleared, now, faults>>
  BY DEF AppendRefused, Running, database, devices
<1>2. faults' \in Nat
  BY <1>1 DEF IInv, TypeOK
<1>3. QED
  BY <1>1, <1>2, FailInv

\* The log is read up to some row: what was read is a lower part of what is
\* there, and only a read that breaks off is a failure.
ReadsUpTo(r, ids) ==
    /\ Reply(r, ids)
    /\ ids \subseteq Newer(r)
    /\ \A i \in ids, j \in Newer(r) : j <= i => j \in ids
    /\ faults' \in Nat /\ (faults' = 0 => faults = 0)

LEMMA ReadFacts ==
    ASSUME TypeOK, NEW r \in Requests, Read(r) \/ ReadBreaksOff(r)
    PROVE  \E ids \in SUBSET Newer(r) : ReadsUpTo(r, ids)
<1>1. faults \in Nat /\ Newer(r) \subseteq Nat
  BY DEF TypeOK, LogType, Entry, Newer
<1>2. CASE Read(r)
  <2>1. ReadsUpTo(r, Newer(r))
    BY <1>1, <1>2 DEF Read, ReadsUpTo
  <2>2. QED
    BY <2>1
<1>3. CASE ReadBreaksOff(r)
  <2>1. PICK k \in Newer(r) : Reply(r, {i \in Newer(r) : i < k})
    BY <1>3 DEF ReadBreaksOff
  <2>2. ReadsUpTo(r, {i \in Newer(r) : i < k})
    BY <1>1, <1>3, <2>1 DEF ReadBreaksOff, Fault, ReadsUpTo
  <2>3. QED
    BY <2>2
<1>4. QED
  BY <1>2, <1>3

\* Every change of the request is logged by then, above its checkpoint, and what
\* the reply does not hold lies above its last entry.
LEMMA ReadStep ==
    ASSUME IInv, NEW r \in Requests, Read(r) \/ ReadBreaksOff(r)
    PROVE  IInv'
<1>a. PICK ids \in SUBSET Newer(r) : ReadsUpTo(r, ids)
  BY ReadFacts DEF IInv
<1>1. TypeOK /\ LocalInv(req[r]) /\ req[r].pc = "read"
  BY <1>a DEF IInv, ReadsUpTo, Reply
<1>2. /\ req[r] \in Request
      /\ req[r].todo \subseteq req[r].batch /\ req[r].batch \subseteq 1..Len(changes)
      /\ req[r].last \in Nat
  BY <1>1, RequestFacts DEF Request
<1>3. ids \subseteq Nat /\ \A i \in ids : i <= lastId
  BY <1>1 DEF TypeOK, LogType, Entry, Newer
<1>4. PICK hi \in ids \cup {req[r].last} :
        /\ \A i \in ids \cup {req[r].last} : i <= hi
        /\ Become(r, [req[r] EXCEPT !.pc = "save", !.reply = ids, !.hi = hi])
  BY <1>a DEF ReadsUpTo, Reply
<1>5. hi \in Nat /\ hi <= lastId
  BY <1>1, <1>2, <1>3, <1>4 DEF LocalInv, CheckpointInv
<1>6. \A x \in changeLog : req[r].last < x.id => x.id \in ids \/ hi < x.id
  <2>1. SUFFICES ASSUME NEW x \in changeLog, req[r].last < x.id, ~ (hi < x.id)
                 PROVE  x.id \in ids
    OBVIOUS
  <2>2. x.id \in Nat /\ x.id \in Newer(r) /\ x.id <= hi
    BY <1>1, <1>2, <1>5, <2>1 DEF TypeOK, LogType, Entry, Newer
  <2>3. hi \in ids
    BY <1>2, <1>4, <2>1, <2>2
  <2>4. QED
    BY <1>a, <2>2, <2>3 DEF ReadsUpTo
<1> DEFINE new == [req[r] EXCEPT !.pc = "save", !.reply = ids, !.hi = hi]
<1>7. Become(r, new)
  BY <1>4
<1>8. new \in Request
  BY <1>2, <1>3, <1>5 DEF Request, Running
<1>9. /\ new.pc = "save" /\ new.reply = ids /\ new.hi = hi
      /\ new.todo = req[r].todo /\ new.batch = req[r].batch
      /\ new.last = req[r].last /\ new.lost = req[r].lost
  BY <1>2 DEF Request
<1> HIDE DEF new
<1>10. LocalInv(new)
  <2>1. new.todo = {}
    BY <1>1, <1>9 DEF LocalInv, DoneInv
  <2>2. CheckpointInv(new) /\ CommitInv(new) /\ LostInv(new) /\ DoneInv(new)
        /\ LoggedInv(new) /\ StoredInv(new)
    BY <1>1, <1>5, <1>9, <2>1 DEF LocalInv, CheckpointInv, CommitInv, LostInv, DoneInv,
                                  LoggedInv, StoredInv
  <2>3. EchoInv(new)
    BY <1>1, <1>6, <1>9, <2>1 DEF LocalInv, LoggedInv, EchoInv
  <2>4. QED
    BY <2>2, <2>3 DEF LocalInv
<1>11. /\ UNCHANGED <<rows, changeLog, lastId, changes, held, cleared, now>>
       /\ checkpoints' \in [Users -> Nat \cup {NoRow}] /\ now' \in Nat /\ HeldInv'
       /\ held' \in [Devices -> Nat] /\ cleared' \in [Devices -> Nat]
       /\ faults' \in Nat /\ (faults' = 0 => faults = 0)
  BY <1>a, <1>1 DEF IInv, HeldInv, ReadsUpTo, Reply, database, devices, TypeOK, TablesType
<1>12. new.todo \subseteq new.batch /\ new.batch \subseteq 1..Len(changes)
       /\ new.pc # "commit" /\ req[r].pc \notin {"append", "commit"}
  BY <1>1, <1>2, <1>9
<1>13. QED
  BY <1>7, <1>8, <1>10, <1>11, <1>12, KeepInv

\* The checkpoint row takes the new checkpoint and the reply leaves.
LEMMA UpdateCheckpointStep ==
    ASSUME IInv, NEW r \in Requests, UpdateCheckpoint(r)
    PROVE  IInv'
<1>1. TypeOK /\ LocalInv(req[r]) /\ req[r].pc = "save"
  BY DEF IInv, UpdateCheckpoint
<1>2. /\ req[r] \in Request
      /\ req[r].todo \subseteq req[r].batch /\ req[r].batch \subseteq 1..Len(changes)
      /\ req[r].hi \in Nat
  BY <1>1, RequestFacts DEF Request
<1> DEFINE new == [req[r] EXCEPT !.pc = "answered"]
<1>3. Become(r, new)
  BY DEF UpdateCheckpoint
<1>4. new \in Request
  BY <1>2 DEF Request, Ended
<1>5. /\ new.pc = "answered" /\ new.reply = req[r].reply /\ new.hi = req[r].hi
      /\ new.todo = req[r].todo /\ new.batch = req[r].batch
      /\ new.last = req[r].last /\ new.lost = req[r].lost
  BY <1>2 DEF Request
<1> HIDE DEF new
<1>6. LocalInv(new)
  BY <1>1, <1>5 DEF LocalInv, CheckpointInv, CommitInv, LostInv, DoneInv, LoggedInv,
                    EchoInv, StoredInv
<1>7. UNCHANGED <<rows, changeLog, lastId, changes, held, cleared, now, faults>>
  BY DEF UpdateCheckpoint, devices
<1>8. checkpoints' \in [Users -> Nat \cup {NoRow}]
  BY <1>1, <1>2 DEF UpdateCheckpoint, TypeOK, TablesType
<1>9. new.todo \subseteq new.batch /\ new.batch \subseteq 1..Len(changes)
      /\ new.pc # "commit" /\ req[r].pc \notin {"append", "commit"}
  BY <1>1, <1>2, <1>5
<1>10. QED
  BY <1>3, <1>4, <1>6, <1>7, <1>8, <1>9, SameTypes, KeepInv

-----------------------------------------------------------------------------
(* Devices and failures *)

\* A slot without a request knows nothing that could be wrong.
LEMMA IdleInv ==
    ASSUME IInv
    PROVE  LocalInv(Idle)
<1>1. lastId \in Nat /\ lastId >= 0
  BY DEF IInv, TypeOK, LogType
<1>2. /\ Idle.pc = "idle" /\ Idle.last = 0 /\ Idle.hi = 0 /\ Idle.lost = FALSE
      /\ Idle.batch = {} /\ Idle.todo = {}
  BY DEF Idle
<1>3. QED
  BY <1>1, <1>2 DEF LocalInv, CheckpointInv, CommitInv, LostInv, DoneInv, LoggedInv,
                    EchoInv, StoredInv

\* A request arrives with nothing logged yet.
LEMMA ReceiveStep ==
    ASSUME IInv, NEW r \in Requests, NEW d \in Devices, Receive(r, d)
    PROVE  IInv'
<1>1. TypeOK /\ req[r].pc = "idle" /\ held[d] \in Nat /\ held[d] <= lastId /\ lastId \in Nat
      /\ cleared[d] \in Nat /\ now \in Nat /\ Len(changes) \in Nat
  BY DEF IInv, HeldInv, TypeOK, LogType, Receive
<1>2. PICK a \in 1..(cleared[d] + 1), b \in 0..Len(changes),
           last \in {0, held[d]}, t \in 1..(now + MaxSkew) :
        LET batch == {n \in a..b : changes[n].device = d} IN
        Become(r, [Idle EXCEPT !.pc = "select", !.device = d, !.last = last,
                               !.sentAt = t, !.batch = batch, !.todo = batch])
  BY DEF Receive
<1> DEFINE batch == {n \in a..b : changes[n].device = d}
           new   == [Idle EXCEPT !.pc = "select", !.device = d, !.last = last,
                                 !.sentAt = t, !.batch = batch, !.todo = batch]
<1>3. MaxSkew \in Nat
  BY ConstantsAssumption DEF ConstantsAssumption
<1>4. batch \subseteq 1..Len(changes) /\ batch \subseteq Nat
  BY <1>1, <1>2
<1>5. t \in Nat /\ last \in Nat /\ last <= lastId
  BY <1>1, <1>2, <1>3
<1>6. Become(r, new)
  BY <1>2
<1> HIDE DEF batch
<1>7. new \in Request
  BY <1>4, <1>5, IdleType DEF Request, Running
<1>8. /\ new.pc = "select" /\ new.last = last /\ new.hi = 0 /\ new.lost = FALSE
      /\ new.batch = batch /\ new.todo = batch
  BY DEF Idle
<1> HIDE DEF new
<1>9. LocalInv(new)
  BY <1>1, <1>5, <1>8 DEF LocalInv, CheckpointInv, CommitInv, LostInv, DoneInv, LoggedInv,
                          EchoInv, StoredInv
<1>10. UNCHANGED <<rows, changeLog, lastId, changes, held, cleared, now, faults>>
       /\ checkpoints' \in [Users -> Nat \cup {NoRow}]
  BY <1>1 DEF Receive, database, devices, TypeOK, TablesType
<1>11. QED
  BY <1>1, <1>4, <1>6, <1>7, <1>8, <1>9, <1>10, SameTypes, KeepInv

\* A reply is applied, or nobody waits for it; the checkpoint saved is one the
\* sequence has passed.
LEMMA ReplyStep ==
    ASSUME IInv, NEW r \in Requests, Deliver(r) \/ Drop(r)
    PROVE  IInv'
<1>1. TypeOK /\ LocalInv(req[r]) /\ req[r] \in Request /\ HeldInv
      /\ req[r].todo \subseteq req[r].batch /\ req[r].batch \subseteq 1..Len(changes)
  BY RequestFacts DEF IInv
<1>2. req[r].pc \notin {"append", "commit"} /\ Become(r, Idle)
      /\ UNCHANGED <<rows, changeLog, lastId, changes, checkpoints, now, faults>>
  BY DEF Deliver, Drop, Ended, database, devices
<1>3. /\ now \in Nat /\ faults \in Nat /\ lastId \in Nat
      /\ held \in [Devices -> Nat] /\ cleared \in [Devices -> Nat]
      /\ checkpoints \in [Users -> Nat \cup {NoRow}]
  BY <1>1 DEF TypeOK, LogType, TablesType
<1>4. held' \in [Devices -> Nat] /\ cleared' \in [Devices -> Nat] /\ HeldInv'
  <2>1. CASE Deliver(r)
    <3>1. req[r].hi \in Nat /\ req[r].hi <= lastId
      BY <1>1 DEF Request, LocalInv, CheckpointInv
    <3>2. req[r].device \in Devices /\ cleared[req[r].device] \in Nat
      BY <1>1, <1>3 DEF Request
    <3>3. req[r].batch \subseteq Nat
      BY <1>1 DEF Request
    <3>4. held' = [held EXCEPT ![req[r].device] = req[r].hi]
      BY <2>1 DEF Deliver
    <3>5. \E n \in Nat : cleared' = [cleared EXCEPT ![req[r].device] = n]
      BY <2>1, <3>2, <3>3 DEF Deliver
    <3>6. held' \in [Devices -> Nat] /\ cleared' \in [Devices -> Nat]
      BY <1>3, <3>1, <3>4, <3>5
    <3>7. HeldInv'
      BY <1>1, <1>2, <1>3, <3>1, <3>4 DEF HeldInv
    <3>8. QED
      BY <3>6, <3>7
  <2>2. CASE Drop(r)
    BY <1>1, <1>2, <1>3, <2>2 DEF Drop, devices, HeldInv
  <2>3. QED
    BY <2>1, <2>2
<1>5. LocalInv(Idle) /\ Idle \in Request /\ Idle.pc # "commit"
      /\ Idle.todo \subseteq Idle.batch /\ Idle.batch \subseteq 1..Len(changes)
  BY IdleType, IdleInv
<1>6. QED
  BY <1>2, <1>3, <1>4, <1>5, KeepInv

\* Making a change touches nothing the invariant reads but the length of the
\* list.
LEMMA MakeChangeStep ==
    ASSUME IInv, NEW d \in Devices, NEW e \in Edited, NEW a \in {"upsert", "delete"},
           MakeChange(d, e, a)
    PROVE  IInv'
<1>1. TypeOK /\ Len(changes) \in Nat /\ changes \in Seq(Change)
  BY DEF IInv, TypeOK
<1>2. /\ changes' \in Seq(Change) /\ Len(changes') = Len(changes) + 1
      /\ \A n \in 1..Len(changes) : changes'[n] = changes[n]
  BY <1>1, MakeChangeFacts
<1>3. 1..Len(changes) \subseteq 1..Len(changes')
  BY <1>1, <1>2
<1>4. UNCHANGED <<rows, changeLog, lastId, checkpoints, req, now, held, cleared, faults>>
  BY DEF MakeChange, database
<1>5. TypeOK'
  <2>1. RequestType'
    BY <1>1, <1>3, <1>4 DEF TypeOK, RequestType
  <2>2. TablesType' /\ LogType'
    BY <1>1, <1>3, <1>4 DEF TypeOK, TablesType, LogType
  <2>3. QED
    BY <1>1, <1>2, <1>4, <2>1, <2>2 DEF TypeOK
<1>6. Grown
  BY <1>1, <1>2, <1>3, <1>4 DEF Grown, TypeOK, LogType
<1>7. \A q \in Requests : LocalInv(req[q])'
  BY <1>4, <1>6, LocalFrame
<1>8. DistinctIds' /\ HeldInv'
  BY <1>4 DEF IInv, DistinctIds, HeldInv
<1>9. AppliedInv'
  BY <1>4 DEF IInv, AppliedInv, Logged, HeadOf
<1>10. LoggedWasStored'
  BY <1>4, <1>6, StoredFrame DEF LoggedWasStored
<1>11. QED
  BY <1>5, <1>7, <1>8, <1>9, <1>10 DEF IInv

\* A crash ends every running request; the database stays.
LEMMA CrashStep ==
    ASSUME IInv, Crash
    PROVE  IInv'
<1>1. TypeOK /\ (\A q \in Requests : LocalInv(req[q])) /\ faults \in Nat
  BY DEF IInv, TypeOK
<1>2. UNCHANGED <<rows, changeLog, lastId, checkpoints, now, changes, held, cleared>>
      /\ faults' = faults + 1
      /\ req' = [r \in Requests |-> IF req[r].pc \in Running
                                    THEN [req[r] EXCEPT !.pc = "failed"] ELSE req[r]]
  BY DEF Crash, Fault, database, devices
<1>3. ASSUME NEW q \in Requests
      PROVE  /\ req'[q] \in Request
             /\ req'[q].todo = req[q].todo /\ req'[q].batch = req[q].batch
             /\ req'[q].last = req[q].last /\ req'[q].hi = req[q].hi
             /\ req'[q] = req[q] \/ req'[q].pc = "failed"
             /\ req'[q].pc \notin Running
  <2>1. req[q] \in Request
    BY <1>1, RequestFacts
  <2>2. CASE req[q].pc \in Running
    <3>1. req'[q] = [req[q] EXCEPT !.pc = "failed"]
      BY <1>2, <2>2
    <3>2. QED
      BY <2>1, <3>1 DEF Request, Running, Ended
  <2>3. CASE req[q].pc \notin Running
    <3>1. req'[q] = req[q]
      BY <1>2, <2>3
    <3>2. QED
      BY <2>1, <2>3, <3>1
  <2>4. QED
    BY <2>2, <2>3
<1>4. TypeOK'
  <2>1. req' \in [Requests -> Request]
    BY <1>2, <1>3
  <2>2. RequestType'
    BY <1>1, <1>2, <1>3, <2>1, RequestFacts DEF RequestType
  <2>3. TablesType' /\ LogType'
    BY <1>1, <1>2 DEF TypeOK, TablesType, LogType
  <2>4. faults' \in Nat
    BY <1>1, <1>2
  <2>5. QED
    BY <1>1, <1>2, <2>2, <2>3, <2>4 DEF TypeOK
<1>5. Grown
  BY <1>1, <1>2, SameGrown
<1>6. ASSUME NEW q \in Requests PROVE LocalInv(req[q])'
  <2>1. CASE req'[q] = req[q]
    BY <1>2, <1>5, <2>1, LocalFrame
  <2>2. CASE req'[q].pc = "failed"
    BY <1>1, <1>2, <1>3, <2>2 DEF LocalInv, CheckpointInv, CommitInv, LostInv, DoneInv,
                                  LoggedInv, EchoInv, StoredInv
  <2>3. QED
    BY <1>3, <2>1, <2>2
<1>7. DistinctIds'
  BY <1>3 DEF DistinctIds, Running
<1>8. AppliedInv'
  <2>1. faults' # 0
    BY <1>1, <1>2
  <2>2. QED
    BY <2>1 DEF AppliedInv
<1>9. LoggedWasStored' /\ HeldInv'
  BY <1>2 DEF IInv, LoggedWasStored, HeldInv
<1>10. QED
  BY <1>4, <1>6, <1>7, <1>8, <1>9 DEF IInv

\* A statement that fails leaves what earlier ones wrote.
LEMMA StatementFailsStep ==
    ASSUME IInv, NEW r \in Requests, StatementFails(r)
    PROVE  IInv'
<1>1. req[r].pc \in Running /\ Fail(r)
      /\ UNCHANGED <<rows, changeLog, lastId, changes, checkpoints, held, cleared, now>>
  BY DEF StatementFails, database, devices
<1>2. faults' \in Nat /\ faults' # 0
  BY DEF StatementFails, Fault, IInv, TypeOK
<1>3. QED
  BY <1>1, <1>2, FailInv

\* The clock, and steps of nobody.
LEMMA ClockStep ==
    ASSUME IInv, Tick \/ UNCHANGED vars
    PROVE  IInv'
<1>1. UNCHANGED <<rows, changeLog, lastId, checkpoints, req, changes, held, cleared, faults>>
  BY DEF Tick, vars, database, devices
<1>2. now' \in Nat
  BY DEF Tick, vars, IInv, TypeOK
<1>3. TypeOK'
  BY <1>1, <1>2 DEF IInv, TypeOK, TablesType, LogType, RequestType
<1>4. \A q \in Requests : LocalInv(req[q])'
  BY <1>1, SameGrown, LocalFrame DEF IInv
<1>5. (HeldInv /\ DistinctIds /\ AppliedInv /\ LoggedWasStored)'
  BY <1>1 DEF IInv, HeldInv, DistinctIds, AppliedInv, Logged, HeadOf, LoggedWasStored
<1>6. QED
  BY <1>3, <1>4, <1>5 DEF IInv

-----------------------------------------------------------------------------
(* Theorems *)

\* The invariant holds before the first request.
LEMMA InitInv == Init => IInv
<1> SUFFICES ASSUME Init PROVE IInv
  OBVIOUS
<1>1. TypeOK
  BY InitType
<1>2. req = [r \in Requests |-> Idle] /\ lastId = 0 /\ changeLog = {}
      /\ held = [d \in Devices |-> 0]
  BY DEF Init
<1>3. Idle.pc = "idle" /\ Idle.last = 0 /\ Idle.hi = 0 /\ Idle.lost = FALSE
      /\ Idle.batch = {} /\ Idle.todo = {}
  BY DEF Idle
<1>4. \A r \in Requests : LocalInv(req[r])
  BY <1>2, <1>3 DEF LocalInv, CheckpointInv, CommitInv, LostInv, DoneInv, LoggedInv,
                    EchoInv, StoredInv
<1>5. DistinctIds /\ HeldInv /\ LoggedWasStored
  BY <1>2, <1>3 DEF DistinctIds, HeldInv, LoggedWasStored
<1>6. AppliedInv
  BY DEF Init, AppliedInv, Absent
<1>7. QED
  BY <1>1, <1>4, <1>5, <1>6 DEF IInv

\* Every step, of any request, device or failure, preserves the invariant.
LEMMA StepInv == IInv /\ [Next]_vars => IInv'
<1> SUFFICES ASSUME IInv, [Next]_vars PROVE IInv'
  OBVIOUS
<1>1. ASSUME NEW r \in Requests, Sync(r) PROVE IInv'
  BY <1>1, CheckpointStep, FindStep, WriteStep, AppendBeginStep, AppendCommitStep,
     AppendRefusedStep, ReadStep, UpdateCheckpointStep DEF Sync
<1>2. ASSUME NEW r \in Requests, ReadBreaksOff(r) \/ StatementFails(r) PROVE IInv'
  BY <1>2, ReadStep, StatementFailsStep
<1>3. CASE DeviceStep
  BY <1>3, MakeChangeStep, ReceiveStep, ReplyStep DEF DeviceStep
<1>4. CASE Crash
  BY <1>4, CrashStep
<1>5. CASE Tick \/ UNCHANGED vars
  BY <1>5, ClockStep
<1>6. QED
  BY <1>1, <1>2, <1>3, <1>4, <1>5 DEF Next

\* The inductive invariant holds in every reachable state.
THEOREM Invariance == Spec => []IInv
BY InitInv, StepInv, PTL DEF Spec

\* Type correctness of the service's tables and requests, and an id of the log
\* names one entry (change_log's key), however many inserts overlap.
THEOREM TypeCorrect == Spec => []TypeOK
<1>1. IInv => TypeOK
  BY DEF IInv
<1>2. QED
  BY <1>1, Invariance, PTL

\* What applyUpsert and applyDelete write is logged or about to be, as long as
\* no statement fails.
THEOREM WritesAreLogged == Spec => []AppliedIsLogged
<1>1. IInv => AppliedIsLogged
  BY DEF IInv, AppliedInv, AppliedIsLogged, HeadOf
<1>2. QED
  BY <1>1, Invariance, PTL

\* Sync logs each of the request's own changes above the checkpoint received and
\* answers with it, unless it lies above the checkpoint handed back; the client's
\* clearing of its queue rests on it.
THEOREM RequestsAreEchoed == Spec => []OwnChangesEchoed
<1>1. IInv => OwnChangesEchoed
  BY DEF IInv, LocalInv, EchoInv, OwnChangesEchoed
<1>2. QED
  BY <1>1, Invariance, PTL

\* The log announces no transaction that was never stored.
THEOREM LogIsBacked == Spec => []LoggedWasStored
<1>1. IInv => LoggedWasStored
  BY DEF IInv
<1>2. QED
  BY <1>1, Invariance, PTL

\* No statement touches the row of a deleted transaction.
LEMMA DeletedStep ==
    ASSUME TypeOK, [Next]_vars, NEW t \in Transactions, rows[t].state = "deleted"
    PROVE  rows'[t] = rows[t]
<1>1. ASSUME NEW r \in Requests, NEW n \in req[r].todo,
             rows[changes[n].entity].state # "deleted",
             NEW row, rows' = [rows EXCEPT ![changes[n].entity] = row]
      PROVE  rows'[t] = rows[t]
  BY <1>1 DEF TypeOK, TablesType, Entities
<1>2. ASSUME NEW r \in Requests, Update(r) \/ Create(r) \/ Delete(r)
      PROVE  rows'[t] = rows[t]
  BY ZenonT(60), <1>1, <1>2 DEF Update, Create, Delete, Write, Insertable, Deletable
<1>3. ASSUME NEW r \in Requests, Sync(r) PROVE rows'[t] = rows[t]
  BY <1>2, <1>3 DEF Sync, SelectCheckpoint, InsertCheckpoint, Find, AppendBegin,
                    AppendCommit, AppendRefused, Read, Reply, UpdateCheckpoint, database
<1>4. CASE DeviceStep
  BY <1>4 DEF DeviceStep, MakeChange, Receive, Deliver, Drop, database
<1>5. CASE \/ Crash \/ Tick \/ UNCHANGED vars
           \/ \E r \in Requests : ReadBreaksOff(r) \/ StatementFails(r)
  BY <1>5 DEF Crash, Tick, vars, ReadBreaksOff, Reply, StatementFails, database
<1>6. QED
  BY <1>3, <1>4, <1>5 DEF Next

\* A deleted transaction stays as it is, whatever decisions were taken before
\* the deletion.
THEOREM DeletionIsFinal == Spec => DeletedUntouched
<1>1. TypeOK /\ [Next]_vars =>
        [\A t \in Transactions : rows[t].state = "deleted" => rows'[t] = rows[t]]_vars
  BY DeletedStep
<1>2. QED
  BY <1>1, TypeCorrect, PTL DEF Spec, DeletedUntouched
=============================================================================
