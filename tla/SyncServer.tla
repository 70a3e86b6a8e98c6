----------------------------- MODULE SyncServer -----------------------------
(***************************************************************************)
(* The backend's sync service (SyncService.Sync with its repositories) for *)
(* one scope: requests of several devices that run at the same time, each  *)
(* repository call a statement of its own, without a transaction around    *)
(* them.                                                                   *)
(*                                                                         *)
(* A change stands for its content: a row holds the number of the change   *)
(* it was last written from, and a log entry the number of the change it   *)
(* records.  Decoding, the scope's id and the marshalled snapshot are left *)
(* out, except that the empty snapshot of a lost change is not JSON.       *)
(***************************************************************************)
EXTENDS Integers, Sequences, FiniteSets

CONSTANTS
    Requests,      \* concurrent handler activations
    Devices,       \* clients of the scope
    Users,         \* their owners
    UserOf,        \* the owner of a device
    Transactions,  \* transaction ids
    Categories,    \* category ids
    CategoryOf,    \* the category a transaction refers to
    Edited,        \* the entities the devices change
    NoRow,         \* the sync_checkpoints row does not exist
    MaxInFlight,   \* bound: requests at the same time
    MaxSkew,       \* bound: how far a device's clock may be ahead
    MaxTime,       \* bound: the server's clock
    MaxChanges,    \* bound: changes the devices make
    MaxLog,        \* bound: ids handed out by change_log
    MaxFaults      \* bound: failed statements and crashes

ASSUME ConstantsAssumption ==
    /\ Devices # {}
    /\ UserOf \in [Devices -> Users]
    /\ CategoryOf \in [Transactions -> Categories]
    /\ Transactions \cap Categories = {}
    /\ Edited \subseteq Transactions \cup Categories
    /\ NoRow \notin Nat
    /\ {MaxInFlight, MaxSkew, MaxTime, MaxChanges, MaxLog, MaxFaults} \subseteq Nat

VARIABLES
    \* the database
    rows,          \* transactions and categories
    changeLog,     \* the visible entries of change_log
    lastId,        \* its sequence
    checkpoints,   \* sync_checkpoints.last_checkpoint of each user
    \* the service
    req,           \* locals and program counter of each activation
    now,           \* the server's clock
    \* the devices
    changes,       \* the changes made so far
    held,          \* the checkpoint a device has saved
    cleared,       \* the last change it has removed from its queue
    faults         \* failures injected so far

database == <<rows, changeLog, lastId, checkpoints>>
devices  == <<changes, held, cleared>>
vars     == <<database, req, now, devices, faults>>

Entities == Transactions \cup Categories

-----------------------------------------------------------------------------
\* sentAt is the client timestamp of the change the row was written from, 0
\* for a seeded row; updatedAt is the column, stamped by the server.
Row    == [state : {"none", "live", "deleted"}, change : Nat,
           sentAt : Nat, updatedAt : Nat]
Entry  == [id : Nat, change : Nat]
Change == [device : Devices, entity : Entities, action : {"upsert", "delete"}]

Running == {"select", "insert", "find", "update", "create", "delete",
            "append", "commit", "read", "save"}
Ended   == {"answered", "failed"}

\* A device stamps all changes of a request while it builds it: sentAt.
\* lost: a change lost against the row, and its snapshot is "".
Request == [pc : {"idle"} \cup Running \cup Ended, device : Devices, last : Nat,
            sentAt : Nat, batch : SUBSET Nat, todo : SUBSET Nat, stamp : Nat,
            lost : BOOLEAN, id : Nat, reply : SUBSET Nat, hi : Nat]

Absent == [state |-> "none", change |-> 0, sentAt |-> 0, updatedAt |-> 0]

Idle == [pc |-> "idle", device |-> CHOOSE d \in Devices : TRUE, last |-> 0,
         sentAt |-> 0, batch |-> {}, todo |-> {}, stamp |-> 0, lost |-> FALSE,
         id |-> 0, reply |-> {}, hi |-> 0]

Become(r, state) == req' = [req EXCEPT ![r] = state]
Fail(r) == Become(r, [req[r] EXCEPT !.pc = "failed"])

\* The loop over localChanges works in request order, then reads the log.
Current(r, n) == n \in req[r].todo /\ \A m \in req[r].todo : n <= m
LoopHead(todo) == IF todo = {} THEN "read" ELSE "find"

Init ==
    /\ \E seeded \in SUBSET Categories :
         rows = [e \in Entities |-> IF e \in seeded
                                    THEN [Absent EXCEPT !.state = "live"]
                                    ELSE Absent]
    /\ changeLog = {}
    /\ lastId = 0
    /\ checkpoints = [u \in Users |-> NoRow]
    /\ req = [r \in Requests |-> Idle]
    /\ now = 1
    /\ changes = <<>>
    /\ held = [d \in Devices |-> 0]
    /\ cleared = [d \in Devices |-> 0]
    /\ faults = 0

-----------------------------------------------------------------------------
(* The devices *)

\* A device changes what it has written, pulled or was seeded with; ids of new
\* entities are fresh.
Knows(d, e) ==
    \/ e \in Categories
    \/ \E n \in 1..Len(changes) : changes[n].device = d /\ changes[n].entity = e
    \/ \E x \in changeLog : x.id <= held[d] /\ changes[x.change].entity = e

MakeChange(d, e, a) ==
    /\ Len(changes) < MaxChanges
    /\ \/ Knows(d, e)
       \/ a = "upsert" /\ \A n \in 1..Len(changes) : changes[n].entity # e
    /\ changes' = Append(changes, [device |-> d, entity |-> e, action |-> a])
    /\ UNCHANGED <<database, req, now, held, cleared, faults>>

\* Changes some request has still to log, for the bound on the log.
InFlight == UNION {{r} \X req[r].todo : r \in Requests}

\* A request carries its device's queue as it was when the request was built,
\* of which a late request may contain changes cleared since; a device that was
\* reinstalled sends checkpoint 0.  validateScope writes nothing, and a request
\* it refuses is left out.
Receive(r, d) ==
    /\ req[r].pc = "idle"
    /\ Cardinality({q \in Requests : req[q].pc \in Running}) < MaxInFlight
    /\ \E a \in 1..(cleared[d] + 1), b \in 0..Len(changes),
          last \in {0, held[d]}, t \in 1..(now + MaxSkew) :
         LET batch == {n \in a..b : changes[n].device = d} IN
         /\ lastId + Cardinality(InFlight) + Cardinality(batch) <= MaxLog
         /\ Become(r, [Idle EXCEPT !.pc = "select", !.device = d, !.last = last,
                                   !.sentAt = t, !.batch = batch, !.todo = batch])
    /\ UNCHANGED <<database, now, devices, faults>>

\* The device has applied the reply, cleared its queue and saved its checkpoint.
Deliver(r) ==
    LET d == req[r].device IN
    /\ req[r].pc = "answered"
    /\ held' = [held EXCEPT ![d] = req[r].hi]
    /\ \E n \in req[r].batch \cup {cleared[d]} :
         /\ \A m \in req[r].batch \cup {cleared[d]} : m <= n
         /\ cleared' = [cleared EXCEPT ![d] = n]
    /\ Become(r, Idle)
    /\ UNCHANGED <<database, now, changes, faults>>

\* An error, or a reply nobody waits for.
Drop(r) ==
    /\ req[r].pc \in Ended
    /\ Become(r, Idle)
    /\ UNCHANGED <<database, now, devices, faults>>

-----------------------------------------------------------------------------
(* Sync *)

\* GetOrCreateCheckpoint, first statement; the value read is not used.
SelectCheckpoint(r) ==
    /\ req[r].pc = "select"
    /\ Become(r, [req[r] EXCEPT !.pc = IF checkpoints[UserOf[req[r].device]] = NoRow
                                       THEN "insert" ELSE LoopHead(req[r].todo)])
    /\ UNCHANGED <<database, now, devices, faults>>

\* Second statement: idx_sync_checkpoints_unique refuses a second row.
InsertCheckpoint(r) ==
    LET u == UserOf[req[r].device] IN
    /\ req[r].pc = "insert"
    /\ \/ /\ checkpoints[u] = NoRow
          /\ checkpoints' = [checkpoints EXCEPT ![u] = 0]
          /\ Become(r, [req[r] EXCEPT !.pc = LoopHead(req[r].todo)])
       \/ /\ checkpoints[u] # NoRow
          /\ Fail(r)
          /\ UNCHANGED checkpoints
    /\ UNCHANGED <<rows, changeLog, lastId, now, devices, faults>>

\* Faulty variant of Decision: the timestamps are not compared.
DecisionUnordered(action, row, sentAt) ==
    CASE row.state # "live" -> IF action = "upsert" THEN "create" ELSE "append"
      [] row.state = "live" /\ action = "delete" -> "delete"
      [] OTHER -> "update"

\* What applyUpsert and applyDelete decide from the row FindByID returned.
Decision(action, row, sentAt) ==
    CASE row.state # "live" -> IF action = "upsert" THEN "create" ELSE "append"
      [] row.state = "live" /\ action = "delete" -> "delete"
      [] OTHER -> IF sentAt > row.updatedAt THEN "update" ELSE "append"

Loses(action, row, sentAt) ==
    action = "upsert" /\ row.state = "live" /\ sentAt <= row.updatedAt

\* FindByID sees no deleted transaction.  The decision, and the timestamp the
\* write will carry, are taken here, before the next statement.
Find(r) ==
    /\ req[r].pc = "find"
    /\ \E n \in req[r].todo :
         LET row == rows[changes[n].entity] IN
         /\ Current(r, n)
         /\ Become(r, [req[r] EXCEPT
                !.pc = Decision(changes[n].action, row, req[r].sentAt),
                !.lost = Loses(changes[n].action, row, req[r].sentAt),
                !.stamp = now])
    /\ UNCHANGED <<database, now, devices, faults>>

Write(r, n) ==
    rows' = [rows EXCEPT ![changes[n].entity] =
                [state |-> "live", change |-> n, sentAt |-> req[r].sentAt,
                 updatedAt |-> req[r].stamp]]

\* Faulty variant of Update: no deleted_at IS NULL in the statement.
UpdateAnyRow(r) ==
    /\ req[r].pc = "update"
    /\ \E n \in req[r].todo :
         /\ Current(r, n)
         /\ Write(r, n)
         /\ Become(r, [req[r] EXCEPT !.pc = "append"])
    /\ UNCHANGED <<changeLog, lastId, checkpoints, now, devices, faults>>

\* UPDATE ... WHERE id = $8 AND deleted_at IS NULL; no row is an error.
Update(r) ==
    /\ req[r].pc = "update"
    /\ \E n \in req[r].todo :
         /\ Current(r, n)
         /\ \/ /\ rows[changes[n].entity].state = "live"
               /\ Write(r, n)
               /\ Become(r, [req[r] EXCEPT !.pc = "append"])
            \/ /\ rows[changes[n].entity].state # "live"
               /\ Fail(r)
               /\ UNCHANGED rows
    /\ UNCHANGED <<changeLog, lastId, checkpoints, now, devices, faults>>

\* The key must be free, of deleted rows too, and the category must exist.
Insertable(e) ==
    /\ rows[e].state = "none"
    /\ e \in Transactions => rows[CategoryOf[e]].state = "live"

\* Faulty variant of Create: the error of the insert is swallowed.
CreateUnchecked(r) ==
    /\ req[r].pc = "create"
    /\ \E n \in req[r].todo :
         /\ Current(r, n)
         /\ \/ Insertable(changes[n].entity) /\ Write(r, n)
            \/ ~Insertable(changes[n].entity) /\ UNCHANGED rows
    /\ Become(r, [req[r] EXCEPT !.pc = "append"])
    /\ UNCHANGED <<changeLog, lastId, checkpoints, now, devices, faults>>

Create(r) ==
    /\ req[r].pc = "create"
    /\ \E n \in req[r].todo :
         /\ Current(r, n)
         /\ \/ /\ Insertable(changes[n].entity)
               /\ Write(r, n)
               /\ Become(r, [req[r] EXCEPT !.pc = "append"])
            \/ /\ ~Insertable(changes[n].entity)
               /\ Fail(r)
               /\ UNCHANGED rows
    /\ UNCHANGED <<changeLog, lastId, checkpoints, now, devices, faults>>

\* A transaction is marked; a category is removed unless a transaction, even a
\* deleted one, refers to it.
Deletable(e) ==
    /\ rows[e].state = "live"
    /\ \A t \in Transactions : CategoryOf[t] = e => rows[t].state = "none"

Tombstone(r, n) == [state |-> "deleted", change |-> n, sentAt |-> req[r].sentAt,
                    updatedAt |-> now]

\* Faulty variant of Delete: the loop continues without the log entry.
DeleteUnlogged(r) ==
    /\ req[r].pc = "delete"
    /\ \E n \in req[r].todo :
         LET e == changes[n].entity IN
         /\ Current(r, n)
         /\ Deletable(e)
         /\ rows' = [rows EXCEPT ![e] = IF e \in Transactions THEN Tombstone(r, n)
                                                             ELSE Absent]
         /\ Become(r, [req[r] EXCEPT !.pc = LoopHead(req[r].todo \ {n}),
                                     !.todo = @ \ {n}])
    /\ UNCHANGED <<changeLog, lastId, checkpoints, now, devices, faults>>

Delete(r) ==
    /\ req[r].pc = "delete"
    /\ \E n \in req[r].todo :
         LET e == changes[n].entity IN
         /\ Current(r, n)
         /\ \/ /\ Deletable(e)
               /\ rows' = [rows EXCEPT ![e] = IF e \in Transactions THEN Tombstone(r, n)
                                                                   ELSE Absent]
               /\ Become(r, [req[r] EXCEPT !.pc = "append"])
            \/ /\ ~Deletable(e)
               /\ Fail(r)
               /\ UNCHANGED rows
    /\ UNCHANGED <<changeLog, lastId, checkpoints, now, devices, faults>>

\* Faulty variant of AppendBegin: the id is the largest visible one plus one.
AppendAfterMax(r) ==
    /\ req[r].pc = "append" /\ ~req[r].lost
    /\ \E i \in {x.id : x \in changeLog} \cup {0} :
         /\ \A x \in changeLog : x.id <= i
         /\ lastId' = i + 1
         /\ Become(r, [req[r] EXCEPT !.pc = "commit", !.id = i + 1])
    /\ UNCHANGED <<rows, changeLog, checkpoints, now, devices, faults>>

\* AppendChangeLog: the statement takes an id from the sequence ...
AppendBegin(r) ==
    /\ req[r].pc = "append" /\ ~req[r].lost
    /\ lastId' = lastId + 1
    /\ Become(r, [req[r] EXCEPT !.pc = "commit", !.id = lastId + 1])
    /\ UNCHANGED <<rows, changeLog, checkpoints, now, devices, faults>>

\* ... and its row becomes visible when it commits.
AppendCommit(r) ==
    /\ req[r].pc = "commit"
    /\ \E n \in req[r].todo :
         /\ Current(r, n)
         /\ changeLog' = changeLog \cup {[id |-> req[r].id, change |-> n]}
         /\ Become(r, [req[r] EXCEPT !.pc = LoopHead(req[r].todo \ {n}),
                                     !.todo = @ \ {n}, !.stamp = 0, !.id = 0])
    /\ UNCHANGED <<rows, lastId, checkpoints, now, devices, faults>>

\* The snapshot of a lost change is "", which the JSONB column refuses.
AppendRefused(r) ==
    /\ req[r].pc = "append" /\ req[r].lost
    /\ Fail(r)
    /\ UNCHANGED <<database, now, devices, faults>>

\* The rows of GetChangesSince above the checkpoint in the request.
Newer(r) == {x.id : x \in {y \in changeLog : y.id > req[r].last}}

\* Faulty variant of Reply: newCheckpoint is the newest entry's, read or not.
ReplyUpToNewest(r, ids) ==
    /\ req[r].pc = "read"
    /\ Become(r, [req[r] EXCEPT !.pc = "save", !.reply = ids, !.hi = lastId])
    /\ UNCHANGED <<database, now, devices>>

\* The answer is made of the rows that were iterated; newCheckpoint is the
\* highest of them.
Reply(r, ids) ==
    /\ req[r].pc = "read"
    /\ \E hi \in ids \cup {req[r].last} :
         /\ \A i \in ids \cup {req[r].last} : i <= hi
         /\ Become(r, [req[r] EXCEPT !.pc = "save", !.reply = ids, !.hi = hi])
    /\ UNCHANGED <<database, now, devices>>

\* Faulty variant of Read: the device's own entries are filtered out.
ReadOthers(r) ==
    /\ Reply(r, {x.id : x \in {y \in changeLog : /\ y.id > req[r].last
                                                 /\ changes[y.change].device # req[r].device}})
    /\ UNCHANGED faults

Read(r) == Reply(r, Newer(r)) /\ UNCHANGED faults

UpdateCheckpoint(r) ==
    /\ req[r].pc = "save"
    /\ checkpoints' = [checkpoints EXCEPT ![UserOf[req[r].device]] = req[r].hi]
    /\ Become(r, [req[r] EXCEPT !.pc = "answered"])
    /\ UNCHANGED <<rows, changeLog, lastId, now, devices, faults>>

-----------------------------------------------------------------------------
(* Failures: the statement is not executed, its caller is gone, or its rows *)
(* break off.  What earlier statements did stays.                           *)

Fault == faults < MaxFaults /\ faults' = faults + 1

StatementFails(r) ==
    /\ req[r].pc \in Running
    /\ Fault
    /\ Fail(r)
    /\ UNCHANGED <<database, now, devices>>

\* Faulty variant of ReadBreaksOff: the rows are not read in id order.
ReadBreaksOffAnywhere(r) ==
    /\ \E k \in Newer(r) : Reply(r, Newer(r) \ {k})
    /\ Fault

\* The loop of GetChangesSince ends without looking at rows.Err(): when the
\* connection breaks off at row k, the rows before it, in id order, are taken
\* for all there are.
ReadBreaksOff(r) ==
    /\ \E k \in Newer(r) : Reply(r, {i \in Newer(r) : i < k})
    /\ Fault

Crash ==
    /\ Fault
    /\ req' = [r \in Requests |-> IF req[r].pc \in Running
                                  THEN [req[r] EXCEPT !.pc = "failed"] ELSE req[r]]
    /\ UNCHANGED <<database, now, devices>>

Tick ==
    /\ now < MaxTime
    /\ now' = now + 1
    /\ UNCHANGED <<database, req, devices, faults>>

-----------------------------------------------------------------------------
Sync(r) ==
    \/ SelectCheckpoint(r) \/ InsertCheckpoint(r)
    \/ Find(r) \/ Update(r) \/ Create(r) \/ Delete(r)
    \/ AppendBegin(r) \/ AppendCommit(r) \/ AppendRefused(r)
    \/ Read(r) \/ UpdateCheckpoint(r)

DeviceStep ==
    \/ \E d \in Devices, e \in Edited, a \in {"upsert", "delete"} : MakeChange(d, e, a)
    \/ \E r \in Requests : (\E d \in Devices : Receive(r, d)) \/ Deliver(r) \/ Drop(r)

Next ==
    \/ \E r \in Requests : Sync(r) \/ ReadBreaksOff(r) \/ StatementFails(r)
    \/ DeviceStep
    \/ Crash
    \/ Tick

Spec == Init /\ [][Next]_vars
-----------------------------------------------------------------------------
(* Properties of any number of concurrent requests *)

TablesType ==
    /\ rows \in [Entities -> Row]
    /\ \A c \in Categories : rows[c].state # "deleted"
    /\ checkpoints \in [Users -> Nat \cup {NoRow}]

\* The ids of visible entries come from the sequence and name one entry each.
LogType ==
    /\ lastId \in Nat
    /\ changeLog \subseteq Entry
    /\ \A x \in changeLog : x.id <= lastId /\ x.change \in 1..Len(changes)
    /\ \A x, y \in changeLog : x.id = y.id => x = y

RequestType ==
    /\ req \in [Requests -> Request]
    /\ \A r \in Requests : req[r].todo \subseteq req[r].batch
                        /\ req[r].batch \subseteq 1..Len(changes)

\* Every field holds a value the service can produce, and change_log never
\* holds two entries with one id, however the inserts overlap.
TypeOK ==
    /\ TablesType /\ LogType /\ RequestType
    /\ changes \in Seq(Change)
    /\ held \in [Devices -> Nat] /\ cleared \in [Devices -> Nat]
    /\ now \in Nat /\ faults \in Nat

Logged(n) == \E x \in changeLog : x.change = n

\* A write is followed by its log entry: as long as no statement fails, the
\* change a row was last written from is logged or about to be, also when Sync
\* ends in an error of its own (a lost change, a vanished row, a constraint).
AppliedIsLogged ==
    faults = 0 => \A e \in Entities :
        \/ rows[e].change = 0
        \/ Logged(rows[e].change)
        \/ \E r \in Requests : /\ req[r].pc \in {"append", "commit"}
                               /\ rows[e].change \in req[r].todo

\* An answer accounts for what the request brought along: each of its changes
\* is in the log above the device's old checkpoint, and either among the
\* entries returned or above the new checkpoint, never behind it unseen.  The
\* client clears its queue on the strength of this (syncNow), whatever else
\* was appended meanwhile and even if the rows broke off.
OwnChangesEchoed ==
    \A r \in Requests : req[r].pc = "answered" =>
        \A n \in req[r].batch :
            \E x \in changeLog :
                /\ x.change = n /\ req[r].last < x.id
                /\ x.id \in req[r].reply \/ req[r].hi < x.id

\* The log announces no transaction the server never stored: a logged upsert
\* has its row, live or marked deleted (an error of the insert ends Sync
\* before the append).
LoggedWasStored ==
    \A x \in changeLog :
        /\ changes[x.change].action = "upsert"
        /\ changes[x.change].entity \in Transactions
        => rows[changes[x.change].entity].state # "none"

\* A deleted transaction stays as it is: no update that was decided before the
\* deletion and no re-creation touches its row.
DeletedUntouched ==
    [][\A t \in Transactions : rows[t].state = "deleted" => rows'[t] = rows[t]]_vars
=============================================================================
