----------------------------- MODULE SyncEngine -----------------------------
(***************************************************************************)
(* The client's sync engine: the single-flight synchronisation loop of     *)
(* frontend/lib/core/sync/sync_engine.dart with the local database it      *)
(* works on (the DAOs), the triggers that start it and the crashes,        *)
(* failures and late requests it has to live with.                         *)
(*                                                                         *)
(* The server appears as far as one client and one scope can see it: a     *)
(* change log that grows, to which a sync request appends the changes it   *)
(* carries one by one, until it is refused or answered with what it reads  *)
(* of the log above the client's checkpoint.  Positions stand for          *)
(* change_log ids: an entry has its id before anyone can read it, and a    *)
(* read may break off.                                                     *)
(*                                                                         *)
(* Time is abstracted: an armed timer may fire at any moment.              *)
(***************************************************************************)
EXTENDS Integers, Sequences, FiniteSets

CONSTANTS
    Calls,       \* activations of the async function syncNow
    Entities,    \* transaction ids
    Actions,     \* actions the DAO hook records: subset of {"update", "delete"}
    SnapshotOK,  \* whether an upsert's logged snapshot decodes on the client: not as the
                 \* service encodes it, but as the client's tests have it sent
    NoMeta,      \* the sync_meta row does not exist yet
    MaxBackoff,  \* _maxBackoff
    MaxEdits,    \* bound: local edits
    MaxForeign,  \* bound: entries other devices add to the log
    MaxLog,      \* bound: length of the log
    MaxStrays,   \* bound: abandoned requests still travelling
    MaxFaults    \* bound: restarts, failed statements and calls, broken-off reads

ASSUME ConstantsAssumption ==
    /\ Calls # {}
    /\ Actions \subseteq {"update", "delete"}
    /\ SnapshotOK \subseteq BOOLEAN /\ SnapshotOK # {}
    /\ NoMeta \notin Nat
    /\ MaxBackoff \in Nat \ {0}
    /\ {MaxEdits, MaxForeign, MaxLog, MaxStrays, MaxFaults} \subseteq Nat

VARIABLES
    \* the engine's fields: lost when the process dies
    isSyncing, isApplyingRemote, debounceTimer, backoffDelay,
    autoSyncEnabled, isOnline,
    call,             \* locals and program counter of each syncNow activation
    \* the local database and the preferences: survive a restart
    transactions, pendingChanges, nextId, syncMeta, autoSyncPref,
    \* the server and the network
    changeLog, strays,
    faults            \* failures injected so far

sync    == <<isSyncing, call>>
timers  == <<debounceTimer, backoffDelay>>
flags   == <<isApplyingRemote, autoSyncEnabled, isOnline>>
engine  == <<sync, timers, flags>>
disk    == <<transactions, pendingChanges, nextId, syncMeta, autoSyncPref>>
server  == <<changeLog, strays>>
vars    == <<engine, disk, server, faults>>

-----------------------------------------------------------------------------
Change == [id : Nat, entity : Entities, action : Actions]
\* change is the local change the entry carries, 0 when another device wrote it.
\* seen is when others can read it: as soon as it has its id, not yet, or since
\* some later moment.
Entry  == [entity : Entities, change : Nat, ok : BOOLEAN,
           seen : {"atOnce", "inserting", "late"}]
\* Where a local row's content comes from: nowhere, the local edit with that
\* id or one that was never recorded, or the log entry at that position.  (The
\* deletion mark, which applying an entry never clears, is left out.)
Row    == [src : {"none", "edit", "unrecorded", "log"}, at : Nat]
\* at: the entry an abandoned request is inserting, 0 if none.
Stray  == [todo : SUBSET Change, at : Nat]

CallState == [pc : {"idle", "getMeta", "getPending", "rpc", "reply", "apply", "remove"},
              meta : Nat \cup {NoMeta}, batch : SUBSET Change,
              todo : SUBSET Change, hi : Nat, reply : SUBSET Nat]

Idle == [pc |-> "idle", meta |-> NoMeta, batch |-> {}, todo |-> {},
         hi |-> 0, reply |-> {}]

\* meta?.lastCheckpoint ?? 0, of the stored row and of the copy a call read.
CheckpointOf(meta) == IF meta = NoMeta THEN 0 ELSE meta
Checkpoint == CheckpointOf(syncMeta)
From(c)    == CheckpointOf(call[c].meta)

Become(c, state) == call' = [call EXCEPT ![c] = state]

\* Faulty variant of IsFirst: the queue is read without ORDER BY id.
IsAny(x, S) == x \in S

\* Rows and requests are worked off in id order.
IsFirst(x, S) == x \in S /\ \A y \in S : x.id <= y.id

Init ==
    /\ isSyncing = FALSE
    /\ isApplyingRemote = FALSE
    /\ debounceTimer = "off"
    /\ backoffDelay = 1
    /\ autoSyncEnabled = TRUE
    /\ isOnline \in BOOLEAN
    /\ call = [c \in Calls |-> Idle]
    /\ transactions = [e \in Entities |-> [src |-> "none", at |-> 0]]
    /\ pendingChanges = {}
    /\ nextId = 1
    /\ syncMeta = NoMeta
    /\ autoSyncPref = TRUE
    /\ changeLog = <<>>
    /\ strays = {}
    /\ faults = 0

-----------------------------------------------------------------------------
(* Local edits.  The hook queues the pending-change insert, runs           *)
(* onPendingChange, then queues the row write; the database executes the   *)
(* two statements in that order and nothing of the engine runs in between. *)
(* The hook does not wait for its insert: each statement may fail alone.   *)

Editable(e, a) == nextId <= MaxEdits /\ (a = "delete" => transactions[e].src # "none")

RecordChange(e, a) ==
    /\ Editable(e, a)
    /\ pendingChanges' = pendingChanges \cup {[id |-> nextId, entity |-> e, action |-> a]}
    /\ nextId' = nextId + 1

\* onPendingChange: restart the debounce timer unless a remote change is
\* being applied or auto-sync is off.
OnPendingChange ==
    debounceTimer' = IF isApplyingRemote \/ ~autoSyncEnabled
                     THEN debounceTimer ELSE "debounce"

Edit(e, a) ==
    /\ RecordChange(e, a)
    /\ OnPendingChange
    /\ transactions' = [transactions EXCEPT ![e] = [src |-> "edit", at |-> nextId]]
    /\ UNCHANGED <<sync, flags, backoffDelay, syncMeta, autoSyncPref, server,
                   faults>>

Fault == faults < MaxFaults /\ faults' = faults + 1

\* One of the two statements of an edit fails, and the other is run.
EditFails(e, a) ==
    /\ Fault
    /\ OnPendingChange
    /\ \/ /\ Editable(e, a)
          /\ transactions' = [transactions EXCEPT ![e] = [src |-> "unrecorded", at |-> 0]]
          /\ UNCHANGED <<pendingChanges, nextId>>
       \/ /\ RecordChange(e, a)
          /\ UNCHANGED transactions
    /\ UNCHANGED <<sync, flags, backoffDelay, syncMeta, autoSyncPref, server>>

-----------------------------------------------------------------------------
(* syncNow                                                                 *)

\* Faulty variant of SyncNow: no _isSyncing guard.
SyncNowUnguarded(online) ==
    \/ /\ ~online
       /\ UNCHANGED sync
    \/ /\ online
       /\ isSyncing' = TRUE
       /\ \E c \in Calls :
            /\ call[c].pc = "idle"
            /\ Become(c, [Idle EXCEPT !.pc = "getMeta"])

\* The synchronous head of syncNow: a running sync or a missing network
\* makes the call return at once, without arming anything.
SyncNow(online) ==
    \/ /\ isSyncing \/ ~online
       /\ UNCHANGED sync
    \/ /\ ~isSyncing /\ online
       /\ isSyncing' = TRUE
       /\ \E c \in Calls :
            /\ call[c].pc = "idle"
            /\ Become(c, [Idle EXCEPT !.pc = "getMeta"])

GetMeta(c) ==
    /\ call[c].pc = "getMeta"
    /\ Become(c, [call[c] EXCEPT !.pc = "getPending", !.meta = syncMeta])
    /\ UNCHANGED <<timers, flags, isSyncing, disk, server, faults>>

\* The success exit and the finally clause.
Succeed(c) ==
    /\ Become(c, Idle)
    /\ isSyncing' = FALSE
    /\ backoffDelay' = 1

\* Faulty variant of Fail: the doubled delay is not clamped.
FailUnclamped(c) ==
    /\ Become(c, Idle)
    /\ isSyncing' = FALSE
    /\ debounceTimer' = "retry"
    /\ backoffDelay' = 2 * backoffDelay

\* Faulty variant of Fail: no retry is scheduled.
FailUnarmed(c) ==
    /\ Become(c, Idle)
    /\ isSyncing' = FALSE
    /\ debounceTimer' = debounceTimer
    /\ backoffDelay' = IF 2 * backoffDelay > MaxBackoff THEN MaxBackoff
                                                        ELSE 2 * backoffDelay

\* Faulty variant of Fail: the flag is reset on success only, not in finally.
FailStaysSyncing(c) ==
    /\ Become(c, Idle)
    /\ isSyncing' = isSyncing
    /\ debounceTimer' = "retry"
    /\ backoffDelay' = IF 2 * backoffDelay > MaxBackoff THEN MaxBackoff
                                                        ELSE 2 * backoffDelay

\* The catch and finally clauses: arm the retry timer, double the delay.
Fail(c) ==
    /\ Become(c, Idle)
    /\ isSyncing' = FALSE
    /\ debounceTimer' = "retry"
    /\ backoffDelay' = IF 2 * backoffDelay > MaxBackoff THEN MaxBackoff
                                                        ELSE 2 * backoffDelay

\* Faulty variant of NothingToSend: an empty queue is enough to stop.
NothingQueued(c) ==
    /\ call[c].pc = "getPending"
    /\ pendingChanges = {}
    /\ Succeed(c)
    /\ UNCHANGED <<flags, debounceTimer, disk, server, faults>>

NothingToSend(c) ==
    /\ call[c].pc = "getPending"
    /\ pendingChanges = {} /\ call[c].meta # NoMeta
    /\ Succeed(c)
    /\ UNCHANGED <<flags, debounceTimer, disk, server, faults>>

Send(c) ==
    /\ call[c].pc = "getPending"
    /\ pendingChanges # {} \/ call[c].meta = NoMeta
    /\ Become(c, [call[c] EXCEPT !.pc = "rpc", !.batch = pendingChanges,
                                 !.todo = pendingChanges])
    /\ UNCHANGED <<timers, flags, isSyncing, disk, server, faults>>

ReceiveReply(c) ==
    /\ call[c].pc = "reply"
    /\ Become(c, [call[c] EXCEPT !.pc = "apply"])
    /\ isApplyingRemote' = TRUE
    /\ UNCHANGED <<timers, isSyncing, autoSyncEnabled, isOnline, disk, server,
                   faults>>

\* The position of the reply that is next.
Following(c, i) == i \in call[c].reply /\ \A j \in call[c].reply : i <= j

\* upsertTransaction(skipHook: true): the row takes the snapshot of the entry.
ApplyEntry(c) ==
    /\ call[c].pc = "apply"
    /\ \E i \in call[c].reply :
         /\ Following(c, i) /\ changeLog[i].ok
         /\ transactions' = [transactions EXCEPT ![changeLog[i].entity] =
                                                     [src |-> "log", at |-> i]]
         /\ Become(c, [call[c] EXCEPT !.reply = @ \ {i}])
    /\ UNCHANGED <<timers, flags, isSyncing, pendingChanges, nextId, syncMeta,
                   autoSyncPref, server, faults>>

\* Faulty variant of DecodeFails: an entry that does not decode is skipped.
SkipEntry(c) ==
    /\ call[c].pc = "apply"
    /\ \E i \in call[c].reply :
         /\ Following(c, i) /\ ~changeLog[i].ok
         /\ Become(c, [call[c] EXCEPT !.reply = @ \ {i}])
    /\ UNCHANGED <<timers, flags, isSyncing, disk, server, faults>>

\* The snapshot does not decode: the exception leaves _applyRemoteChanges
\* with _isApplyingRemote still set.
DecodeFails(c) ==
    /\ call[c].pc = "apply"
    /\ \E i \in call[c].reply : Following(c, i) /\ ~changeLog[i].ok
    /\ Fail(c)
    /\ UNCHANGED <<flags, disk, server, faults>>

FinishApply(c) ==
    /\ call[c].pc = "apply" /\ call[c].reply = {}
    /\ Become(c, [call[c] EXCEPT !.pc = "remove"])
    /\ isApplyingRemote' = FALSE
    /\ UNCHANGED <<timers, isSyncing, autoSyncEnabled, isOnline, disk, server,
                   faults>>

\* Faulty variant of RemovePending: the whole table is cleared.
ClearPending(c) ==
    /\ call[c].pc = "remove" /\ call[c].batch # {}
    /\ pendingChanges' = {}
    /\ Become(c, [call[c] EXCEPT !.batch = {}])
    /\ UNCHANGED <<timers, flags, isSyncing, transactions, nextId, syncMeta,
                   autoSyncPref, server, faults>>

RemovePending(c) ==
    /\ call[c].pc = "remove"
    /\ \E x \in call[c].batch :
         /\ IsFirst(x, call[c].batch)
         /\ pendingChanges' = {p \in pendingChanges : p.id # x.id}
         /\ Become(c, [call[c] EXCEPT !.batch = @ \ {x}])
    /\ UNCHANGED <<timers, flags, isSyncing, transactions, nextId, syncMeta,
                   autoSyncPref, server, faults>>

SaveMeta(c) ==
    /\ call[c].pc = "remove" /\ call[c].batch = {}
    /\ syncMeta' = call[c].hi
    /\ Succeed(c)
    /\ UNCHANGED <<flags, debounceTimer, transactions, pendingChanges, nextId,
                   autoSyncPref, server, faults>>

-----------------------------------------------------------------------------
(* Failures.  A request its caller gives up on may still reach the server. *)

Abandon(c) ==
    \/ strays' = strays
    \/ /\ call[c].pc = "rpc" /\ call[c].todo # {}
       /\ Cardinality(strays) < MaxStrays
       /\ strays' = strays \cup {[todo |-> call[c].todo, at |-> 0]}

\* Any awaited database call or the RPC throws; in particular the reply of a
\* request the server has carried out, in part or in full, is lost.
SyncFails(c) ==
    /\ call[c].pc # "idle"
    /\ Fault
    /\ Fail(c)
    /\ Abandon(c)
    /\ UNCHANGED <<flags, disk, changeLog>>

\* The process dies and is started again (main): the fields are initialised
\* afresh; the connectivity probe precedes start(), so nothing is triggered.
Reboot ==
    /\ isSyncing' = FALSE /\ isApplyingRemote' = FALSE
    /\ debounceTimer' = "off" /\ backoffDelay' = 1
    /\ autoSyncEnabled' = TRUE
    /\ isOnline' \in BOOLEAN
    /\ call' = [c \in Calls |-> Idle]

Restart ==
    /\ Fault
    /\ Reboot
    /\ \/ strays' = strays
       \/ \E c \in Calls : Abandon(c)
    /\ UNCHANGED <<disk, changeLog>>

\* Faulty variant of EditInterrupted: the row is written before the change
\* is recorded.
EditInterruptedRowFirst(e, a) ==
    /\ Fault
    /\ nextId <= MaxEdits
    /\ transactions' = [transactions EXCEPT ![e] = [src |-> "edit", at |-> nextId]]
    /\ Reboot
    /\ UNCHANGED <<pendingChanges, nextId, syncMeta, autoSyncPref, server>>

\* The process dies between the two statements of a local edit: the change
\* is recorded, the row is not written.
EditInterrupted(e, a) ==
    /\ Fault
    /\ RecordChange(e, a)
    /\ Reboot
    /\ UNCHANGED <<transactions, syncMeta, autoSyncPref, server>>

-----------------------------------------------------------------------------
(* Triggers *)

TimerFires ==
    /\ debounceTimer # "off"
    /\ debounceTimer' = "off"
    /\ SyncNow(isOnline)
    /\ UNCHANGED <<flags, backoffDelay, disk, server, faults>>

AppResumed ==
    /\ autoSyncEnabled
    /\ SyncNow(isOnline)
    /\ UNCHANGED <<timers, flags, disk, server, faults>>

\* "Sync Now" on the settings page.
ManualSync ==
    /\ SyncNow(isOnline)
    /\ UNCHANGED <<timers, flags, disk, server, faults>>

GoOnline ==
    /\ ~isOnline /\ isOnline' = TRUE
    /\ \/ autoSyncEnabled /\ SyncNow(TRUE)
       \/ ~autoSyncEnabled /\ UNCHANGED sync
    /\ UNCHANGED <<timers, isApplyingRemote, autoSyncEnabled, disk, server,
                   faults>>

GoOffline ==
    /\ isOnline /\ isOnline' = FALSE
    /\ UNCHANGED <<sync, timers, isApplyingRemote, autoSyncEnabled, disk,
                   server, faults>>

\* SyncSettingsCubit: opening the settings page copies the stored preference
\* into the engine, the switch sets both.
LoadSettings ==
    /\ autoSyncEnabled' = autoSyncPref
    /\ UNCHANGED <<sync, timers, isApplyingRemote, isOnline, disk, server,
                   faults>>

ToggleAutoSync(value) ==
    /\ autoSyncPref' = value
    /\ autoSyncEnabled' = value
    /\ UNCHANGED <<sync, timers, isApplyingRemote, isOnline, transactions,
                   pendingChanges, nextId, syncMeta, server, faults>>

-----------------------------------------------------------------------------
(* The server as this client sees it (SyncService.Sync).                   *)

\* An entry gets the next id.  A delete is logged with the client's payload
\* {"id": ...}, which has no amount to decode.
AppendEntry(e, n, a, seen) ==
    /\ Len(changeLog) < MaxLog
    /\ \E ok \in IF a = "delete" THEN {FALSE} ELSE SnapshotOK :
         changeLog' = Append(changeLog, [entity |-> e, change |-> n, ok |-> ok, seen |-> seen])

\* An entry that has its id can be read from now on.
Commit(i) ==
    /\ i \in 1..Len(changeLog) /\ changeLog[i].seen = "inserting"
    /\ changeLog' = [changeLog EXCEPT ![i].seen = "late"]

\* One local change is applied and logged.  The handler reads on only when that
\* is done, so to its own read the entry was there at once.
ServerApply(c) ==
    /\ call[c].pc = "rpc"
    /\ \E x \in call[c].todo :
         /\ IsFirst(x, call[c].todo)
         /\ AppendEntry(x.entity, x.id, x.action, "atOnce")
         /\ Become(c, [call[c] EXCEPT !.todo = @ \ {x}])
    /\ UNCHANGED <<timers, flags, isSyncing, disk, strays, faults>>

\* The request is refused: the caller or the scope, or the next change, because
\* it loses to the row of the server or meets a deleted one, and its empty
\* snapshot cannot be logged.  What was logged before it stays, and nothing says
\* that the same request will not be refused again.
ServerRefuses(c) ==
    /\ call[c].pc = "rpc"
    /\ Fail(c)
    /\ UNCHANGED <<flags, disk, server, faults>>

\* The entries that can be read above the checkpoint the request carries.
Readable(c) == {i \in 1..Len(changeLog) : From(c) < i /\ changeLog[i].seen # "inserting"}

\* newCheckpoint is the highest id read, or what the client sent.
Answer(c, read) ==
    \E hi \in read \cup {From(c)} :
        /\ \A i \in read : i <= hi
        /\ Become(c, [call[c] EXCEPT !.pc = "reply", !.hi = hi, !.reply = read])

ServerReply(c) ==
    /\ call[c].pc = "rpc" /\ call[c].todo = {}
    /\ Answer(c, Readable(c))
    /\ UNCHANGED <<timers, flags, isSyncing, disk, server, faults>>

\* The read breaks off, and what was read of it is taken for all there is.
ServerReadBreaks(c) ==
    /\ call[c].pc = "rpc" /\ call[c].todo = {}
    /\ Fault
    /\ \E end \in Readable(c) : Answer(c, {i \in Readable(c) : i < end})
    /\ UNCHANGED <<timers, flags, isSyncing, disk, server>>

\* An abandoned request goes on, or is refused, or never arrives.
StrayApply ==
    /\ \E s \in strays : \E x \in s.todo :
         /\ IsFirst(x, s.todo)
         /\ \/ /\ s.at = 0
               /\ AppendEntry(x.entity, x.id, x.action, "inserting")
               /\ strays' = (strays \ {s}) \cup {[s EXCEPT !.at = Len(changeLog) + 1]}
            \/ /\ \/ s.at = 0 /\ AppendEntry(x.entity, x.id, x.action, "atOnce")
                  \/ s.at # 0 /\ Commit(s.at)
               /\ strays' = (strays \ {s})
                            \cup ({[todo |-> s.todo \ {x}, at |-> 0]} \ {[todo |-> {}, at |-> 0]})
    /\ UNCHANGED <<engine, disk, faults>>

\* Another device of the same scope synchronises a change.
ForeignChange ==
    /\ \/ /\ Cardinality({i \in 1..Len(changeLog) : changeLog[i].change = 0}) < MaxForeign
          /\ \E e \in Entities, a \in Actions, seen \in {"atOnce", "inserting"} :
               AppendEntry(e, 0, a, seen)
       \/ \E i \in 1..Len(changeLog) : changeLog[i].change = 0 /\ Commit(i)
    /\ UNCHANGED <<engine, disk, strays, faults>>

-----------------------------------------------------------------------------
SyncStep(c) ==
    \/ GetMeta(c) \/ NothingToSend(c) \/ Send(c)
    \/ ServerApply(c) \/ ServerRefuses(c) \/ ServerReply(c) \/ ReceiveReply(c)
    \/ ApplyEntry(c) \/ DecodeFails(c) \/ FinishApply(c)
    \/ RemovePending(c) \/ SaveMeta(c)

UserStep ==
    \/ \E e \in Entities, a \in Actions : Edit(e, a)
    \/ AppResumed \/ ManualSync \/ LoadSettings
    \/ \E value \in BOOLEAN : ToggleAutoSync(value)

Environment ==
    \/ GoOnline \/ GoOffline \/ StrayApply \/ ForeignChange

Faults ==
    \/ Restart
    \/ \E c \in Calls : SyncFails(c) \/ ServerReadBreaks(c)
    \/ \E e \in Entities, a \in Actions : EditFails(e, a) \/ EditInterrupted(e, a)

Next ==
    \/ \E c \in Calls : SyncStep(c)
    \/ TimerFires
    \/ UserStep
    \/ Environment
    \/ Faults

Spec == Init /\ [][Next]_vars

-----------------------------------------------------------------------------
(* Properties *)

\* Positions others can read.
Seen(log) == {i \in 1..Len(log) : log[i].seen # "inserting"}

FlagType ==
    /\ isSyncing \in BOOLEAN /\ isApplyingRemote \in BOOLEAN /\ isOnline \in BOOLEAN
    /\ autoSyncEnabled \in BOOLEAN /\ autoSyncPref \in BOOLEAN

TimerType ==
    /\ debounceTimer \in {"off", "debounce", "retry"}
    /\ backoffDelay \in 1..MaxBackoff

CallType == call \in [Calls -> CallState]

DiskType ==
    /\ transactions \in [Entities -> Row]
    /\ pendingChanges \subseteq Change
    /\ nextId \in Nat \ {0}
    /\ syncMeta \in Nat \cup {NoMeta}

ServerType ==
    /\ changeLog \in Seq(Entry)
    /\ strays \subseteq Stray
    /\ faults \in Nat

\* Every field holds a value the engine can produce; in particular the retry
\* delay stays within 1.._maxBackoff however many attempts fail.
TypeOK == FlagType /\ TimerType /\ CallType /\ DiskType /\ ServerType

\* No recorded local change is ever lost: whatever fails between the read of
\* the queue and its clean-up, the change is still queued or the server has
\* logged it (syncNow removes exactly the changes it sent, after the reply).
NoLostChange ==
    \A n \in 1..(nextId - 1) :
        \/ \E p \in pendingChanges : p.id = n
        \/ \E i \in Seen(changeLog) : changeLog[i].change = n

Reflected(i) ==
    LET row == transactions[changeLog[i].entity] IN
    row.src \in {"edit", "unrecorded"} \/ (row.src = "log" /\ row.at >= i)

\* The stored checkpoint never runs ahead of what was applied: every log
\* entry at or below it is reflected in its row, by itself, by a later entry,
\* or by a local edit made since (syncNow saves the checkpoint last).  It is
\* said of the entries that could be read as soon as they had their id; one that
\* became readable late may never be pulled.
CheckpointApplied ==
    \A i \in 1..Len(changeLog) : changeLog[i].seen = "atOnce" /\ i <= Checkpoint => Reflected(i)

\* A recorded edit that its row shows is not silently local: it is queued, or it
\* comes back in a log entry the client has still to pull, which no entry that
\* becomes readable late and no read that breaks off takes away (the change is
\* recorded before the row is written, and sent before it is removed).
EditStaysCovered ==
    \A e \in Entities :
        transactions[e].src = "edit" =>
            \/ \E p \in pendingChanges : p.id = transactions[e].at /\ p.entity = e
            \/ \E i \in 1..Len(changeLog) :
                   /\ Checkpoint < i /\ changeLog[i].seen = "atOnce"
                   /\ changeLog[i].change = transactions[e].at /\ changeLog[i].entity = e

\* Others first read the client's changes in the order they were made, whatever
\* was refused, retried or arrived late (the queue is read ORDER BY id and the
\* server walks the request in order).
FirstDeliveryInOrder ==
    \A j \in Seen(changeLog) : \A n \in 1..(changeLog[j].change - 1) :
        \E i \in Seen(changeLog) : i < j /\ changeLog[i].change = n

\* The client's checkpoint never moves backwards, although every trigger may
\* call syncNow at any time (a second concurrent sync could store the older
\* of two replies last).
CheckpointMonotone ==
    [][Checkpoint' >= Checkpoint]_vars
=============================================================================
