-------------------------- MODULE SyncEngineProofs --------------------------
(***************************************************************************)
(* The safety of SyncEngine for any number of activations, transactions    *)
(* and edits: type correctness, the inductive invariant and the properties *)
(* it implies.                                                             *)
(***************************************************************************)
EXTENDS SyncEngine, SequenceTheorems, TLAPS

-----------------------------------------------------------------------------
(* Types *)

\* The initial state, fields and database of a fresh installation, is well typed.
LEMMA InitType == Init => TypeOK
<1> SUFFICES ASSUME Init PROVE TypeOK
  OBVIOUS
<1>1. FlagType
  BY DEF Init, FlagType
<1>2. TimerType
  BY ConstantsAssumption DEF Init, ConstantsAssumption, TimerType
<1>3. CallType
  BY DEF Init, Idle, CallType, CallState
<1>4. DiskType
  BY DEF Init, DiskType, Row
<1>5. ServerType
  BY DEF Init, ServerType
<1>6. QED
  BY <1>1, <1>2, <1>3, <1>4, <1>5 DEF TypeOK

\* Giving one activation a well-typed state keeps all of them well typed.
LEMMA CallUpdate ==
    ASSUME CallType, NEW c \in Calls, NEW new \in CallState, Become(c, new)
    PROVE  CallType'
BY DEF CallType, Become

\* The state of an activation that is not running.
LEMMA IdleType == Idle \in CallState
BY DEF Idle, CallState

\* The checkpoint read from a sync_meta row, present or not, is a number.
LEMMA CheckpointType ==
    ASSUME NEW meta \in Nat \cup {NoMeta}
    PROVE  CheckpointOf(meta) \in Nat
BY DEF CheckpointOf

\* The catch clause keeps the retry delay within its bound.
LEMMA FailType ==
    ASSUME TimerType, NEW c, Fail(c)
    PROVE  TimerType'
BY ConstantsAssumption DEF ConstantsAssumption, TimerType, Fail

\* What the server appends.
LEMMA AppendedEntry ==
    ASSUME NEW e \in Entities, NEW n \in Nat, NEW a, NEW seen \in {"atOnce", "inserting"},
           AppendEntry(e, n, a, seen)
    PROVE  \E new \in Entry : /\ new.entity = e /\ new.change = n /\ new.seen = seen
                              /\ changeLog' = Append(changeLog, new)
<1>1. PICK ok \in BOOLEAN :
        changeLog' = Append(changeLog, [entity |-> e, change |-> n, ok |-> ok, seen |-> seen])
  BY ConstantsAssumption DEF AppendEntry, ConstantsAssumption
<1> DEFINE new == [entity |-> e, change |-> n, ok |-> ok, seen |-> seen]
<1>2. new \in Entry
  BY DEF Entry
<1>3. QED
  BY <1>1, <1>2

\* An entry becomes readable; nothing else of the log changes.
LEMMA CommittedEntry ==
    ASSUME changeLog \in Seq(Entry), NEW i, Commit(i)
    PROVE  /\ changeLog' \in Seq(Entry) /\ Len(changeLog)' = Len(changeLog)
           /\ changeLog'[i] = [changeLog[i] EXCEPT !.seen = "late"]
           /\ \A j \in 1..Len(changeLog) : j # i => changeLog'[j] = changeLog[j]
<1>1. PICK new : new = [changeLog[i] EXCEPT !.seen = "late"]
  OBVIOUS
<1>2. i \in 1..Len(changeLog) /\ changeLog[i] \in Entry
  BY DEF Commit
<1>3. new \in Entry
  BY <1>1, <1>2 DEF Entry
<1>4. changeLog' = [changeLog EXCEPT ![i] = new]
  BY <1>1 DEF Commit
<1>5. changeLog' \in Seq(Entry) /\ Len(changeLog)' = Len(changeLog)
  BY <1>2, <1>3, <1>4, ExceptSeq
<1>6. changeLog'[i] = new /\ \A j \in 1..Len(changeLog) : j # i => changeLog'[j] = changeLog[j]
  BY <1>2, <1>3, <1>4, ExceptSeq
<1>7. QED
  BY <1>1, <1>5, <1>6

\* A foreign or abandoned write leaves a well-typed log.
LEMMA LogType ==
    ASSUME changeLog \in Seq(Entry),
           \/ \E e \in Entities, n \in Nat, a \in Actions, seen \in {"atOnce", "inserting"} :
                  AppendEntry(e, n, a, seen)
           \/ \E i : Commit(i)
    PROVE  changeLog' \in Seq(Entry)
<1>1. ASSUME NEW e \in Entities, NEW n \in Nat, NEW a \in Actions,
             NEW seen \in {"atOnce", "inserting"}, AppendEntry(e, n, a, seen)
      PROVE  changeLog' \in Seq(Entry)
  BY <1>1, AppendedEntry
<1>2. QED
  BY <1>1, CommittedEntry

\* syncNow's head keeps the types of what it touches.
LEMMA SyncNowType ==
    ASSUME FlagType, CallType, NEW online, SyncNow(online)
    PROVE  isSyncing' \in BOOLEAN /\ CallType'
<1>1. CASE UNCHANGED sync
  BY <1>1 DEF sync, FlagType, CallType
<1>2. CASE isSyncing' = TRUE /\ \E c \in Calls : Become(c, [Idle EXCEPT !.pc = "getMeta"])
  <2>1. [Idle EXCEPT !.pc = "getMeta"] \in CallState
    BY DEF Idle, CallState
  <2>2. QED
    BY <1>2, <2>1, CallUpdate
<1>3. QED
  BY <1>1, <1>2 DEF SyncNow

\* An answer gives a call what was read of the log.
LEMMA AnswerType ==
    ASSUME TypeOK, NEW c \in Calls, \E read \in SUBSET Readable(c) : Answer(c, read)
    PROVE  CallType'
<1>0. PICK read \in SUBSET Readable(c) : Answer(c, read)
  OBVIOUS
<1>1. PICK hi \in read \cup {From(c)} :
        Become(c, [call[c] EXCEPT !.pc = "reply", !.hi = hi, !.reply = read])
  BY <1>0 DEF Answer
<1>2. call[c] \in CallState /\ From(c) \in Nat
  BY CheckpointType DEF TypeOK, CallType, CallState, From
<1>3. read \subseteq Nat
  BY DEF Readable
<1>4. hi \in Nat
  BY <1>2, <1>3
<1>5. [call[c] EXCEPT !.pc = "reply", !.hi = hi, !.reply = read] \in CallState
  BY <1>2, <1>3, <1>4 DEF CallState
<1>6. QED
  BY <1>1, <1>5, CallUpdate DEF TypeOK

\* Every step of one syncNow activation, and of the server on its behalf,
\* keeps the state well typed.
LEMMA SyncStepType ==
    ASSUME TypeOK, NEW c \in Calls, SyncStep(c)
    PROVE  TypeOK'
<1>1. call[c] \in CallState
  BY DEF TypeOK, CallType
<1>2. CASE GetMeta(c)
  <2>1. [call[c] EXCEPT !.pc = "getPending", !.meta = syncMeta] \in CallState
    BY <1>1 DEF CallState, TypeOK, DiskType
  <2>2. CallType'
    BY <1>2, <2>1, CallUpdate DEF GetMeta, TypeOK
  <2>3. QED
    BY <1>2, <2>2 DEF GetMeta, TypeOK, FlagType, TimerType, DiskType, ServerType,
                      timers, flags, disk, server
<1>3. CASE NothingToSend(c)
  <2>1. CallType'
    BY <1>3, IdleType, CallUpdate DEF NothingToSend, Succeed, TypeOK
  <2>2. TimerType'
    BY <1>3, ConstantsAssumption DEF NothingToSend, Succeed, TypeOK, TimerType,
                                     ConstantsAssumption
  <2>3. QED
    BY <1>3, <2>1, <2>2 DEF NothingToSend, Succeed, TypeOK, FlagType, DiskType,
                            ServerType, flags, disk, server
<1>4. CASE Send(c)
  <2>1. [call[c] EXCEPT !.pc = "rpc", !.batch = pendingChanges, !.todo = pendingChanges]
            \in CallState
    BY <1>1 DEF CallState, TypeOK, DiskType
  <2>2. CallType'
    BY <1>4, <2>1, CallUpdate DEF Send, TypeOK
  <2>3. QED
    BY <1>4, <2>2 DEF Send, TypeOK, FlagType, TimerType, DiskType, ServerType,
                      timers, flags, disk, server
<1>5. CASE ServerApply(c)
  <2>1. PICK x \in call[c].todo : /\ AppendEntry(x.entity, x.id, x.action, "atOnce")
                                  /\ Become(c, [call[c] EXCEPT !.todo = @ \ {x}])
    BY <1>5 DEF ServerApply
  <2>2. x.entity \in Entities /\ x.id \in Nat /\ x.action \in Actions
    BY <1>1 DEF CallState, Change
  <2>3. [call[c] EXCEPT !.todo = @ \ {x}] \in CallState
    BY <1>1 DEF CallState
  <2>4. CallType'
    BY <2>1, <2>3, CallUpdate DEF TypeOK
  <2>5. changeLog' \in Seq(Entry)
    BY <2>1, <2>2, LogType DEF TypeOK, ServerType
  <2>6. QED
    BY <1>5, <2>4, <2>5 DEF ServerApply, TypeOK, FlagType, TimerType, DiskType,
                            ServerType, timers, flags, disk
<1>6. CASE ServerReply(c)
  <2>1. CallType'
    BY <1>6, AnswerType DEF ServerReply
  <2>2. QED
    BY <1>6, <2>1 DEF ServerReply, TypeOK, FlagType, TimerType, DiskType, ServerType,
                      timers, flags, disk, server
<1>7. CASE ReceiveReply(c)
  <2>1. [call[c] EXCEPT !.pc = "apply"] \in CallState
    BY <1>1 DEF CallState
  <2>2. CallType'
    BY <1>7, <2>1, CallUpdate DEF ReceiveReply, TypeOK
  <2>3. FlagType'
    BY <1>7 DEF ReceiveReply, TypeOK, FlagType, disk
  <2>4. QED
    BY <1>7, <2>2, <2>3 DEF ReceiveReply, TypeOK, TimerType, DiskType, ServerType,
                      timers, disk, server
<1>8. CASE ApplyEntry(c)
  <2>1. PICK i \in call[c].reply :
          /\ transactions' = [transactions EXCEPT ![changeLog[i].entity] =
                                                      [src |-> "log", at |-> i]]
          /\ Become(c, [call[c] EXCEPT !.reply = @ \ {i}])
    BY <1>8 DEF ApplyEntry
  <2>2. i \in Nat
    BY <1>1 DEF CallState
  <2>3. [call[c] EXCEPT !.reply = @ \ {i}] \in CallState
    BY <1>1 DEF CallState
  <2>4. CallType'
    BY <2>1, <2>3, CallUpdate DEF TypeOK
  <2>5. transactions' \in [Entities -> Row]
    BY <2>1, <2>2 DEF TypeOK, DiskType, Row
  <2>6. QED
    BY <1>8, <2>4, <2>5 DEF ApplyEntry, TypeOK, FlagType, TimerType, DiskType,
                            ServerType, timers, flags, server
<1>9. CASE DecodeFails(c) \/ ServerRefuses(c)
  <2>1. CallType'
    BY <1>9, IdleType, CallUpdate DEF DecodeFails, ServerRefuses, Fail, TypeOK
  <2>2. TimerType'
    BY <1>9, FailType DEF DecodeFails, ServerRefuses, TypeOK
  <2>3. QED
    BY <1>9, <2>1, <2>2 DEF DecodeFails, ServerRefuses, Fail, TypeOK, FlagType, DiskType,
                            ServerType, flags, disk, server
<1>10. CASE FinishApply(c)
  <2>1. [call[c] EXCEPT !.pc = "remove"] \in CallState
    BY <1>1 DEF CallState
  <2>2. CallType'
    BY <1>10, <2>1, CallUpdate DEF FinishApply, TypeOK
  <2>3. FlagType'
    BY <1>10 DEF FinishApply, TypeOK, FlagType, disk
  <2>4. QED
    BY <1>10, <2>2, <2>3 DEF FinishApply, TypeOK, TimerType, DiskType, ServerType,
                       timers, disk, server
<1>11. CASE RemovePending(c)
  <2>1. PICK x \in call[c].batch :
          /\ pendingChanges' = {p \in pendingChanges : p.id # x.id}
          /\ Become(c, [call[c] EXCEPT !.batch = @ \ {x}])
    BY <1>11 DEF RemovePending
  <2>2. [call[c] EXCEPT !.batch = @ \ {x}] \in CallState
    BY <1>1 DEF CallState
  <2>3. CallType'
    BY <2>1, <2>2, CallUpdate DEF TypeOK
  <2>4. QED
    BY <1>11, <2>1, <2>3 DEF RemovePending, TypeOK, FlagType, TimerType, DiskType,
                             ServerType, timers, flags, server
<1>12. CASE SaveMeta(c)
  <2>1. CallType'
    BY <1>12, IdleType, CallUpdate DEF SaveMeta, Succeed, TypeOK
  <2>2. TimerType'
    BY <1>12, ConstantsAssumption DEF SaveMeta, Succeed, TypeOK, TimerType,
                                      ConstantsAssumption
  <2>3. call[c].hi \in Nat
    BY <1>1 DEF CallState
  <2>4. QED
    BY <1>12, <2>1, <2>2, <2>3 DEF SaveMeta, Succeed, TypeOK, FlagType, DiskType,
                                   ServerType, flags, server
<1>13. QED
  BY <1>2, <1>3, <1>4, <1>5, <1>6, <1>7, <1>8, <1>9, <1>10, <1>11, <1>12 DEF SyncStep

\* The fields a new process starts with are well typed.
LEMMA RebootType ==
    ASSUME TypeOK, Reboot, autoSyncPref' = autoSyncPref
    PROVE  FlagType' /\ TimerType' /\ CallType'
<1>1. FlagType'
  BY DEF Reboot, TypeOK, FlagType
<1>2. TimerType'
  BY ConstantsAssumption DEF Reboot, TimerType, ConstantsAssumption
<1>3. CallType'
  BY IdleType DEF Reboot, CallType
<1>4. QED
  BY <1>1, <1>2, <1>3

\* An abandoned request is a set of changes.
LEMMA AbandonType ==
    ASSUME TypeOK, NEW c \in Calls, Abandon(c)
    PROVE  strays' \subseteq Stray
<1>1. call[c].todo \subseteq Change
  BY DEF TypeOK, CallType, CallState
<1>2. [todo |-> call[c].todo, at |-> 0] \in Stray
  BY <1>1 DEF Stray
<1>3. QED
  BY <1>2 DEF Abandon, TypeOK, ServerType

\* So is what is left of it when it has gone on.
LEMMA StrayType ==
    ASSUME TypeOK, StrayApply
    PROVE  changeLog' \in Seq(Entry) /\ strays' \subseteq Stray
<1>1. PICK s \in strays : \E x \in s.todo :
         \/ /\ AppendEntry(x.entity, x.id, x.action, "inserting")
            /\ strays' = (strays \ {s}) \cup {[s EXCEPT !.at = Len(changeLog) + 1]}
         \/ /\ AppendEntry(x.entity, x.id, x.action, "atOnce") \/ Commit(s.at)
            /\ strays' = (strays \ {s})
                         \cup ({[todo |-> s.todo \ {x}, at |-> 0]} \ {[todo |-> {}, at |-> 0]})
  BY DEF StrayApply
<1>2. s \in Stray /\ strays \subseteq Stray
  BY DEF TypeOK, ServerType
<1>3. Len(changeLog) + 1 \in Nat
  BY DEF TypeOK, ServerType
<1>4. [s EXCEPT !.at = Len(changeLog) + 1] \in Stray
  <2>1. PICK n \in Nat : n = Len(changeLog) + 1
    BY <1>3
  <2>2. [s EXCEPT !.at = n] \in Stray
    BY <1>2 DEF Stray
  <2>3. QED
    BY <2>1, <2>2
<1>5. \A x : [todo |-> s.todo \ {x}, at |-> 0] \in Stray
  BY <1>2 DEF Stray
<1>6. PICK x \in s.todo :
         \/ AppendEntry(x.entity, x.id, x.action, "inserting")
         \/ AppendEntry(x.entity, x.id, x.action, "atOnce")
         \/ Commit(s.at)
  BY <1>1
<1>7. x.entity \in Entities /\ x.id \in Nat /\ x.action \in Actions
  BY <1>2 DEF Stray, Change
<1>8. changeLog' \in Seq(Entry)
  BY <1>6, <1>7, LogType DEF TypeOK, ServerType
<1>9. strays' \subseteq Stray
  <2>1. PICK rest \in Stray : \/ strays' = (strays \ {s}) \cup {rest}
                              \/ strays' = (strays \ {s}) \cup ({rest} \ {[todo |-> {}, at |-> 0]})
    BY <1>1, <1>4, <1>5
  <2>2. QED
    BY <1>2, <2>1
<1>10. QED
  BY <1>8, <1>9

\* Recording a change keeps the queue and the id counter well typed.
LEMMA RecordType ==
    ASSUME TypeOK, NEW e \in Entities, NEW a \in Actions, RecordChange(e, a)
    PROVE  pendingChanges' \subseteq Change /\ nextId' \in Nat \ {0}
BY DEF RecordChange, Editable, TypeOK, DiskType, Change

\* Every step keeps the state well typed.
LEMMA NextType == TypeOK /\ [Next]_vars => TypeOK'
<1> SUFFICES ASSUME TypeOK, [Next]_vars PROVE TypeOK'
  OBVIOUS
<1>1. CASE \E c \in Calls : SyncStep(c)
  BY <1>1, SyncStepType
<1>2. ASSUME NEW e \in Entities, NEW a \in Actions, Edit(e, a) PROVE TypeOK'
  <2>1. pendingChanges' \subseteq Change /\ nextId' \in Nat \ {0}
    BY <1>2, RecordType DEF Edit
  <2>2. transactions' \in [Entities -> Row]
    BY <1>2 DEF Edit, TypeOK, DiskType, Row
  <2>3. TimerType'
    BY <1>2 DEF Edit, OnPendingChange, TypeOK, TimerType
  <2>4. QED
    BY <1>2, <2>1, <2>2, <2>3 DEF Edit, TypeOK, FlagType, CallType, DiskType,
                                  ServerType, sync, flags, server
<1>3. CASE TimerFires \/ AppResumed \/ ManualSync
  <2>1. isSyncing' \in BOOLEAN /\ CallType'
    BY <1>3, SyncNowType DEF TimerFires, AppResumed, ManualSync, TypeOK
  <2>2. TimerType'
    BY <1>3 DEF TimerFires, AppResumed, ManualSync, TypeOK, TimerType, timers
  <2>3. DiskType' /\ ServerType'
    BY <1>3 DEF TimerFires, AppResumed, ManualSync, TypeOK, DiskType, ServerType,
                disk, server
  <2>4. FlagType'
    BY <1>3, <2>1 DEF TimerFires, AppResumed, ManualSync, TypeOK, FlagType, flags, disk
  <2>5. QED
    BY <2>1, <2>2, <2>3, <2>4 DEF TypeOK
<1>4. CASE GoOnline
  <2>1. isSyncing' \in BOOLEAN /\ CallType'
    <3>1. CASE SyncNow(TRUE)
      BY <3>1, SyncNowType DEF TypeOK
    <3>2. CASE UNCHANGED sync
      BY <3>2 DEF sync, TypeOK, FlagType, CallType
    <3>3. QED
      BY <1>4, <3>1, <3>2 DEF GoOnline
  <2>2. FlagType'
    BY <1>4, <2>1 DEF GoOnline, TypeOK, FlagType, disk
  <2>3. QED
    BY <1>4, <2>1, <2>2 DEF GoOnline, TypeOK, TimerType, DiskType, ServerType,
                            timers, disk, server
<1>5. CASE GoOffline
  <2>1. FlagType'
    BY <1>5 DEF GoOffline, TypeOK, FlagType, sync, disk
  <2>2. QED
    BY <1>5, <2>1 DEF GoOffline, TypeOK, TimerType, CallType, DiskType, ServerType,
                      sync, timers, disk, server
<1>6. CASE LoadSettings
  <2>1. FlagType'
    BY <1>6 DEF LoadSettings, TypeOK, FlagType, sync, disk
  <2>2. QED
    BY <1>6, <2>1 DEF LoadSettings, TypeOK, TimerType, CallType, DiskType, ServerType,
                      sync, timers, disk, server
<1>7. ASSUME NEW value \in BOOLEAN, ToggleAutoSync(value) PROVE TypeOK'
  <2>1. FlagType'
    BY <1>7 DEF ToggleAutoSync, TypeOK, FlagType, sync
  <2>2. QED
    BY <1>7, <2>1 DEF ToggleAutoSync, TypeOK, TimerType, CallType, DiskType, ServerType,
                      sync, timers, server
<1>8. CASE StrayApply \/ ForeignChange
  <2>1. CASE StrayApply
    BY <2>1, StrayType DEF StrayApply, TypeOK, FlagType, TimerType, CallType, DiskType,
                           ServerType, engine, sync, timers, flags, disk
  <2>2. CASE ForeignChange
    <3>1. changeLog' \in Seq(Entry)
      BY <2>2, LogType DEF ForeignChange, TypeOK, ServerType
    <3>2. QED
      BY <2>2, <3>1 DEF ForeignChange, TypeOK, FlagType, TimerType, CallType, DiskType,
                        ServerType, engine, sync, timers, flags, disk
  <2>3. QED
    BY <1>8, <2>1, <2>2
<1>9. ASSUME NEW c \in Calls, ServerReadBreaks(c) PROVE TypeOK'
  <2>1. CallType'
    <3>1. \A end : {i \in Readable(c) : i < end} \in SUBSET Readable(c)
      OBVIOUS
    <3>2. QED
      BY <1>9, <3>1, AnswerType DEF ServerReadBreaks
  <2>2. QED
    BY <1>9, <2>1 DEF ServerReadBreaks, Fault, TypeOK, FlagType, TimerType, DiskType,
                      ServerType, timers, flags, disk, server
<1>10. CASE Restart
  <2>1. FlagType' /\ TimerType' /\ CallType'
    BY <1>10, RebootType DEF Restart, disk
  <2>2. strays' \subseteq Stray
    BY <1>10, AbandonType DEF Restart, TypeOK, ServerType
  <2>3. QED
    BY <1>10, <2>1, <2>2 DEF Restart, Fault, TypeOK, DiskType, ServerType, disk
<1>11. ASSUME NEW c \in Calls, SyncFails(c) PROVE TypeOK'
  <2>1. CallType'
    BY <1>11, IdleType, CallUpdate DEF SyncFails, Fail, TypeOK
  <2>2. TimerType'
    BY <1>11, FailType DEF SyncFails, TypeOK
  <2>3. FlagType'
    BY <1>11 DEF SyncFails, Fail, TypeOK, FlagType, flags, disk
  <2>4. strays' \subseteq Stray
    BY <1>11, AbandonType DEF SyncFails
  <2>5. QED
    BY <1>11, <2>1, <2>2, <2>3, <2>4 DEF SyncFails, Fault, TypeOK, DiskType,
                                         ServerType, disk
<1>12. ASSUME NEW e \in Entities, NEW a \in Actions, EditInterrupted(e, a) PROVE TypeOK'
  <2>1. pendingChanges' \subseteq Change /\ nextId' \in Nat \ {0}
    BY <1>12, RecordType DEF EditInterrupted
  <2>2. FlagType' /\ TimerType' /\ CallType'
    BY <1>12, RebootType DEF EditInterrupted
  <2>3. QED
    BY <1>12, <2>1, <2>2 DEF EditInterrupted, Fault, TypeOK, DiskType, ServerType, server
<1>13. ASSUME NEW e \in Entities, NEW a \in Actions, EditFails(e, a) PROVE TypeOK'
  <2>1. pendingChanges' \subseteq Change /\ nextId' \in Nat \ {0}
    BY <1>13, RecordType DEF EditFails, TypeOK, DiskType
  <2>2. transactions' \in [Entities -> Row]
    BY <1>13 DEF EditFails, TypeOK, DiskType, Row
  <2>3. TimerType'
    BY <1>13 DEF EditFails, OnPendingChange, TypeOK, TimerType
  <2>4. QED
    BY <1>13, <2>1, <2>2, <2>3 DEF EditFails, Fault, TypeOK, FlagType, CallType, DiskType,
                                   ServerType, sync, flags, server
<1>14. CASE UNCHANGED vars
  BY <1>14 DEF vars, TypeOK, FlagType, TimerType, CallType, DiskType, ServerType,
               engine, sync, timers, flags, disk, server
<1>15. QED
  BY <1>1, <1>2, <1>3, <1>4, <1>5, <1>6, <1>7, <1>8, <1>9, <1>10, <1>11, <1>12, <1>13, <1>14
     DEF Next, UserStep, Environment, Faults

\* Every reachable state is well typed; in particular the retry delay never
\* leaves 1.._maxBackoff.
THEOREM TypeCorrect == Spec => []TypeOK
<1>1. Init => TypeOK
  BY InitType
<1>2. TypeOK /\ [Next]_vars => TypeOK'
  BY NextType
<1>3. QED
  BY <1>1, <1>2, PTL DEF Spec

-----------------------------------------------------------------------------
(* The inductive invariant *)

Running(c)  == call[c].pc # "idle"
Sent(c)     == call[c].pc \in {"rpc", "reply", "apply", "remove"}
Answered(c) == call[c].pc \in {"reply", "apply", "remove"}

\* At most one activation of syncNow is past its guard.
SingleFlight ==
    \A c \in Calls : Running(c) => isSyncing /\ \A d \in Calls : Running(d) => d = c

\* The log holds change n of e above lo, and has shown it at once.
Echoed(log, n, e, lo) ==
    \E i \in 1..Len(log) :
        lo < i /\ log[i].seen = "atOnce" /\ log[i].change = n /\ log[i].entity = e

\* Change n can be read in the log.
Logged(log, n) == \E i \in Seen(log) : log[i].change = n

\* The row of entry i shows it or something newer, and not the edit it echoes.
Shown(i) ==
    /\ Reflected(i)
    /\ transactions[changeLog[i].entity] # [src |-> "edit", at |-> changeLog[i].change]

\* What an activation has sent: its batch is still queued, and what the
\* server has taken from the request is in the log above the checkpoint.
BatchInv(c) ==
    /\ call[c].todo \subseteq call[c].batch
    /\ call[c].batch \subseteq pendingChanges
    /\ ~Sent(c) => call[c].batch = {}
    /\ Sent(c) => \A x \in call[c].batch \ call[c].todo :
                      Echoed(changeLog, x.id, x.entity, From(c))

\* What an activation has read: sync_meta is as it was.
MetaInv(c) == call[c].pc \notin {"idle", "getMeta"} => call[c].meta = syncMeta

\* Entry i still waits in the reply, or its row shows it and what waits is newer.
Pulled(c, i) == i \in call[c].reply \/ (Shown(i) /\ \A k \in call[c].reply : i < k)

\* What a reply covers: of the entries up to its checkpoint that were there at
\* once it has left out none, and those that are worked off show in their rows.
ReplyInv(c) ==
    Answered(c) =>
        /\ call[c].todo = {}
        /\ From(c) <= call[c].hi /\ call[c].hi <= Len(changeLog)
        /\ call[c].pc = "remove" => call[c].reply = {}
        /\ \A i \in call[c].reply : From(c) < i /\ i <= call[c].hi
        /\ \A i \in 1..Len(changeLog) :
               From(c) < i /\ i <= call[c].hi /\ changeLog[i].seen = "atOnce" => Pulled(c, i)

CallInv(c) == BatchInv(c) /\ MetaInv(c) /\ ReplyInv(c)

\* Change ids are unique, and those in use are below the counter.
IdInv ==
    /\ \A p \in pendingChanges : p.id < nextId
    /\ \A p, q \in pendingChanges : p.id = q.id => p = q
    /\ \A i \in 1..Len(changeLog) : changeLog[i].change < nextId
    /\ \A s \in strays : \A x \in s.todo : x.id < nextId

DataInv ==
    /\ IdInv
    /\ Checkpoint <= Len(changeLog)
    /\ NoLostChange /\ CheckpointApplied /\ EditStaysCovered

\* A request holds, with each change, every older one that cannot be read yet.
Ordered(S) ==
    \A y \in S : \A n \in 1..(y.id - 1) :
        (\E z \in S : z.id = n) \/ Logged(changeLog, n)

\* The entry an abandoned request is inserting carries its next change.
Underway(s) ==
    s.at # 0 => /\ s.at \in 1..Len(changeLog)
                /\ \A x \in s.todo : IsFirst(x, s.todo) => changeLog[s.at].change = x.id

\* An entry, readable or not, comes after the changes older than its own.
EntriesInOrder ==
    \A j \in 1..Len(changeLog) : \A n \in 1..(changeLog[j].change - 1) :
        \E i \in Seen(changeLog) : i < j /\ changeLog[i].change = n

OrderInv ==
    /\ \A c \in Calls : Ordered(call[c].todo)
    /\ \A s \in strays : Ordered(s.todo) /\ Underway(s)
    /\ EntriesInOrder

Inv  == SingleFlight /\ (\A c \in Calls : CallInv(c)) /\ DataInv /\ OrderInv
IInv == TypeOK /\ Inv

-----------------------------------------------------------------------------
(* Frames: what is kept when an activation or the data is left alone *)

\* The log only grows, and an entry that was not readable may become so.
LogGrows ==
    /\ Len(changeLog) <= Len(changeLog)'
    /\ \A i \in 1..Len(changeLog) :
           /\ changeLog'[i].entity = changeLog[i].entity
           /\ changeLog'[i].change = changeLog[i].change
           /\ \/ changeLog'[i].seen = changeLog[i].seen
              \/ changeLog[i].seen = "inserting" /\ changeLog'[i].seen = "late"

\* Appending an entry keeps the old ones and adds one at the next position.
LEMMA AppendGrows ==
    ASSUME changeLog \in Seq(Entry), NEW new \in Entry,
           changeLog' = Append(changeLog, new)
    PROVE  /\ LogGrows
           /\ Len(changeLog) \in Nat
           /\ Len(changeLog)' = Len(changeLog) + 1
           /\ changeLog'[Len(changeLog) + 1] = new
           /\ \A i \in 1..Len(changeLog) : changeLog'[i] = changeLog[i]
BY DEF LogGrows

\* So does making an entry readable.
LEMMA CommitGrows ==
    ASSUME changeLog \in Seq(Entry), NEW i, Commit(i)
    PROVE  /\ LogGrows /\ Len(changeLog)' = Len(changeLog) /\ Len(changeLog) \in Nat
           /\ i \in Seen(changeLog')
<1>1. i \in 1..Len(changeLog) /\ changeLog[i] \in Entry /\ changeLog[i].seen = "inserting"
  BY DEF Commit
<1>2. PICK new : new = [changeLog[i] EXCEPT !.seen = "late"]
  OBVIOUS
<1>3. new.seen = "late" /\ new.entity = changeLog[i].entity /\ new.change = changeLog[i].change
  BY <1>1, <1>2 DEF Entry
<1>4. /\ Len(changeLog)' = Len(changeLog) /\ changeLog'[i] = new
      /\ \A j \in 1..Len(changeLog) : j # i => changeLog'[j] = changeLog[j]
  BY <1>2, CommittedEntry
<1>5. QED
  BY <1>1, <1>3, <1>4 DEF LogGrows, Seen

\* An unchanged log is a log that grows.
LEMMA SameLogGrows ==
    ASSUME changeLog \in Seq(Entry), changeLog' = changeLog
    PROVE  LogGrows
BY DEF LogGrows

\* What has been shown at once stays so, at the same position.
LEMMA EchoStays ==
    ASSUME changeLog \in Seq(Entry), changeLog' \in Seq(Entry), LogGrows,
           NEW n, NEW e, NEW lo, Echoed(changeLog, n, e, lo)
    PROVE  Echoed(changeLog', n, e, lo)
<1>1. PICK i \in 1..Len(changeLog) :
        /\ lo < i /\ changeLog[i].seen = "atOnce"
        /\ changeLog[i].change = n /\ changeLog[i].entity = e
  BY DEF Echoed
<1>2. i \in 1..Len(changeLog)'
  BY DEF LogGrows
<1>3. /\ changeLog'[i].seen = "atOnce"
      /\ changeLog'[i].change = n /\ changeLog'[i].entity = e
  BY <1>1 DEF LogGrows
<1>4. QED
  BY <1>1, <1>2, <1>3 DEF Echoed

\* What can be read can be read for good.
LEMMA SeenStays ==
    ASSUME changeLog \in Seq(Entry), changeLog' \in Seq(Entry), LogGrows,
           NEW i \in Seen(changeLog)
    PROVE  i \in Seen(changeLog') /\ changeLog'[i].change = changeLog[i].change
BY DEF LogGrows, Seen

LEMMA LoggedStays ==
    ASSUME changeLog \in Seq(Entry), changeLog' \in Seq(Entry), LogGrows, NEW n,
           Logged(changeLog, n)
    PROVE  Logged(changeLog', n)
BY SeenStays DEF Logged

\* An activation that is not running satisfies its invariant.
LEMMA IdleInv ==
    ASSUME NEW c \in Calls, call[c] = Idle
    PROVE  CallInv(c)
BY DEF CallInv, BatchInv, MetaInv, ReplyInv, Sent, Answered, Idle

\* Whatever happens to the data, an activation that stays idle is unaffected.
LEMMA IdleStays ==
    ASSUME NEW d \in Calls, CallInv(d), call[d].pc = "idle", call'[d] = call[d]
    PROVE  CallInv(d)'
BY DEF CallInv, BatchInv, MetaInv, ReplyInv, Sent, Answered

\* What an activation has sent stays in the queue and in the log.
LEMMA BatchStays ==
    ASSUME TypeOK, TypeOK', NEW c \in Calls, BatchInv(c), call'[c] = call[c],
           pendingChanges \subseteq pendingChanges', LogGrows
    PROVE  BatchInv(c)'
<1>1. From(c)' = From(c) /\ Sent(c)' = Sent(c)
  BY DEF From, Sent
<1>2. changeLog \in Seq(Entry) /\ changeLog' \in Seq(Entry)
  BY DEF TypeOK, ServerType
<1>3. SUFFICES ASSUME Sent(c), NEW x \in call[c].batch \ call[c].todo
               PROVE  Echoed(changeLog', x.id, x.entity, From(c))
  BY <1>1 DEF BatchInv
<1>4. Echoed(changeLog, x.id, x.entity, From(c))
  BY <1>3 DEF BatchInv
<1>5. QED
  BY <1>2, <1>4, EchoStays

\* A call that no step of its own moves keeps its invariant while changes
\* are queued, rows edited and entries logged around it.
LEMMA CallStays ==
    ASSUME TypeOK, TypeOK', NEW c \in Calls, CallInv(c), call'[c] = call[c],
           pendingChanges \subseteq pendingChanges', syncMeta' = syncMeta, LogGrows,
           \A i \in 1..Len(changeLog) : Shown(i) => Shown(i)'
    PROVE  CallInv(c)'
<1>1. /\ Len(changeLog) \in Nat /\ Len(changeLog)' \in Nat
      /\ Len(changeLog) <= Len(changeLog)'
  BY DEF TypeOK, ServerType, LogGrows
<1>2. call[c].hi \in Nat /\ From(c)' = From(c) /\ From(c) \in Nat
  BY CheckpointType DEF TypeOK, CallType, CallState, From
<1>3. BatchInv(c)'
  BY BatchStays DEF CallInv
<1>4. MetaInv(c)'
  BY DEF CallInv, MetaInv
<1>5. ReplyInv(c)'
  <2>1. SUFFICES ASSUME Answered(c)
                 PROVE  /\ call[c].hi <= Len(changeLog)'
                        /\ \A i \in 1..Len(changeLog)' :
                               From(c) < i /\ i <= call[c].hi /\ changeLog'[i].seen = "atOnce"
                                   => Pulled(c, i)'
    BY <1>2 DEF CallInv, ReplyInv, Answered
  <2>2. call[c].hi <= Len(changeLog)
    BY <2>1 DEF CallInv, ReplyInv
  <2>3. ASSUME NEW i \in 1..Len(changeLog)', From(c) < i, i <= call[c].hi,
               changeLog'[i].seen = "atOnce"
        PROVE  Pulled(c, i)'
    <3>1. i \in 1..Len(changeLog)
      BY <1>1, <1>2, <2>2, <2>3
    <3>2. changeLog[i].seen = "atOnce"
      BY <2>3, <3>1 DEF LogGrows
    <3>3. Pulled(c, i)
      BY <2>1, <2>3, <3>1, <3>2 DEF CallInv, ReplyInv
    <3>4. QED
      BY <3>1, <3>3 DEF Pulled
  <2>4. QED
    BY <1>1, <1>2, <2>2, <2>3
<1>6. QED
  BY <1>3, <1>4, <1>5 DEF CallInv

\* The data invariant speaks of the database, the log and the ids in flight.
LEMMA DataStays ==
    ASSUME DataInv, UNCHANGED <<transactions, pendingChanges, nextId, syncMeta, changeLog>>,
           \A s \in strays' : \A x \in s.todo : x.id < nextId
    PROVE  DataInv'
BY DEF DataInv, IdInv, Checkpoint, NoLostChange, CheckpointApplied, Reflected,
       EditStaysCovered, Seen

\* While one activation runs, a step of it leaves all the others idle.
LEMMA OneAtATime ==
    ASSUME TypeOK, Inv, NEW c \in Calls, Running(c), NEW new \in CallState,
           Become(c, new), isSyncing' = TRUE \/ new.pc = "idle", CallInv(c)'
    PROVE  /\ call'[c] = new
           /\ SingleFlight' /\ \A d \in Calls : CallInv(d)'
<1>1. /\ call'[c] = new
      /\ \A d \in Calls \ {c} : call'[d] = call[d] /\ call[d].pc = "idle"
  BY DEF TypeOK, CallType, Become, Inv, SingleFlight, Running
<1>2. SingleFlight'
  BY <1>1, IdleType DEF SingleFlight, Running, Inv, CallState
<1>3. ASSUME NEW d \in Calls PROVE CallInv(d)'
  <2>1. CASE d = c
    BY <2>1
  <2>2. CASE d # c
    BY <1>1, <2>2, IdleStays DEF Inv
  <2>3. QED
    BY <2>1, <2>2
<1>4. QED
  BY <1>1, <1>2, <1>3

\* A request keeps its order while the log grows.
LEMMA OrderedStays ==
    ASSUME changeLog \in Seq(Entry), changeLog' \in Seq(Entry), LogGrows,
           NEW S, Ordered(S)
    PROVE  Ordered(S)'
BY LoggedStays DEF Ordered

\* A request that is abandoned has nothing under way.
Abandoned(s) == \E d \in Calls : s = [todo |-> call[d].todo, at |-> 0]

\* While the log is left alone, the order is kept by any step that starts
\* requests in order.
LEMMA OrderStays ==
    ASSUME OrderInv, changeLog' = changeLog,
           \A d \in Calls : Ordered(call'[d].todo),
           \A s \in strays' : s \in strays \/ Abandoned(s)
    PROVE  OrderInv'
<1>1. \A S : Ordered(S) => Ordered(S)'
  BY DEF Ordered
<1>2. EntriesInOrder'
  BY DEF OrderInv, EntriesInOrder
<1>3. ASSUME NEW s \in strays' PROVE Ordered(s.todo)' /\ Underway(s)'
  <2>1. CASE s \in strays
    BY <1>1, <2>1 DEF OrderInv, Underway
  <2>2. CASE Abandoned(s)
    BY <1>1, <2>2 DEF OrderInv, Underway, Abandoned
  <2>3. QED
    BY <1>3, <2>1, <2>2
<1>4. \A d \in Calls : Ordered(call[d].todo)'
  BY <1>1
<1>5. QED
  BY <1>2, <1>3, <1>4 DEF OrderInv

\* What the activations are sending consists of queued changes.
LEMMA TodoIsQueued ==
    ASSUME TypeOK, Inv, NEW d \in Calls, NEW x \in call[d].todo
    PROVE  x \in pendingChanges /\ x \in Change /\ x.id < nextId
BY DEF Inv, CallInv, BatchInv, DataInv, IdInv, TypeOK, DiskType

\* What is abandoned was queued.
LEMMA StrayIds ==
    ASSUME TypeOK, Inv, \A s \in strays' : s \in strays \/ Abandoned(s)
    PROVE  \A s \in strays' : \A x \in s.todo : x.id < nextId
<1>1. SUFFICES ASSUME NEW s \in strays', NEW x \in s.todo PROVE x.id < nextId
  OBVIOUS
<1>2. CASE s \in strays
  BY <1>1, <1>2 DEF Inv, DataInv, IdInv
<1>3. CASE Abandoned(s)
  <2>1. PICK d \in Calls : s = [todo |-> call[d].todo, at |-> 0]
    BY <1>3 DEF Abandoned
  <2>2. x \in call[d].todo
    BY <1>1, <2>1
  <2>3. QED
    BY <2>2, TodoIsQueued
<1>4. QED
  BY <1>2, <1>3

\* A step of one activation that leaves the database and the log alone keeps
\* the invariant if it keeps that of the activation.
LEMMA CallStep ==
    ASSUME TypeOK, Inv, NEW c \in Calls, Running(c), NEW new \in CallState,
           Become(c, new), isSyncing' = TRUE \/ new.pc = "idle", CallInv(c)',
           Ordered(new.todo),
           UNCHANGED <<transactions, pendingChanges, nextId, syncMeta, changeLog>>,
           \A s \in strays' : s \in strays \/ Abandoned(s)
    PROVE  Inv'
<1>1. call'[c] = new /\ SingleFlight' /\ \A d \in Calls : CallInv(d)'
  BY OneAtATime
<1>2. DataInv'
  BY StrayIds, DataStays DEF Inv
<1>3. OrderInv'
  <2>1. \A d \in Calls : Ordered(call'[d].todo)
    BY <1>1 DEF Become, TypeOK, CallType, Inv, OrderInv
  <2>2. QED
    BY <2>1, OrderStays DEF Inv
<1>4. QED
  BY <1>1, <1>2, <1>3 DEF Inv

\* A call that ends, in whatever way, leaves nothing behind.
LEMMA CallEnds ==
    ASSUME TypeOK, Inv, NEW c \in Calls, Running(c), Become(c, Idle),
           UNCHANGED <<transactions, pendingChanges, nextId, syncMeta, changeLog>>,
           \A s \in strays' : s \in strays \/ Abandoned(s)
    PROVE  Inv'
<1>1. call'[c] = Idle
  BY DEF Become, TypeOK, CallType
<1>2. CallInv(c)'
  BY <1>1 DEF CallInv, BatchInv, MetaInv, ReplyInv, Sent, Answered, Idle
<1>3. Ordered(Idle.todo) /\ Idle.pc = "idle"
  BY DEF Ordered, Idle
<1>4. QED
  BY <1>2, <1>3, IdleType, CallStep

-----------------------------------------------------------------------------
(* The steps of an activation *)

\* Reading sync_meta.
LEMMA GetMetaInv ==
    ASSUME TypeOK, Inv, NEW c \in Calls, GetMeta(c)
    PROVE  Inv'
<1> DEFINE new == [call[c] EXCEPT !.pc = "getPending", !.meta = syncMeta]
<1>1. call[c] \in CallState /\ Running(c)
  BY DEF TypeOK, CallType, GetMeta, Running
<1>2. new \in CallState
  BY <1>1 DEF CallState, TypeOK, DiskType
<1>3. call'[c] = new
  BY DEF GetMeta, Become, TypeOK, CallType
<1>4. /\ new.pc = "getPending" /\ new.meta = syncMeta
      /\ new.batch = call[c].batch /\ new.todo = call[c].todo
  BY <1>1 DEF CallState
<1> HIDE DEF new
<1>5. CallInv(c)'
  BY <1>3, <1>4 DEF Inv, CallInv, BatchInv, MetaInv, ReplyInv, Sent, Answered, GetMeta, disk
<1>6. Ordered(new.todo)
  BY <1>4 DEF Inv, OrderInv
<1>7. Become(c, new)
  BY DEF GetMeta, new
<1>8. isSyncing' = TRUE
  BY <1>1 DEF Inv, SingleFlight, GetMeta, TypeOK, FlagType
<1>9. QED
  BY <1>1, <1>2, <1>5, <1>6, <1>7, <1>8, CallStep DEF GetMeta, disk, server

\* Taking the queue as the batch.
LEMMA SendInv ==
    ASSUME TypeOK, Inv, NEW c \in Calls, Send(c)
    PROVE  Inv'
<1> DEFINE new == [call[c] EXCEPT !.pc = "rpc", !.batch = pendingChanges,
                                  !.todo = pendingChanges]
<1>1. call[c] \in CallState /\ Running(c)
  BY DEF TypeOK, CallType, Send, Running
<1>2. new \in CallState
  BY <1>1 DEF CallState, TypeOK, DiskType
<1>3. call'[c] = new
  BY DEF Send, Become, TypeOK, CallType
<1>4. /\ new.pc = "rpc" /\ new.meta = call[c].meta
      /\ new.batch = pendingChanges /\ new.todo = pendingChanges
  BY <1>1 DEF CallState
<1> HIDE DEF new
<1>5. CallInv(c)'
  BY <1>3, <1>4 DEF Inv, CallInv, BatchInv, MetaInv, ReplyInv, Sent, Answered, Send, disk
<1>6. Ordered(new.todo)
  <2>1. SUFFICES ASSUME NEW y \in pendingChanges, NEW n \in 1..(y.id - 1)
                 PROVE  (\E z \in pendingChanges : z.id = n) \/ Logged(changeLog, n)
    BY <1>4 DEF Ordered
  <2>2. y.id \in Nat /\ nextId \in Nat /\ y.id < nextId
    BY DEF TypeOK, DiskType, Change, Inv, DataInv, IdInv
  <2>3. n \in 1..(nextId - 1)
    BY <2>2
  <2>4. QED
    BY <2>3 DEF Inv, DataInv, NoLostChange, Logged
<1>7. Become(c, new)
  BY DEF Send, new
<1>8. isSyncing' = TRUE
  BY <1>1 DEF Inv, SingleFlight, Send, TypeOK, FlagType
<1>9. QED
  BY <1>1, <1>2, <1>5, <1>6, <1>7, <1>8, CallStep DEF Send, disk, server

\* The checkpoint a running activation works from is the stored one.
LEMMA FromIsCheckpoint ==
    ASSUME TypeOK, Inv, NEW c \in Calls, call[c].pc \notin {"idle", "getMeta"}
    PROVE  From(c) = Checkpoint /\ From(c) \in Nat /\ From(c) <= Len(changeLog)
<1>1. call[c].meta = syncMeta
  BY DEF Inv, CallInv, MetaInv
<1>2. From(c) = Checkpoint
  BY <1>1 DEF From, Checkpoint
<1>3. QED
  BY <1>2, CheckpointType DEF TypeOK, DiskType, Checkpoint, Inv, DataInv

\* An answer, even of a read that broke off, leaves nothing out below the
\* checkpoint it comes with.
LEMMA AnswerInv ==
    ASSUME TypeOK, Inv, NEW c \in Calls, call[c].pc = "rpc", call[c].todo = {},
           NEW read \in SUBSET Readable(c), Answer(c, read),
           \A i \in Readable(c), j \in read : i <= j => i \in read,
           isSyncing' = isSyncing, strays' = strays,
           UNCHANGED <<transactions, pendingChanges, nextId, syncMeta, changeLog>>
    PROVE  Inv'
<1>1. PICK hi \in read \cup {From(c)} :
        /\ \A i \in read : i <= hi
        /\ Become(c, [call[c] EXCEPT !.pc = "reply", !.hi = hi, !.reply = read])
  BY DEF Answer
<1> DEFINE new == [call[c] EXCEPT !.pc = "reply", !.hi = hi, !.reply = read]
<1>2. /\ call[c] \in CallState /\ Running(c) /\ Len(changeLog) \in Nat
      /\ From(c) \in Nat /\ From(c) <= Len(changeLog)
  BY FromIsCheckpoint DEF TypeOK, CallType, Running, ServerType
<1>3. /\ \A i \in read : i \in 1..Len(changeLog) /\ From(c) < i
      /\ \A i \in 1..Len(changeLog) :
             From(c) < i /\ changeLog[i].seen = "atOnce" => i \in Readable(c)
  BY DEF Readable
<1>4. hi \in Nat /\ From(c) <= hi /\ hi <= Len(changeLog) /\ read \subseteq Nat
  BY <1>2, <1>3
<1>5. new \in CallState
  BY <1>2, <1>4 DEF CallState
<1>6. call'[c] = new
  BY <1>1 DEF Become, TypeOK, CallType
<1>7. /\ new.pc = "reply" /\ new.meta = call[c].meta /\ new.hi = hi /\ new.reply = read
      /\ new.batch = call[c].batch /\ new.todo = {}
  BY <1>2 DEF CallState
<1> HIDE DEF new
<1>8. CallInv(c)'
  <2>1. From(c)' = From(c)
    BY <1>6, <1>7 DEF From
  <2>2. MetaInv(c)'
    BY <1>6, <1>7 DEF Inv, CallInv, MetaInv
  <2>3. BatchInv(c)'
    BY <1>6, <1>7, <2>1 DEF Inv, CallInv, BatchInv, Sent
  <2>4. ASSUME NEW i \in 1..Len(changeLog), From(c) < i, i <= hi,
               changeLog[i].seen = "atOnce"
        PROVE  i \in read
    <3>1. i \in Readable(c)
      BY <1>3, <2>4
    <3>2. hi \in read
      BY <1>2, <1>4, <2>4
    <3>3. QED
      BY <2>4, <3>1, <3>2
  <2>5. ReplyInv(c)'
    BY <1>1, <1>3, <1>4, <1>6, <1>7, <2>1, <2>4 DEF ReplyInv, Answered, Pulled
  <2>6. QED
    BY <2>2, <2>3, <2>5 DEF CallInv
<1>9. Ordered(new.todo)
  BY <1>7 DEF Ordered
<1>10. Become(c, new)
  BY <1>1 DEF new
<1>11. isSyncing' = TRUE
  BY <1>2 DEF Inv, SingleFlight, TypeOK, FlagType
<1>12. QED
  BY <1>2, <1>5, <1>8, <1>9, <1>10, <1>11, CallStep

\* The reply, complete or broken off.
LEMMA ServerReplyInv ==
    ASSUME TypeOK, Inv, NEW c \in Calls, ServerReply(c) \/ ServerReadBreaks(c)
    PROVE  Inv'
<1>1. CASE ServerReply(c)
  BY <1>1, AnswerInv DEF ServerReply, disk, server
<1>2. ASSUME NEW end \in Readable(c), Answer(c, {i \in Readable(c) : i < end}),
             ServerReadBreaks(c)
      PROVE  Inv'
  <2> DEFINE read == {i \in Readable(c) : i < end}
  <2>1. read \in SUBSET Readable(c)
    OBVIOUS
  <2>2. Readable(c) \subseteq Nat
    BY DEF Readable
  <2>3. \A i \in Readable(c), j \in read : i <= j => i \in read
    BY <2>2
  <2>4. Answer(c, read)
    BY <1>2
  <2> HIDE DEF read
  <2>5. QED
    BY <1>2, <2>1, <2>3, <2>4, AnswerInv DEF ServerReadBreaks, disk, server
<1>3. QED
  BY <1>1, <1>2 DEF ServerReadBreaks

\* The reply reaches the engine, and later the loop over it has ended.
LEMMA ReceiveReplyInv ==
    ASSUME TypeOK, Inv, NEW c \in Calls, ReceiveReply(c) \/ FinishApply(c)
    PROVE  Inv'
<1>1. PICK pc \in {"apply", "remove"} :
        /\ Become(c, [call[c] EXCEPT !.pc = pc])
        /\ pc = "remove" => call[c].reply = {}
  BY DEF ReceiveReply, FinishApply
<1> DEFINE new == [call[c] EXCEPT !.pc = pc]
<1>2. /\ call[c] \in CallState /\ Running(c) /\ Answered(c) /\ isSyncing' = isSyncing
      /\ UNCHANGED <<transactions, pendingChanges, nextId, syncMeta, changeLog, strays>>
  BY DEF TypeOK, CallType, ReceiveReply, FinishApply, Running, Answered, disk, server
<1>3. new \in CallState
  BY <1>2 DEF CallState
<1>4. call'[c] = new /\ Become(c, new)
  BY <1>1 DEF Become, TypeOK, CallType
<1>5. /\ new.pc = pc /\ new.meta = call[c].meta /\ new.hi = call[c].hi
      /\ new.batch = call[c].batch /\ new.todo = call[c].todo /\ new.reply = call[c].reply
  BY <1>2 DEF CallState
<1> HIDE DEF new
<1>6. CallInv(c)'
  <2>1. From(c)' = From(c)
    BY <1>4, <1>5 DEF From
  <2>2. BatchInv(c)' /\ MetaInv(c)'
    BY <1>2, <1>4, <1>5, <2>1 DEF Inv, CallInv, BatchInv, MetaInv, Sent, Answered
  <2>3. \A i : Pulled(c, i) => Pulled(c, i)'
    BY <1>2, <1>4, <1>5 DEF Pulled, Shown, Reflected
  <2>4. ReplyInv(c)'
    BY <1>1, <1>2, <1>4, <1>5, <2>1, <2>3 DEF Inv, CallInv, ReplyInv, Answered
  <2>5. QED
    BY <2>2, <2>4 DEF CallInv
<1>7. Ordered(new.todo)
  BY <1>5 DEF Inv, OrderInv
<1>8. isSyncing' = TRUE
  BY <1>2 DEF Inv, SingleFlight, TypeOK, FlagType
<1>9. QED
  BY <1>2, <1>3, <1>4, <1>6, <1>7, <1>8, CallStep

\* Applying one entry: its row moves on, never back.
LEMMA ApplyEntryInv ==
    ASSUME TypeOK, Inv, NEW c \in Calls, ApplyEntry(c)
    PROVE  Inv'
<1>1. PICK i \in call[c].reply :
        /\ Following(c, i)
        /\ transactions' = [transactions EXCEPT ![changeLog[i].entity] =
                                                    [src |-> "log", at |-> i]]
        /\ Become(c, [call[c] EXCEPT !.reply = @ \ {i}])
  BY DEF ApplyEntry
<1>2. /\ call[c] \in CallState /\ Running(c) /\ call[c].pc = "apply" /\ Answered(c)
      /\ call[c].hi \in Nat /\ call[c].reply \subseteq Nat /\ i \in Nat
  BY DEF TypeOK, CallType, CallState, ApplyEntry, Running, Answered
<1>3. /\ From(c) \in Nat /\ From(c) = Checkpoint /\ From(c) < i /\ i <= call[c].hi
      /\ Len(changeLog) \in Nat /\ call[c].hi <= Len(changeLog)
  BY <1>2, FromIsCheckpoint DEF Inv, CallInv, ReplyInv, TypeOK, ServerType
<1>4. i \in 1..Len(changeLog)
  BY <1>2, <1>3
<1>5. \A j \in 1..Len(changeLog) : changeLog[j].entity \in Entities
  <2>1. \A j \in 1..Len(changeLog) : changeLog[j] \in Entry
    BY DEF TypeOK, ServerType
  <2>2. QED
    BY <2>1 DEF Entry
<1>6. PICK e \in Entities : e = changeLog[i].entity
  BY <1>4, <1>5
<1> DEFINE new == [call[c] EXCEPT !.reply = @ \ {i}]
<1>7. call'[c] = new /\ Become(c, new) /\ changeLog' = changeLog
  BY <1>1 DEF ApplyEntry, Become, TypeOK, CallType, server
<1>8. new \in CallState
  BY <1>2 DEF CallState
<1>9. /\ new.pc = "apply" /\ new.meta = call[c].meta /\ new.hi = call[c].hi
      /\ new.batch = call[c].batch /\ new.todo = call[c].todo
      /\ new.reply = call[c].reply \ {i}
  BY <1>2 DEF CallState
<1>10. /\ transactions'[e] = [src |-> "log", at |-> i]
       /\ \A f \in Entities \ {e} : transactions'[f] = transactions[f]
  BY <1>1, <1>6 DEF TypeOK, DiskType
<1>11. \A j \in 1..Len(changeLog) : j <= i /\ Reflected(j) => Reflected(j)'
  BY <1>2, <1>7, <1>10, <1>5 DEF Reflected
<1>12. \A j \in 1..Len(changeLog) : j <= i /\ Shown(j) => Shown(j)'
  BY <1>2, <1>7, <1>10, <1>5, <1>11 DEF Shown
<1>13. Shown(i)'
  BY <1>2, <1>6, <1>7, <1>10 DEF Shown, Reflected
<1> HIDE DEF new
<1>14. CallInv(c)'
  <2>1. From(c)' = From(c)
    BY <1>7, <1>9 DEF From
  <2>2. BatchInv(c)' /\ MetaInv(c)'
    BY <1>2, <1>7, <1>9, <2>1 DEF Inv, CallInv, BatchInv, MetaInv, Sent, ApplyEntry
  <2>3. ASSUME NEW j \in 1..Len(changeLog), Pulled(c, j)
        PROVE  Pulled(c, j)'
    <3>1. CASE j = i
      <4>1. \A k \in call[c].reply \ {i} : i < k
        BY <1>1, <1>2 DEF Following
      <4>2. QED
        BY <1>7, <1>9, <1>13, <3>1, <4>1 DEF Pulled
    <3>2. CASE j # i /\ j \in call[c].reply
      BY <1>7, <1>9, <3>2 DEF Pulled
    <3>3. CASE j \notin call[c].reply
      <4>1. Shown(j) /\ \A k \in call[c].reply : j < k
        BY <2>3, <3>3 DEF Pulled
      <4>2. Shown(j)'
        BY <1>2, <1>12, <4>1
      <4>3. QED
        BY <1>7, <1>9, <4>1, <4>2 DEF Pulled
    <3>4. QED
      BY <3>1, <3>2, <3>3
  <2>4. ReplyInv(c)'
    BY <1>2, <1>7, <1>9, <2>1, <2>3 DEF Inv, CallInv, ReplyInv, Answered
  <2>5. QED
    BY <2>2, <2>4 DEF CallInv
<1>15. isSyncing' = TRUE
  BY <1>2 DEF Inv, SingleFlight, ApplyEntry, TypeOK, FlagType
<1>16. call'[c] = new /\ SingleFlight' /\ \A d \in Calls : CallInv(d)'
  BY <1>2, <1>7, <1>8, <1>14, <1>15, OneAtATime
<1>17. DataInv'
  <2>1. /\ pendingChanges' = pendingChanges /\ nextId' = nextId /\ strays' = strays
        /\ syncMeta' = syncMeta /\ Checkpoint' = Checkpoint
    BY DEF ApplyEntry, server, Checkpoint
  <2>2. IdInv' /\ NoLostChange' /\ Checkpoint' <= Len(changeLog)'
    BY <1>7, <2>1 DEF Inv, DataInv, IdInv, NoLostChange
  <2>3. CheckpointApplied'
    BY <1>2, <1>3, <1>7, <1>11, <2>1 DEF Inv, DataInv, CheckpointApplied
  <2>4. EditStaysCovered'
    BY <1>7, <1>10, <2>1 DEF Inv, DataInv, EditStaysCovered
  <2>5. QED
    BY <2>2, <2>3, <2>4 DEF DataInv
<1>18. OrderInv'
  <2>1. \A d \in Calls : call'[d].todo = call[d].todo
    BY <1>7, <1>9 DEF Become, TypeOK, CallType
  <2>2. QED
    BY <1>7, <2>1, OrderStays DEF Inv, OrderInv, ApplyEntry, server
<1>19. QED
  BY <1>16, <1>17, <1>18 DEF Inv

\* A sent change is removed from the queue: the log shows it, above the stored
\* checkpoint and to whoever reads from there.
LEMMA RemovePendingInv ==
    ASSUME TypeOK, Inv, NEW c \in Calls, RemovePending(c)
    PROVE  Inv'
<1>1. PICK x \in call[c].batch :
        /\ pendingChanges' = {p \in pendingChanges : p.id # x.id}
        /\ Become(c, [call[c] EXCEPT !.batch = @ \ {x}])
  BY DEF RemovePending
<1> DEFINE new == [call[c] EXCEPT !.batch = @ \ {x}]
<1>2. /\ call[c] \in CallState /\ Running(c) /\ call[c].pc = "remove"
      /\ Answered(c) /\ Sent(c) /\ call[c].todo = {}
  BY DEF TypeOK, CallType, RemovePending, Running, Inv, CallInv, ReplyInv, Answered, Sent
<1>3. new \in CallState
  BY <1>2 DEF CallState
<1>4. call'[c] = new
  BY <1>1 DEF Become, TypeOK, CallType
<1>5. /\ new.pc = "remove" /\ new.meta = call[c].meta /\ new.hi = call[c].hi
      /\ new.batch = call[c].batch \ {x} /\ new.todo = {} /\ new.reply = call[c].reply
  BY <1>2 DEF CallState
<1> HIDE DEF new
<1>6. /\ changeLog' = changeLog /\ transactions' = transactions /\ nextId' = nextId
      /\ strays' = strays /\ syncMeta' = syncMeta /\ isSyncing' = isSyncing
  BY DEF RemovePending, server
<1>7. call[c].batch \subseteq pendingChanges
  BY DEF Inv, CallInv, BatchInv
<1>8. \A p \in pendingChanges : p.id = x.id => p = x
  BY <1>7 DEF Inv, DataInv, IdInv
<1>9. CallInv(c)'
  <2>1. From(c)' = From(c)
    BY <1>4, <1>5 DEF From
  <2>2. call[c].batch \ {x} \subseteq pendingChanges'
    BY <1>1, <1>7, <1>8
  <2>3. BatchInv(c)'
    BY <1>2, <1>4, <1>5, <1>6, <2>1, <2>2 DEF Inv, CallInv, BatchInv, Sent
  <2>4. \A i : Pulled(c, i) => Pulled(c, i)'
    BY <1>4, <1>5, <1>6 DEF Pulled, Shown, Reflected
  <2>5. MetaInv(c)' /\ ReplyInv(c)'
    BY <1>2, <1>4, <1>5, <1>6, <2>1, <2>4 DEF Inv, CallInv, MetaInv, ReplyInv, Answered
  <2>6. QED
    BY <2>3, <2>5 DEF CallInv
<1>10. isSyncing' = TRUE
  BY <1>2, <1>6 DEF Inv, SingleFlight, TypeOK, FlagType
<1>11. call'[c] = new /\ SingleFlight' /\ \A d \in Calls : CallInv(d)'
  BY <1>1, <1>2, <1>3, <1>9, <1>10, OneAtATime DEF new
<1>12. Echoed(changeLog, x.id, x.entity, Checkpoint)
  <2>1. From(c) = Checkpoint
    BY <1>2, FromIsCheckpoint
  <2>2. QED
    BY <1>2, <2>1 DEF Inv, CallInv, BatchInv
<1>13. DataInv'
  <2>1. Checkpoint' = Checkpoint /\ pendingChanges' \subseteq pendingChanges
    BY <1>1, <1>6 DEF Checkpoint
  <2>2. IdInv' /\ Checkpoint' <= Len(changeLog)'
    BY <1>6, <2>1 DEF Inv, DataInv, IdInv
  <2>3. CheckpointApplied'
    BY <1>6, <2>1 DEF Inv, DataInv, CheckpointApplied, Reflected
  <2>4. NoLostChange'
    <3>1. \E i \in Seen(changeLog) : changeLog[i].change = x.id
      BY <1>12 DEF Echoed, Seen
    <3>2. QED
      BY <1>1, <1>6, <3>1 DEF Inv, DataInv, NoLostChange
  <2>5. EditStaysCovered'
    <3>1. SUFFICES ASSUME NEW e \in Entities, transactions[e].src = "edit",
                          NEW p \in pendingChanges, p.id = transactions[e].at, p.entity = e
                   PROVE  p \in pendingChanges' \/ Echoed(changeLog, p.id, e, Checkpoint)
      BY <1>6, <2>1 DEF Inv, DataInv, EditStaysCovered, Echoed
    <3>2. QED
      BY <1>1, <1>8, <1>12, <3>1
  <2>6. QED
    BY <2>2, <2>3, <2>4, <2>5 DEF DataInv
<1>14. OrderInv'
  <2>1. \A d \in Calls : call'[d].todo = call[d].todo
    BY <1>1, <1>2, <1>4, <1>5 DEF Become, TypeOK, CallType
  <2>2. QED
    BY <1>6, <2>1, OrderStays DEF Inv, OrderInv
<1>15. QED
  BY <1>11, <1>13, <1>14 DEF Inv

\* The new checkpoint is saved: all it covers has been applied, and no row
\* rests on an edit logged below it.
LEMMA SaveMetaInv ==
    ASSUME TypeOK, Inv, NEW c \in Calls, SaveMeta(c)
    PROVE  Inv' /\ Checkpoint' >= Checkpoint
<1> DEFINE hi == call[c].hi
           len == Len(changeLog)
<1>1. /\ call[c] \in CallState /\ Running(c) /\ call[c].pc = "remove"
      /\ hi \in Nat /\ call[c].reply = {} /\ hi <= len /\ From(c) <= hi
      /\ len \in Nat
  BY DEF TypeOK, CallType, CallState, SaveMeta, Running, Inv, CallInv, ReplyInv, Answered,
         ServerType
<1>2. /\ changeLog' = changeLog /\ transactions' = transactions /\ nextId' = nextId
      /\ strays' = strays /\ pendingChanges' = pendingChanges
      /\ syncMeta' = hi /\ Become(c, Idle)
  BY DEF SaveMeta, Succeed, server
<1>3. From(c) = Checkpoint /\ Checkpoint \in Nat /\ Checkpoint' = hi
  BY <1>1, <1>2, FromIsCheckpoint, ConstantsAssumption
     DEF Checkpoint, CheckpointOf, ConstantsAssumption
<1>4. \A i \in 1..len : changeLog[i].seen = "atOnce" /\ Checkpoint < i /\ i <= hi => Shown(i)
  BY <1>1, <1>3 DEF Inv, CallInv, ReplyInv, Answered, Pulled
<1>5. call'[c] = Idle
  BY <1>2 DEF Become, TypeOK, CallType
<1>6. CallInv(c)'
  BY <1>5 DEF CallInv, BatchInv, MetaInv, ReplyInv, Sent, Answered, Idle
<1>7. SingleFlight' /\ \A d \in Calls : CallInv(d)'
  <2>1. Idle.pc = "idle"
    BY DEF Idle
  <2>2. QED
    BY <1>1, <1>2, <1>6, <2>1, IdleType, OneAtATime
<1>8. DataInv'
  <2>1. IdInv' /\ NoLostChange' /\ Checkpoint' <= Len(changeLog)'
    BY <1>1, <1>2, <1>3 DEF Inv, DataInv, IdInv, NoLostChange
  <2>2. CheckpointApplied'
    <3>1. SUFFICES ASSUME NEW i \in 1..len, i <= hi, changeLog[i].seen = "atOnce"
                   PROVE  Reflected(i)
      BY <1>2, <1>3 DEF CheckpointApplied, Reflected
    <3>2. CASE i <= Checkpoint
      BY <3>1, <3>2 DEF Inv, DataInv, CheckpointApplied
    <3>3. CASE Checkpoint < i
      BY <1>4, <3>1, <3>3 DEF Shown
    <3>4. QED
      BY <1>3, <3>2, <3>3
  <2>3. EditStaysCovered'
    <3>1. SUFFICES ASSUME NEW e \in Entities, transactions[e].src = "edit",
                          Echoed(changeLog, transactions[e].at, e, Checkpoint)
                   PROVE  Echoed(changeLog, transactions[e].at, e, hi)
      BY <1>2, <1>3 DEF Inv, DataInv, EditStaysCovered, Echoed
    <3>2. PICK i \in 1..len : /\ Checkpoint < i /\ changeLog[i].seen = "atOnce"
                              /\ changeLog[i].entity = e
                              /\ changeLog[i].change = transactions[e].at
      BY <3>1 DEF Echoed
    <3>3. transactions[e] = [src |-> "edit", at |-> changeLog[i].change]
      BY <3>1, <3>2 DEF TypeOK, DiskType, Row
    <3>4. ~Shown(i)
      BY <3>2, <3>3 DEF Shown
    <3>5. hi < i
      BY <1>1, <1>4, <3>2, <3>4
    <3>6. QED
      BY <3>2, <3>5 DEF Echoed
  <2>4. QED
    BY <2>1, <2>2, <2>3 DEF DataInv
<1>9. OrderInv'
  <2>1. \A d \in Calls : Ordered(call'[d].todo)
    BY <1>2 DEF Become, TypeOK, CallType, Inv, OrderInv, Ordered, Idle
  <2>2. QED
    BY <1>2, <2>1, OrderStays DEF Inv
<1>10. QED
  BY <1>1, <1>3, <1>7, <1>8, <1>9 DEF Inv

-----------------------------------------------------------------------------
(* The log grows *)

\* New entries of recorded changes, and old ones that become readable, disturb
\* no data.
LEMMA LogData ==
    ASSUME TypeOK, TypeOK', DataInv, LogGrows,
           \A i \in 1..Len(changeLog)' : changeLog'[i].change < nextId,
           UNCHANGED <<transactions, pendingChanges, nextId, syncMeta>>,
           \A s \in strays' : \A x \in s.todo : x.id < nextId
    PROVE  DataInv' /\ \A i \in 1..Len(changeLog) : Shown(i) => Shown(i)'
<1>1. /\ Len(changeLog) \in Nat /\ Len(changeLog)' \in Nat
      /\ Len(changeLog) <= Len(changeLog)'
      /\ changeLog \in Seq(Entry) /\ changeLog' \in Seq(Entry)
  BY DEF TypeOK, ServerType, LogGrows
<1>2. \A i \in 1..Len(changeLog) : Reflected(i) => Reflected(i)'
  BY DEF LogGrows, Reflected
<1>3. \A i \in 1..Len(changeLog) : Shown(i) => Shown(i)'
  BY <1>2 DEF LogGrows, Shown
<1>4. Checkpoint' = Checkpoint /\ Checkpoint \in Nat /\ Checkpoint <= Len(changeLog)
  BY CheckpointType DEF Checkpoint, DataInv, TypeOK, DiskType
<1>5. IdInv'
  BY DEF DataInv, IdInv
<1>6. Checkpoint' <= Len(changeLog)'
  BY <1>1, <1>4
<1>7. NoLostChange'
  BY <1>1, SeenStays DEF DataInv, NoLostChange
<1>8. CheckpointApplied'
  <2>1. SUFFICES ASSUME NEW i \in 1..Len(changeLog)', changeLog'[i].seen = "atOnce",
                        i <= Checkpoint
                 PROVE  Reflected(i)'
    BY <1>4 DEF CheckpointApplied
  <2>2. i \in 1..Len(changeLog)
    BY <1>1, <1>4, <2>1
  <2>3. changeLog[i].seen = "atOnce"
    BY <2>1, <2>2 DEF LogGrows
  <2>4. QED
    BY <1>2, <2>1, <2>2, <2>3 DEF DataInv, CheckpointApplied
<1>9. EditStaysCovered'
  <2>1. SUFFICES ASSUME NEW e \in Entities, transactions[e].src = "edit",
                        Echoed(changeLog, transactions[e].at, e, Checkpoint)
                 PROVE  Echoed(changeLog', transactions[e].at, e, Checkpoint)
    BY <1>4 DEF DataInv, EditStaysCovered, Echoed
  <2>2. QED
    BY <1>1, <2>1, EchoStays
<1>10. QED
  BY <1>3, <1>5, <1>6, <1>7, <1>8, <1>9 DEF DataInv

\* Whatever happens to the log, all its changes stay recorded ones.
LEMMA AppendIds ==
    ASSUME TypeOK, IdInv, NEW new \in Entry, new.change < nextId,
           changeLog' = Append(changeLog, new)
    PROVE  \A i \in 1..Len(changeLog)' : changeLog'[i].change < nextId
<1>1. /\ Len(changeLog) \in Nat /\ Len(changeLog)' = Len(changeLog) + 1
      /\ changeLog'[Len(changeLog) + 1] = new
      /\ \A i \in 1..Len(changeLog) : changeLog'[i] = changeLog[i]
  BY AppendGrows DEF TypeOK, ServerType
<1>2. QED
  BY <1>1 DEF IdInv

LEMMA CommitIds ==
    ASSUME TypeOK, IdInv, NEW k, Commit(k)
    PROVE  \A i \in 1..Len(changeLog)' : changeLog'[i].change < nextId
<1>1. LogGrows /\ Len(changeLog)' = Len(changeLog)
  BY CommitGrows DEF TypeOK, ServerType
<1>2. QED
  BY <1>1 DEF LogGrows, IdInv

\* The first change of an ordered request comes after all the older ones.
LEMMA FirstIsNext ==
    ASSUME NEW S \in SUBSET Change, Ordered(S), NEW x \in S, IsFirst(x, S),
           NEW n \in 1..(x.id - 1)
    PROVE  Logged(changeLog, n)
<1>1. x.id \in Nat /\ \A z \in S : z.id \in Nat
  BY DEF Change
<1>2. ~ \E z \in S : z.id = n
  BY <1>1 DEF IsFirst
<1>3. QED
  BY <1>2 DEF Ordered

\* An old entry stays behind the changes older than its own.
LEMMA EntryStays ==
    ASSUME TypeOK, TypeOK', EntriesInOrder, LogGrows, NEW j \in 1..Len(changeLog),
           NEW n \in 1..(changeLog'[j].change - 1)
    PROVE  \E i \in Seen(changeLog') : i < j /\ changeLog'[i].change = n
<1>1. n \in 1..(changeLog[j].change - 1)
  BY DEF LogGrows
<1>2. PICK i \in Seen(changeLog) : i < j /\ changeLog[i].change = n
  BY <1>1 DEF EntriesInOrder
<1>3. i \in Seen(changeLog') /\ changeLog'[i].change = n
  BY <1>2, SeenStays DEF TypeOK, ServerType
<1>4. QED
  BY <1>2, <1>3

\* Appending the next change keeps the entries in order.
LEMMA AppendOrder ==
    ASSUME TypeOK, TypeOK', EntriesInOrder, NEW new \in Entry,
           changeLog' = Append(changeLog, new),
           \A n \in 1..(new.change - 1) : Logged(changeLog, n)
    PROVE  EntriesInOrder'
<1>1. /\ LogGrows /\ Len(changeLog) \in Nat /\ Len(changeLog)' = Len(changeLog) + 1
      /\ changeLog'[Len(changeLog) + 1] = new
  BY AppendGrows DEF TypeOK, ServerType
<1>2. SUFFICES ASSUME NEW j \in 1..Len(changeLog)', NEW n \in 1..(changeLog'[j].change - 1)
               PROVE  \E i \in Seen(changeLog') : i < j /\ changeLog'[i].change = n
  BY DEF EntriesInOrder
<1>3. CASE j \in 1..Len(changeLog)
  BY <1>1, <1>3, EntryStays
<1>4. CASE j = Len(changeLog) + 1
  <2>1. PICK i \in Seen(changeLog) : changeLog[i].change = n
    BY <1>1, <1>4 DEF Logged
  <2>2. i \in Seen(changeLog') /\ changeLog'[i].change = n
    BY <1>1, <2>1, SeenStays DEF TypeOK, ServerType
  <2>3. i < j
    BY <1>1, <1>4, <2>1 DEF Seen
  <2>4. QED
    BY <2>2, <2>3
<1>5. j \in 1..Len(changeLog) \/ j = Len(changeLog) + 1
  <2>1. j \in 1..(Len(changeLog) + 1)
    BY <1>1
  <2>2. QED
    BY <1>1, <2>1
<1>6. QED
  BY <1>3, <1>4, <1>5

\* So does making one readable.
LEMMA CommitOrder ==
    ASSUME TypeOK, TypeOK', EntriesInOrder, NEW k, Commit(k)
    PROVE  EntriesInOrder'
<1>1. LogGrows /\ Len(changeLog)' = Len(changeLog)
  BY CommitGrows DEF TypeOK, ServerType
<1>2. QED
  BY <1>1, EntryStays DEF EntriesInOrder

\* A request stays in order when its first change can be read.
LEMMA RestIsOrdered ==
    ASSUME TypeOK, TypeOK', LogGrows, NEW S, Ordered(S), NEW x \in S,
           Logged(changeLog', x.id)
    PROVE  Ordered(S \ {x})'
<1>1. Ordered(S)'
  BY OrderedStays DEF TypeOK, ServerType
<1>2. QED
  BY <1>1 DEF Ordered

\* What an abandoned request inserts stays under way.
LEMMA UnderwayStays ==
    ASSUME TypeOK, TypeOK', LogGrows, NEW s, Underway(s)
    PROVE  Underway(s)'
<1>1. Len(changeLog) \in Nat /\ Len(changeLog)' \in Nat
  BY DEF TypeOK, ServerType
<1>2. QED
  BY <1>1 DEF Underway, LogGrows

\* An appended entry can be read if it is seen at once.
LEMMA AppendLogged ==
    ASSUME changeLog \in Seq(Entry), NEW new \in Entry, new.seen = "atOnce",
           changeLog' = Append(changeLog, new)
    PROVE  Logged(changeLog', new.change)
<1>1. /\ Len(changeLog) \in Nat /\ Len(changeLog)' = Len(changeLog) + 1
      /\ changeLog'[Len(changeLog) + 1] = new
  BY AppendGrows
<1>2. Len(changeLog) + 1 \in Seen(changeLog')
  BY <1>1 DEF Seen
<1>3. QED
  BY <1>1, <1>2 DEF Logged

\* The server takes the next change of a request.
LEMMA ServerApplyInv ==
    ASSUME TypeOK, TypeOK', Inv, NEW c \in Calls, ServerApply(c)
    PROVE  Inv'
<1>1. PICK x \in call[c].todo : /\ IsFirst(x, call[c].todo)
                                /\ AppendEntry(x.entity, x.id, x.action, "atOnce")
                                /\ Become(c, [call[c] EXCEPT !.todo = @ \ {x}])
  BY DEF ServerApply
<1>2. x \in Change /\ x.id < nextId /\ x \in call[c].batch
  BY TodoIsQueued DEF Inv, CallInv, BatchInv
<1>3. PICK new \in Entry : /\ new.change = x.id /\ new.entity = x.entity
                           /\ new.seen = "atOnce" /\ changeLog' = Append(changeLog, new)
  BY <1>1, <1>2, AppendedEntry DEF Change
<1> DEFINE state == [call[c] EXCEPT !.todo = @ \ {x}]
<1>4. /\ call[c] \in CallState /\ Running(c) /\ call[c].pc = "rpc" /\ Sent(c)
      /\ call[c].todo \in SUBSET Change
  BY DEF TypeOK, CallType, CallState, ServerApply, Running, Sent
<1>5. state \in CallState
  BY <1>4 DEF CallState
<1>6. call'[c] = state
  BY <1>1 DEF Become, TypeOK, CallType
<1>7. /\ state.pc = "rpc" /\ state.meta = call[c].meta
      /\ state.batch = call[c].batch /\ state.todo = call[c].todo \ {x}
  BY <1>4 DEF CallState
<1> HIDE DEF state
<1>8. /\ transactions' = transactions /\ pendingChanges' = pendingChanges
      /\ nextId' = nextId /\ syncMeta' = syncMeta /\ strays' = strays
      /\ isSyncing' = isSyncing
  BY DEF ServerApply, disk
<1>9. /\ LogGrows /\ Len(changeLog) \in Nat /\ Len(changeLog)' = Len(changeLog) + 1
      /\ changeLog'[Len(changeLog) + 1] = new
      /\ changeLog \in Seq(Entry) /\ changeLog' \in Seq(Entry)
  BY <1>3, AppendGrows DEF TypeOK, ServerType
<1>10. DataInv'
  <2>1. \A s \in strays' : \A y \in s.todo : y.id < nextId
    BY <1>8 DEF Inv, DataInv, IdInv
  <2>2. \A i \in 1..Len(changeLog)' : changeLog'[i].change < nextId
    BY <1>2, <1>3, AppendIds DEF Inv, DataInv
  <2>3. QED
    BY <1>8, <1>9, <2>1, <2>2, LogData DEF Inv
<1>11. CallInv(c)'
  <2>1. From(c)' = From(c) /\ From(c) \in Nat /\ From(c) <= Len(changeLog)
    BY <1>4, <1>6, <1>7, FromIsCheckpoint DEF From
  <2>2. BatchInv(c)'
    <3>1. SUFFICES ASSUME NEW y \in call[c].batch \ (call[c].todo \ {x})
                   PROVE  Echoed(changeLog', y.id, y.entity, From(c))
      BY <1>4, <1>6, <1>7, <1>8, <2>1 DEF Inv, CallInv, BatchInv, Sent
    <3>2. CASE y = x
      <4>1. Len(changeLog) + 1 \in 1..Len(changeLog)' /\ From(c) < Len(changeLog) + 1
        BY <1>9, <2>1
      <4>2. QED
        BY <1>3, <1>9, <3>2, <4>1 DEF Echoed
    <3>3. CASE y # x
      <4>1. Echoed(changeLog, y.id, y.entity, From(c))
        BY <1>4, <3>3 DEF Inv, CallInv, BatchInv
      <4>2. QED
        BY <1>9, <4>1, EchoStays
    <3>4. QED
      BY <3>2, <3>3
  <2>3. MetaInv(c)' /\ ReplyInv(c)'
    BY <1>4, <1>6, <1>7, <1>8 DEF Inv, CallInv, MetaInv, ReplyInv, Answered
  <2>4. QED
    BY <2>2, <2>3 DEF CallInv
<1>12. isSyncing' = TRUE
  BY <1>4, <1>8 DEF Inv, SingleFlight, TypeOK, FlagType
<1>13. call'[c] = state /\ SingleFlight' /\ \A d \in Calls : CallInv(d)'
  BY <1>1, <1>4, <1>5, <1>11, <1>12, OneAtATime DEF state
<1>14. OrderInv'
  <2>1. EntriesInOrder'
    <3>1. \A n \in 1..(new.change - 1) : Logged(changeLog, n)
      BY <1>1, <1>3, <1>4, FirstIsNext DEF Inv, OrderInv
    <3>2. QED
      BY <1>3, <3>1, AppendOrder DEF Inv, OrderInv
  <2>2. ASSUME NEW d \in Calls PROVE Ordered(call[d].todo)'
    <3>1. CASE d = c
      <4>1. PICK S : S = call[c].todo
        OBVIOUS
      <4>2. Logged(changeLog', x.id)
        BY <1>3, <1>9, AppendLogged
      <4>3. Ordered(S \ {x})'
        BY <1>9, <4>1, <4>2, RestIsOrdered DEF Inv, OrderInv
      <4>4. call'[c].todo = S \ {x}
        BY <1>6, <1>7, <4>1
      <4>5. QED
        BY <3>1, <4>3, <4>4
    <3>2. CASE d # c
      <4>1. PICK S : S = call[d].todo
        OBVIOUS
      <4>2. Ordered(S)'
        BY <1>9, <4>1, OrderedStays DEF Inv, OrderInv
      <4>3. call'[d].todo = S
        BY <1>1, <3>2, <4>1 DEF Become, TypeOK, CallType
      <4>4. QED
        BY <4>2, <4>3
    <3>3. QED
      BY <3>1, <3>2
  <2>3. ASSUME NEW s \in strays PROVE Ordered(s.todo)' /\ Underway(s)'
    <3>1. PICK S : S = s.todo
      OBVIOUS
    <3>2. Ordered(S)'
      BY <1>9, <3>1, OrderedStays DEF Inv, OrderInv
    <3>3. QED
      BY <1>9, <3>1, <3>2, UnderwayStays DEF Inv, OrderInv
  <2>4. QED
    BY <1>8, <2>1, <2>2, <2>3 DEF OrderInv
<1>15. QED
  BY <1>10, <1>13, <1>14 DEF Inv

\* The log grows on behalf of others.
LEMMA OthersInv ==
    ASSUME TypeOK, TypeOK', Inv, LogGrows, EntriesInOrder',
           \A i \in 1..Len(changeLog)' : changeLog'[i].change < nextId,
           \A s \in strays' \ strays : /\ \A x \in s.todo : x.id < nextId
                                       /\ Ordered(s.todo)' /\ Underway(s)',
           UNCHANGED <<engine, disk>>
    PROVE  Inv'
<1>1. /\ transactions' = transactions /\ pendingChanges' = pendingChanges
      /\ nextId' = nextId /\ syncMeta' = syncMeta
      /\ call' = call /\ isSyncing' = isSyncing
      /\ changeLog \in Seq(Entry) /\ changeLog' \in Seq(Entry)
  BY DEF disk, engine, sync, TypeOK, ServerType
<1>2. DataInv' /\ \A i \in 1..Len(changeLog) : Shown(i) => Shown(i)'
  <2>1. \A s \in strays' : \A x \in s.todo : x.id < nextId
    BY DEF Inv, DataInv, IdInv
  <2>2. QED
    BY <1>1, <2>1, LogData DEF Inv
<1>3. \A c \in Calls : CallInv(c)'
  BY <1>1, <1>2, CallStays DEF Inv
<1>4. SingleFlight'
  BY <1>1 DEF Inv, SingleFlight, Running
<1>5. OrderInv'
  <2>1. ASSUME NEW d \in Calls PROVE Ordered(call[d].todo)'
    <3>1. PICK S : S = call[d].todo
      OBVIOUS
    <3>2. Ordered(S)'
      BY <1>1, <3>1, OrderedStays DEF Inv, OrderInv
    <3>3. QED
      BY <1>1, <3>1, <3>2
  <2>2. ASSUME NEW s \in strays' PROVE Ordered(s.todo)' /\ Underway(s)'
    <3>1. CASE s \in strays
      <4>1. PICK S : S = s.todo
        OBVIOUS
      <4>2. Ordered(S)'
        BY <1>1, <3>1, <4>1, OrderedStays DEF Inv, OrderInv
      <4>3. QED
        BY <3>1, <4>1, <4>2, UnderwayStays DEF Inv, OrderInv
    <3>2. CASE s \notin strays
      BY <2>2, <3>2
    <3>3. QED
      BY <3>1, <3>2
  <2>3. QED
    BY <2>1, <2>2 DEF OrderInv
<1>6. QED
  BY <1>2, <1>3, <1>4, <1>5 DEF Inv

\* An abandoned request takes an id for its next change, and has yet to insert it.
LEMMA StrayBegins ==
    ASSUME TypeOK, TypeOK', Inv, UNCHANGED <<engine, disk>>,
           NEW s \in strays, NEW x \in s.todo, IsFirst(x, s.todo),
           AppendEntry(x.entity, x.id, x.action, "inserting"),
           strays' = (strays \ {s}) \cup {[s EXCEPT !.at = Len(changeLog) + 1]}
    PROVE  Inv'
<1>1. PICK S : S = s.todo
  OBVIOUS
<1>2. S \in SUBSET Change /\ x \in Change /\ x.id < nextId /\ s \in Stray
  BY <1>1 DEF TypeOK, ServerType, Stray, Inv, DataInv, IdInv
<1>3. PICK new \in Entry : new.change = x.id /\ changeLog' = Append(changeLog, new)
  BY <1>2, AppendedEntry DEF Change
<1>4. /\ LogGrows /\ Len(changeLog) \in Nat /\ Len(changeLog)' = Len(changeLog) + 1
      /\ changeLog'[Len(changeLog) + 1] = new
      /\ changeLog \in Seq(Entry) /\ changeLog' \in Seq(Entry)
  BY <1>3, AppendGrows DEF TypeOK, ServerType
<1>5. EntriesInOrder'
  <2>1. \A n \in 1..(new.change - 1) : Logged(changeLog, n)
    BY <1>1, <1>2, <1>3, FirstIsNext DEF Inv, OrderInv
  <2>2. QED
    BY <1>3, <2>1, AppendOrder DEF Inv, OrderInv
<1>6. \A i \in 1..Len(changeLog)' : changeLog'[i].change < nextId
  BY <1>2, <1>3, AppendIds DEF Inv, DataInv
<1>7. PICK r : r = [s EXCEPT !.at = Len(changeLog) + 1]
  OBVIOUS
<1>8. r.todo = S /\ r.at = Len(changeLog) + 1
  BY <1>1, <1>2, <1>7 DEF Stray
<1>9. \A y \in r.todo : y.id < nextId
  BY <1>1, <1>8 DEF Inv, DataInv, IdInv
<1>10. Ordered(r.todo)'
  <2>1. Ordered(S)'
    BY <1>1, <1>4, OrderedStays DEF Inv, OrderInv
  <2>2. QED
    BY <1>8, <2>1
<1>11. Underway(r)'
  <2>1. ASSUME NEW y \in S, IsFirst(y, S) PROVE y.id = x.id
    BY <1>1, <1>2, <2>1 DEF IsFirst, Change
  <2>2. r.at \in 1..Len(changeLog)' /\ changeLog'[r.at].change = x.id
    BY <1>3, <1>4, <1>8
  <2>3. QED
    BY <1>8, <2>1, <2>2 DEF Underway
<1>12. strays' \ strays \subseteq {r}
  BY <1>7
<1>13. QED
  BY <1>4, <1>5, <1>6, <1>9, <1>10, <1>11, <1>12, OthersInv

\* It has inserted its next change, at once or after that.
LEMMA StrayInserts ==
    ASSUME TypeOK, TypeOK', Inv, UNCHANGED <<engine, disk>>,
           NEW s \in strays, NEW x \in s.todo, IsFirst(x, s.todo),
           \/ AppendEntry(x.entity, x.id, x.action, "atOnce")
           \/ s.at # 0 /\ Commit(s.at),
           strays' = (strays \ {s})
                     \cup ({[todo |-> s.todo \ {x}, at |-> 0]} \ {[todo |-> {}, at |-> 0]})
    PROVE  Inv'
<1>1. PICK S : S = s.todo
  OBVIOUS
<1>2. S \in SUBSET Change /\ x \in Change /\ x.id < nextId
  BY <1>1 DEF TypeOK, ServerType, Stray, Inv, DataInv, IdInv
<1>3. /\ LogGrows /\ EntriesInOrder' /\ Logged(changeLog', x.id)
      /\ \A i \in 1..Len(changeLog)' : changeLog'[i].change < nextId
  <2>1. CASE AppendEntry(x.entity, x.id, x.action, "atOnce")
    <3>1. PICK new \in Entry : /\ new.change = x.id /\ new.seen = "atOnce"
                               /\ changeLog' = Append(changeLog, new)
      BY <1>2, <2>1, AppendedEntry DEF Change
    <3>2. \A n \in 1..(new.change - 1) : Logged(changeLog, n)
      BY <1>1, <1>2, <3>1, FirstIsNext DEF Inv, OrderInv
    <3>3. EntriesInOrder'
      BY <3>1, <3>2, AppendOrder DEF Inv, OrderInv
    <3>4. \A i \in 1..Len(changeLog)' : changeLog'[i].change < nextId
      BY <1>2, <3>1, AppendIds DEF Inv, DataInv
    <3>5. LogGrows /\ Logged(changeLog', x.id)
      BY <3>1, AppendGrows, AppendLogged DEF TypeOK, ServerType
    <3>6. QED
      BY <3>3, <3>4, <3>5
  <2>2. CASE s.at # 0 /\ Commit(s.at)
    <3>1. s.at \in 1..Len(changeLog) /\ changeLog[s.at].change = x.id
      BY <2>2 DEF Inv, OrderInv, Underway
    <3>2. LogGrows /\ s.at \in Seen(changeLog')
      BY <2>2, CommitGrows DEF TypeOK, ServerType
    <3>3. Logged(changeLog', x.id)
      BY <3>1, <3>2 DEF LogGrows, Logged
    <3>4. EntriesInOrder'
      BY <2>2, CommitOrder DEF Inv, OrderInv
    <3>5. \A i \in 1..Len(changeLog)' : changeLog'[i].change < nextId
      BY <2>2, CommitIds DEF Inv, DataInv
    <3>6. QED
      BY <3>2, <3>3, <3>4, <3>5
  <2>3. QED
    BY <2>1, <2>2
<1>4. PICK r : r = [todo |-> S \ {x}, at |-> 0]
  OBVIOUS
<1>5. r.todo = S \ {x} /\ r.at = 0
  BY <1>4
<1>6. \A y \in r.todo : y.id < nextId
  BY <1>1, <1>5 DEF Inv, DataInv, IdInv
<1>7. Ordered(r.todo)'
  <2>1. Ordered(S \ {x})'
    BY <1>1, <1>3, RestIsOrdered DEF Inv, OrderInv
  <2>2. QED
    BY <1>5, <2>1
<1>8. Underway(r)'
  BY <1>5 DEF Underway
<1>9. strays' \ strays \subseteq {r}
  BY <1>1, <1>4
<1>10. QED
  BY <1>3, <1>6, <1>7, <1>8, <1>9, OthersInv

\* An abandoned request still at work.
LEMMA StrayApplyInv ==
    ASSUME TypeOK, TypeOK', Inv, StrayApply
    PROVE  Inv'
<1>1. PICK s \in strays : \E x \in s.todo :
         /\ IsFirst(x, s.todo)
         /\ \/ /\ AppendEntry(x.entity, x.id, x.action, "inserting")
               /\ strays' = (strays \ {s}) \cup {[s EXCEPT !.at = Len(changeLog) + 1]}
            \/ /\ \/ AppendEntry(x.entity, x.id, x.action, "atOnce")
                  \/ s.at # 0 /\ Commit(s.at)
               /\ strays' = (strays \ {s})
                            \cup ({[todo |-> s.todo \ {x}, at |-> 0]} \ {[todo |-> {}, at |-> 0]})
  BY DEF StrayApply
<1>2. UNCHANGED <<engine, disk>>
  BY DEF StrayApply
<1>3. QED
  BY <1>1, <1>2, StrayBegins, StrayInserts

\* Another device's change.
LEMMA ForeignChangeInv ==
    ASSUME TypeOK, TypeOK', Inv, ForeignChange
    PROVE  Inv'
<1>1. UNCHANGED <<engine, disk>> /\ strays' = strays
  BY DEF ForeignChange
<1>2. ASSUME NEW e \in Entities, NEW a \in Actions, NEW seen \in {"atOnce", "inserting"},
             AppendEntry(e, 0, a, seen)
      PROVE  Inv'
  <2>1. PICK new \in Entry : new.change = 0 /\ changeLog' = Append(changeLog, new)
    BY <1>2, AppendedEntry
  <2>2. 0 < nextId
    BY DEF TypeOK, DiskType
  <2>3. \A i \in 1..Len(changeLog)' : changeLog'[i].change < nextId
    BY <2>1, <2>2, AppendIds DEF Inv, DataInv
  <2>4. \A n \in 1..(new.change - 1) : Logged(changeLog, n)
    BY <2>1
  <2>5. EntriesInOrder' /\ LogGrows
    BY <2>1, <2>4, AppendOrder, AppendGrows DEF Inv, OrderInv, TypeOK, ServerType
  <2>6. QED
    BY <1>1, <2>3, <2>5, OthersInv
<1>3. ASSUME NEW i, Commit(i) PROVE Inv'
  <2>1. EntriesInOrder' /\ LogGrows
    BY <1>3, CommitOrder, CommitGrows DEF Inv, OrderInv, TypeOK, ServerType
  <2>2. \A j \in 1..Len(changeLog)' : changeLog'[j].change < nextId
    BY <1>3, CommitIds DEF Inv, DataInv
  <2>3. QED
    BY <1>1, <2>1, <2>2, OthersInv
<1>4. QED
  BY <1>2, <1>3 DEF ForeignChange

-----------------------------------------------------------------------------
(* Edits, triggers, faults *)

\* Recording a change: it is new, and it is queued.
LEMMA RecordInv ==
    ASSUME TypeOK, DataInv, NEW e \in Entities, NEW a \in Actions, RecordChange(e, a),
           UNCHANGED <<changeLog, strays, syncMeta>>
    PROVE  /\ IdInv' /\ NoLostChange' /\ Checkpoint' <= Len(changeLog)'
           /\ pendingChanges \subseteq pendingChanges'
           /\ \E p \in pendingChanges' : p.id = nextId /\ p.entity = e
<1> DEFINE new == [id |-> nextId, entity |-> e, action |-> a]
<1>1. /\ nextId \in Nat \ {0} /\ nextId' = nextId + 1
      /\ pendingChanges' = pendingChanges \cup {new}
      /\ new.id = nextId /\ new.entity = e
  BY DEF TypeOK, DiskType, RecordChange
<1> HIDE DEF new
<1>2. \A p \in pendingChanges : p.id \in Nat /\ p.id < nextId
  BY DEF TypeOK, DiskType, Change, DataInv, IdInv
<1>3. \A i \in 1..Len(changeLog) : changeLog[i].change \in Nat /\ changeLog[i].change < nextId
  <2>1. \A i \in 1..Len(changeLog) : changeLog[i] \in Entry
    BY DEF TypeOK, ServerType
  <2>2. QED
    BY <2>1 DEF Entry, DataInv, IdInv
<1>4. \A s \in strays : \A x \in s.todo : x.id \in Nat /\ x.id < nextId
  BY DEF TypeOK, ServerType, Stray, Change, DataInv, IdInv
<1>5. IdInv'
  <2>1. /\ \A p \in pendingChanges' : p.id < nextId'
        /\ \A i \in 1..Len(changeLog) : changeLog[i].change < nextId'
        /\ \A s \in strays : \A x \in s.todo : x.id < nextId'
    BY <1>1, <1>2, <1>3, <1>4
  <2>2. \A p, q \in pendingChanges' : p.id = q.id => p = q
    BY <1>1, <1>2 DEF DataInv, IdInv
  <2>3. QED
    BY <2>1, <2>2 DEF IdInv
<1>6. NoLostChange'
  <2>1. SUFFICES ASSUME NEW n \in 1..(nextId' - 1)
                 PROVE  \/ \E p \in pendingChanges' : p.id = n
                        \/ \E i \in Seen(changeLog) : changeLog[i].change = n
    BY DEF NoLostChange
  <2>2. n = nextId \/ n \in 1..(nextId - 1)
    BY <1>1
  <2>3. QED
    BY <1>1, <2>2 DEF DataInv, NoLostChange
<1>7. QED
  BY <1>1, <1>5, <1>6 DEF DataInv, Checkpoint

\* What an edit does to the rows: one shows the new edit, or something that was
\* never recorded, or nothing changes.
EditedRows(e) ==
    \/ transactions' = transactions
    \/ \E row \in {[src |-> "edit", at |-> nextId], [src |-> "unrecorded", at |-> 0]} :
           transactions' = [transactions EXCEPT ![e] = row]

\* No log entry is the edit being made, so what it shows goes on being shown.
LEMMA EditShown ==
    ASSUME TypeOK, Inv, NEW e \in Entities, EditedRows(e), changeLog' = changeLog
    PROVE  \A i \in 1..Len(changeLog) : /\ Reflected(i) => Reflected(i)'
                                        /\ Shown(i) => Shown(i)'
<1>1. CASE transactions' = transactions
  BY <1>1 DEF Shown, Reflected
<1>2. ASSUME NEW row \in {[src |-> "edit", at |-> nextId], [src |-> "unrecorded", at |-> 0]},
             transactions' = [transactions EXCEPT ![e] = row]
      PROVE  \A i \in 1..Len(changeLog) : /\ Reflected(i) => Reflected(i)'
                                          /\ Shown(i) => Shown(i)'
  <2>1. /\ transactions'[e] = row
        /\ \A f \in Entities \ {e} : transactions'[f] = transactions[f]
    BY <1>2 DEF TypeOK, DiskType
  <2>2. \A i \in 1..Len(changeLog) : changeLog[i].entity \in Entities /\ changeLog[i].change # nextId
    <3>1. \A i \in 1..Len(changeLog) : changeLog[i] \in Entry
      BY DEF TypeOK, ServerType
    <3>2. \A i \in 1..Len(changeLog) : changeLog[i].change \in Nat /\ changeLog[i].change < nextId
      BY <3>1 DEF Entry, Inv, DataInv, IdInv
    <3>3. nextId \in Nat
      BY DEF TypeOK, DiskType
    <3>4. \A i \in 1..Len(changeLog) : changeLog[i].change # nextId
      BY <3>2, <3>3
    <3>5. QED
      BY <3>1, <3>4 DEF Entry
  <2>3. row.src \in {"edit", "unrecorded"} /\ (row.src = "edit" => row.at = nextId)
    OBVIOUS
  <2>4. \A i \in 1..Len(changeLog) : Reflected(i) => Reflected(i)'
    BY <2>1, <2>2, <2>3 DEF Reflected
  <2>5. \A i \in 1..Len(changeLog) : row # [src |-> "edit", at |-> changeLog[i].change]
    <3>1. SUFFICES ASSUME NEW i \in 1..Len(changeLog),
                          row = [src |-> "edit", at |-> changeLog[i].change]
                   PROVE  FALSE
      OBVIOUS
    <3>2. row.src = "edit" /\ row.at = changeLog[i].change
      BY <3>1
    <3>3. QED
      BY <2>2, <2>3, <3>2
  <2>6. \A i \in 1..Len(changeLog) : Shown(i) => Shown(i)'
    BY <2>1, <2>2, <2>4, <2>5 DEF Shown
  <2>7. QED
    BY <2>4, <2>6
<1>3. QED
  BY <1>1, <1>2 DEF EditedRows

\* A local edit, whole or with one of its statements failing: the row shows
\* the new edit only if that was recorded.
LEMMA EditedInv ==
    ASSUME TypeOK, TypeOK', Inv, NEW e \in Entities, EditedRows(e),
           UNCHANGED <<changeLog, strays, syncMeta, call, isSyncing>>,
           IdInv', NoLostChange', pendingChanges \subseteq pendingChanges',
           transactions'[e] = [src |-> "edit", at |-> nextId] =>
               \E p \in pendingChanges' : p.id = nextId /\ p.entity = e
    PROVE  Inv'
<1>1. \A i \in 1..Len(changeLog) : /\ Reflected(i) => Reflected(i)'
                                   /\ Shown(i) => Shown(i)'
  BY EditShown
<1>2. LogGrows
  BY SameLogGrows DEF TypeOK, ServerType
<1>3. \A c \in Calls : CallInv(c)'
  BY <1>1, <1>2, CallStays DEF Inv
<1>4. SingleFlight'
  BY DEF Inv, SingleFlight, Running
<1>5. Checkpoint' = Checkpoint
  BY DEF Checkpoint
<1>6. CheckpointApplied'
  BY <1>1, <1>5 DEF Inv, DataInv, CheckpointApplied
<1>7. EditStaysCovered'
  <2>1. SUFFICES ASSUME NEW f \in Entities, transactions'[f].src = "edit"
                 PROVE  \/ \E p \in pendingChanges' :
                               p.id = transactions'[f].at /\ p.entity = f
                        \/ Echoed(changeLog, transactions'[f].at, f, Checkpoint)
    BY <1>5 DEF EditStaysCovered, Echoed
  <2>2. CASE transactions'[f] = transactions[f]
    BY <2>1, <2>2 DEF Inv, DataInv, EditStaysCovered, Echoed
  <2>3. CASE transactions'[f] # transactions[f]
    <3>1. f = e /\ transactions'[f] \in {[src |-> "edit", at |-> nextId],
                                         [src |-> "unrecorded", at |-> 0]}
      BY <2>3 DEF EditedRows, TypeOK, DiskType
    <3>2. transactions'[f] = [src |-> "edit", at |-> nextId]
      BY <2>1, <3>1
    <3>3. QED
      BY <3>1, <3>2
  <2>4. QED
    BY <2>2, <2>3
<1>8. DataInv'
  BY <1>5, <1>6, <1>7 DEF Inv, DataInv
<1>9. OrderInv'
  BY OrderStays DEF Inv, OrderInv
<1>10. QED
  BY <1>3, <1>4, <1>8, <1>9 DEF Inv

\* A local edit.
LEMMA EditInv ==
    ASSUME TypeOK, TypeOK', Inv, NEW e \in Entities, NEW a \in Actions,
           Edit(e, a) \/ EditFails(e, a)
    PROVE  Inv'
<1>1. UNCHANGED <<changeLog, strays, syncMeta, call, isSyncing>>
  BY DEF Edit, EditFails, server, sync
<1>2. CASE RecordChange(e, a) /\ EditedRows(e)
  <2>1. /\ IdInv' /\ NoLostChange' /\ pendingChanges \subseteq pendingChanges'
        /\ \E p \in pendingChanges' : p.id = nextId /\ p.entity = e
    BY <1>1, <1>2, RecordInv DEF Inv
  <2>2. QED
    BY <1>1, <1>2, <2>1, EditedInv
<1>3. CASE /\ transactions' = [transactions EXCEPT ![e] = [src |-> "unrecorded", at |-> 0]]
           /\ UNCHANGED <<pendingChanges, nextId>>
  <2>1. IdInv' /\ NoLostChange'
    BY <1>1, <1>3 DEF Inv, DataInv, IdInv, NoLostChange
  <2>2. transactions'[e] = [src |-> "unrecorded", at |-> 0]
    BY <1>3 DEF TypeOK, DiskType
  <2>3. transactions'[e] # [src |-> "edit", at |-> nextId]
    BY <2>2
  <2>4. EditedRows(e)
    BY <1>3 DEF EditedRows
  <2>5. QED
    BY <1>1, <1>3, <2>1, <2>3, <2>4, EditedInv
<1>4. QED
  BY <1>2, <1>3 DEF Edit, EditFails, EditedRows

\* A restart leaves no activation behind.
LEMMA RebootInv ==
    ASSUME Reboot
    PROVE  SingleFlight' /\ (\A c \in Calls : CallInv(c)') /\ \A c \in Calls : call'[c] = Idle
<1>1. \A c \in Calls : call'[c] = Idle
  BY DEF Reboot
<1>2. \A c \in Calls : CallInv(c)'
  BY <1>1 DEF CallInv, BatchInv, MetaInv, ReplyInv, Sent, Answered, Idle
<1>3. SingleFlight'
  BY <1>1 DEF SingleFlight, Running, Idle
<1>4. QED
  BY <1>1, <1>2, <1>3

\* A restart: the database stays as it is.
LEMMA RestartInv ==
    ASSUME TypeOK, Inv, Restart
    PROVE  Inv'
<1>1. SingleFlight' /\ (\A c \in Calls : CallInv(c)') /\ \A c \in Calls : call'[c] = Idle
  BY RebootInv DEF Restart
<1>2. \A s \in strays' : s \in strays \/ Abandoned(s)
  BY DEF Restart, Abandon, Abandoned
<1>3. DataInv'
  BY <1>2, StrayIds, DataStays DEF Inv, Restart, disk
<1>4. OrderInv'
  <2>1. \A d \in Calls : Ordered(call'[d].todo)
    BY <1>1 DEF Ordered, Idle
  <2>2. QED
    BY <1>2, <2>1, OrderStays DEF Inv, Restart
<1>5. QED
  BY <1>1, <1>3, <1>4 DEF Inv

\* A restart in the middle of an edit: the change is queued, the row is old.
LEMMA EditInterruptedInv ==
    ASSUME TypeOK, Inv, NEW e \in Entities, NEW a \in Actions, EditInterrupted(e, a)
    PROVE  Inv'
<1>1. SingleFlight' /\ (\A c \in Calls : CallInv(c)') /\ \A c \in Calls : call'[c] = Idle
  BY RebootInv DEF EditInterrupted
<1>2. /\ changeLog' = changeLog /\ strays' = strays /\ syncMeta' = syncMeta
      /\ transactions' = transactions
  BY DEF EditInterrupted, server
<1>3. /\ IdInv' /\ NoLostChange' /\ Checkpoint' <= Len(changeLog)'
      /\ pendingChanges \subseteq pendingChanges'
  BY <1>2, RecordInv DEF Inv, EditInterrupted
<1>4. DataInv'
  <2>1. Checkpoint' = Checkpoint
    BY <1>2 DEF Checkpoint
  <2>2. CheckpointApplied'
    BY <1>2, <2>1 DEF Inv, DataInv, CheckpointApplied, Reflected
  <2>3. EditStaysCovered'
    BY <1>2, <1>3, <2>1 DEF Inv, DataInv, EditStaysCovered
  <2>4. QED
    BY <1>3, <2>2, <2>3 DEF DataInv
<1>5. OrderInv'
  <2>1. \A d \in Calls : Ordered(call'[d].todo)
    BY <1>1 DEF Ordered, Idle
  <2>2. QED
    BY <1>2, <2>1, OrderStays DEF Inv
<1>6. QED
  BY <1>1, <1>4, <1>5 DEF Inv

\* When neither an activation nor the data moves, nor does its invariant.
LEMMA CallsRest ==
    ASSUME Inv, UNCHANGED <<isSyncing, call, transactions, pendingChanges, syncMeta, changeLog>>
    PROVE  SingleFlight' /\ \A c \in Calls : CallInv(c)'
<1>1. SingleFlight'
  BY DEF Inv, SingleFlight, Running
<1>2. SUFFICES ASSUME NEW c \in Calls PROVE CallInv(c)'
  BY <1>1
<1>3. BatchInv(c)' /\ MetaInv(c)'
  BY DEF Inv, CallInv, BatchInv, MetaInv, Sent, From
<1>4. \A i : Pulled(c, i) => Pulled(c, i)'
  BY DEF Pulled, Shown, Reflected
<1>5. ReplyInv(c)'
  BY <1>4 DEF Inv, CallInv, ReplyInv, Answered, From
<1>6. QED
  BY <1>3, <1>5 DEF CallInv

\* A trigger: syncNow starts an activation only when none is running.
LEMMA SyncNowInv ==
    ASSUME TypeOK, Inv, NEW online, SyncNow(online), UNCHANGED <<disk, server>>
    PROVE  Inv'
<1>1. CASE UNCHANGED sync
  <2>1. isSyncing' = isSyncing /\ call' = call
    BY <1>1 DEF sync
  <2>2. SingleFlight' /\ \A c \in Calls : CallInv(c)'
    BY <2>1, CallsRest DEF disk, server
  <2>3. DataInv'
    BY DataStays DEF Inv, DataInv, IdInv, disk, server
  <2>4. OrderInv'
    BY <2>1, OrderStays DEF Inv, OrderInv, server
  <2>5. QED
    BY <2>2, <2>3, <2>4 DEF Inv
<1>2. ASSUME ~isSyncing, isSyncing' = TRUE, NEW c \in Calls, call[c].pc = "idle",
             Become(c, [Idle EXCEPT !.pc = "getMeta"])
      PROVE  Inv'
  <2> DEFINE new == [Idle EXCEPT !.pc = "getMeta"]
  <2>1. /\ call'[c] = new
        /\ \A d \in Calls \ {c} : call'[d] = call[d] /\ call[d].pc = "idle"
    BY <1>2 DEF Become, TypeOK, CallType, Inv, SingleFlight, Running
  <2>2. new.pc = "getMeta" /\ new.batch = {} /\ new.todo = {}
    BY DEF Idle
  <2> HIDE DEF new
  <2>3. SingleFlight'
    BY <1>2, <2>1 DEF SingleFlight, Running
  <2>4. CallInv(c)'
    BY <2>1, <2>2 DEF CallInv, BatchInv, MetaInv, ReplyInv, Sent, Answered
  <2>5. \A d \in Calls : CallInv(d)'
    BY <2>1, <2>4, IdleStays DEF Inv
  <2>6. DataInv'
    BY DataStays DEF Inv, DataInv, IdInv, disk, server
  <2>7. OrderInv'
    <3>1. \A d \in Calls : Ordered(call'[d].todo)
      BY <2>1, <2>2 DEF Inv, OrderInv, Ordered
    <3>2. QED
      BY <3>1, OrderStays DEF Inv, server
  <2>8. QED
    BY <2>3, <2>5, <2>6, <2>7 DEF Inv
<1>3. QED
  BY <1>1, <1>2 DEF SyncNow

\* Switches and network changes that start nothing.
LEMMA QuietInv ==
    ASSUME TypeOK, Inv,
           UNCHANGED <<sync, transactions, pendingChanges, nextId, syncMeta, server>>
    PROVE  Inv'
<1>1. isSyncing' = isSyncing /\ call' = call
  BY DEF sync
<1>2. SingleFlight' /\ \A c \in Calls : CallInv(c)'
  BY <1>1, CallsRest DEF server
<1>3. DataInv'
  BY DataStays DEF Inv, DataInv, IdInv, server
<1>4. OrderInv'
  BY <1>1, OrderStays DEF Inv, OrderInv, server
<1>5. QED
  BY <1>2, <1>3, <1>4 DEF Inv

-----------------------------------------------------------------------------
(* The invariant *)

\* It holds in a fresh installation.
LEMMA InitInv == Init => IInv
<1> SUFFICES ASSUME Init PROVE Inv
  BY InitType DEF IInv
<1>1. /\ \A c \in Calls : call[c] = Idle
      /\ Len(changeLog) = 0 /\ pendingChanges = {} /\ strays = {} /\ nextId = 1
      /\ Checkpoint = 0
  BY DEF Init, Checkpoint, CheckpointOf
<1>2. \A c \in Calls : ~Running(c) /\ CallInv(c)
  <2>1. \A c \in Calls : ~Running(c)
    BY <1>1 DEF Running, Idle
  <2>2. \A c \in Calls : CallInv(c)
    BY <1>1, IdleInv
  <2>3. QED
    BY <2>1, <2>2
<1>3. DataInv
  BY <1>1 DEF Init, DataInv, IdInv, NoLostChange, CheckpointApplied, EditStaysCovered
<1>4. OrderInv
  BY <1>1 DEF OrderInv, Ordered, Idle, EntriesInOrder
<1>5. QED
  BY <1>2, <1>3, <1>4 DEF Inv, SingleFlight

\* Every step keeps it, and no step moves the checkpoint back.
LEMMA NextInv == IInv /\ [Next]_vars => IInv' /\ Checkpoint' >= Checkpoint
<1> SUFFICES ASSUME TypeOK, TypeOK', Inv, [Next]_vars
             PROVE  Inv' /\ Checkpoint' >= Checkpoint
  BY NextType DEF IInv
<1>1. Checkpoint \in Nat
  BY CheckpointType DEF Checkpoint, TypeOK, DiskType
<1>2. syncMeta' = syncMeta => Checkpoint' >= Checkpoint
  <2>1. syncMeta' = syncMeta => Checkpoint' = Checkpoint
    BY DEF Checkpoint
  <2>2. QED
    BY <1>1, <2>1
<1>3. ASSUME NEW c \in Calls, SyncStep(c) PROVE Inv' /\ Checkpoint' >= Checkpoint
  <2>1. CASE GetMeta(c)
    BY <1>2, <2>1, GetMetaInv DEF GetMeta, disk
  <2>2. CASE NothingToSend(c)
    <3>1. Running(c) /\ Become(c, Idle)
      BY <2>2 DEF NothingToSend, Succeed, Running
    <3>2. QED
      BY <1>2, <2>2, <3>1, CallEnds DEF NothingToSend, disk, server
  <2>3. CASE Send(c)
    BY <1>2, <2>3, SendInv DEF Send, disk
  <2>4. CASE ServerApply(c)
    BY <1>2, <2>4, ServerApplyInv DEF ServerApply, disk
  <2>5. CASE ServerReply(c)
    BY <1>2, <2>5, ServerReplyInv DEF ServerReply, disk
  <2>6. CASE ReceiveReply(c) \/ FinishApply(c)
    BY <1>2, <2>6, ReceiveReplyInv DEF ReceiveReply, FinishApply, disk
  <2>7. CASE ApplyEntry(c)
    BY <1>2, <2>7, ApplyEntryInv DEF ApplyEntry
  <2>8. CASE DecodeFails(c)
    <3>1. Running(c) /\ Become(c, Idle)
      BY <2>8 DEF DecodeFails, Fail, Running
    <3>2. QED
      BY <1>2, <2>8, <3>1, CallEnds DEF DecodeFails, disk, server
  <2>9. CASE ServerRefuses(c)
    <3>1. Running(c) /\ Become(c, Idle)
      BY <2>9 DEF ServerRefuses, Fail, Running
    <3>2. QED
      BY <1>2, <2>9, <3>1, CallEnds DEF ServerRefuses, disk, server
  <2>10. CASE RemovePending(c)
    BY <1>2, <2>10, RemovePendingInv DEF RemovePending
  <2>11. CASE SaveMeta(c)
    BY <2>11, SaveMetaInv
  <2>12. QED
    BY <1>3, <2>1, <2>2, <2>3, <2>4, <2>5, <2>6, <2>7, <2>8, <2>9, <2>10, <2>11 DEF SyncStep
<1>4. ASSUME NEW e \in Entities, NEW a \in Actions, Edit(e, a) \/ EditFails(e, a)
      PROVE  Inv' /\ Checkpoint' >= Checkpoint
  BY <1>2, <1>4, EditInv DEF Edit, EditFails
<1>5. CASE TimerFires \/ AppResumed \/ ManualSync
  BY <1>2, <1>5, SyncNowInv DEF TimerFires, AppResumed, ManualSync, disk
<1>6. CASE GoOnline
  <2>1. CASE SyncNow(TRUE)
    BY <1>2, <1>6, <2>1, SyncNowInv DEF GoOnline, disk
  <2>2. CASE UNCHANGED sync
    BY <1>2, <1>6, <2>2, QuietInv DEF GoOnline, disk
  <2>3. QED
    BY <1>6, <2>1, <2>2 DEF GoOnline
<1>7. CASE GoOffline \/ LoadSettings \/ \E value \in BOOLEAN : ToggleAutoSync(value)
  BY <1>2, <1>7, QuietInv DEF GoOffline, LoadSettings, ToggleAutoSync, disk
<1>8. CASE StrayApply
  BY <1>2, <1>8, StrayApplyInv DEF StrayApply, disk
<1>9. CASE ForeignChange
  BY <1>2, <1>9, ForeignChangeInv DEF ForeignChange, disk
<1>10. CASE Restart
  BY <1>2, <1>10, RestartInv DEF Restart, disk
<1>11. ASSUME NEW c \in Calls, SyncFails(c) PROVE Inv' /\ Checkpoint' >= Checkpoint
  <2>1. Running(c) /\ Become(c, Idle)
    BY <1>11 DEF SyncFails, Fail, Running
  <2>2. \A s \in strays' : s \in strays \/ Abandoned(s)
    BY <1>11 DEF SyncFails, Abandon, Abandoned
  <2>3. QED
    BY <1>2, <1>11, <2>1, <2>2, CallEnds DEF SyncFails, disk
<1>12. ASSUME NEW e \in Entities, NEW a \in Actions, EditInterrupted(e, a)
       PROVE  Inv' /\ Checkpoint' >= Checkpoint
  BY <1>2, <1>12, EditInterruptedInv DEF EditInterrupted
<1>13. ASSUME NEW c \in Calls, ServerReadBreaks(c) PROVE Inv' /\ Checkpoint' >= Checkpoint
  BY <1>2, <1>13, ServerReplyInv DEF ServerReadBreaks, disk
<1>14. CASE UNCHANGED vars
  BY <1>2, <1>14, QuietInv DEF vars, engine, disk
<1>15. QED
  BY <1>3, <1>4, <1>5, <1>6, <1>7, <1>8, <1>9, <1>10, <1>11, <1>12, <1>13, <1>14
     DEF Next, UserStep, Environment, Faults

\* Every reachable state satisfies the invariant.
THEOREM Invariance == Spec => []IInv
<1>1. Init => IInv
  BY InitInv
<1>2. IInv /\ [Next]_vars => IInv'
  BY NextInv
<1>3. QED
  BY <1>1, <1>2, PTL DEF Spec

-----------------------------------------------------------------------------
(* The safety properties *)

\* No recorded change is lost, whatever fails between reading the queue and
\* clearing it.
THEOREM NothingLost == Spec => []NoLostChange
<1>1. IInv => NoLostChange
  BY DEF IInv, Inv, DataInv
<1>2. QED
  BY <1>1, Invariance, PTL

\* The checkpoint covers no entry that was there at once and has not been applied,
\* whatever reads break off, decoding fails or restarts come between.
THEOREM CheckpointIsApplied == Spec => []CheckpointApplied
<1>1. IInv => CheckpointApplied
  BY DEF IInv, Inv, DataInv
<1>2. QED
  BY <1>1, Invariance, PTL

\* A recorded edit that its row shows is queued, or still has to be echoed to
\* this client.
THEOREM EditsStayCovered == Spec => []EditStaysCovered
<1>1. IInv => EditStaysCovered
  BY DEF IInv, Inv, DataInv
<1>2. QED
  BY <1>1, Invariance, PTL

\* Others first read the client's changes in the order they were made, also those
\* of requests that arrive late or get stuck half-way.
THEOREM DeliveredInOrder == Spec => []FirstDeliveryInOrder
<1>1. IInv => FirstDeliveryInOrder
  BY DEF IInv, Inv, OrderInv, EntriesInOrder, FirstDeliveryInOrder, Seen
<1>2. QED
  BY <1>1, Invariance, PTL

\* The checkpoint never moves backwards.
THEOREM CheckpointNeverBack == Spec => CheckpointMonotone
<1>1. IInv /\ [Next]_vars => [Checkpoint' >= Checkpoint]_vars
  BY NextInv
<1>2. QED
  BY <1>1, Invariance, PTL DEF Spec, CheckpointMonotone

=============================================================================
