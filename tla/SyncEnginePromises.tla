------------------------- MODULE SyncEnginePromises -------------------------
(***************************************************************************)
(* Progress of the sync engine, with the fairness it rests on, and a       *)
(* promise of the design documents that its code does not keep.            *)
(***************************************************************************)
EXTENDS SyncEngine

-----------------------------------------------------------------------------
\* A running sync takes its next step (the event loop and the database
\* answer, the server replies or the call fails), an armed timer fires.
EngineFairness ==
    /\ \A c \in Calls : WF_vars(SyncStep(c))
    /\ WF_vars(TimerFires)

FairSpec == Spec /\ EngineFairness

Queued(n)  == \E p \in pendingChanges : p.id = n
Sending(n) == \E c \in Calls : call[c].pc = "rpc" /\ \E x \in call[c].batch : x.id = n

\* What the engine cannot bring about: auto-sync stays on, the network comes back
\* whenever it goes, and so does the user.
Favoured ==
    <>[]autoSyncEnabled /\ []<>isOnline /\ SF_vars(AppResumed)

\* From some moment on no request is refused and every reply decodes.
Accepted ==
    <>[][\A c \in Calls : ~ServerRefuses(c) /\ ~DecodeFails(c)]_vars

-----------------------------------------------------------------------------
\* An attempt that failed is followed by another one, however often the server
\* refuses and whatever it sends, without the user, as long as auto-sync is left
\* on: unless the app restarts, which forgets the timer.  A retry that comes due
\* without a network is made up for by the network coming back.
FailureRetried ==
    []autoSyncEnabled /\ []<>isOnline => (backoffDelay > 1 ~> isSyncing \/ backoffDelay = 1)

\* A queued change goes on being sent until it leaves the queue: neither a
\* failure, a refusal, an entry that does not decode, a restart nor a change of
\* network wedges the engine (the finally clause of syncNow always clears
\* _isSyncing).
KeepsSending ==
    Favoured => \A n \in 1..MaxEdits : Queued(n) ~> Sending(n) \/ ~Queued(n)

\* Once the server takes what it is sent and sends what decodes, the queue
\* drains, and by NoLostChange into the server's log.
QueueDrains ==
    Favoured /\ Accepted => \A n \in 1..MaxEdits : Queued(n) ~> ~Queued(n)

\* Then, too, a client with nothing to send obtains its first checkpoint
\* (syncNow contacts the server while the sync_meta row is missing).
FirstSyncHappens ==
    Favoured /\ Accepted => <>(syncMeta # NoMeta)

-----------------------------------------------------------------------------
(* A promise of the documents *)

\* "Receive remote changes, apply to local DB (LWW)": the echo of an older
\* edit of this client does not replace a row that shows a later edit.
LaterEditSurvives ==
    [][\A e \in Entities :
         transactions[e].src = "edit" /\ transactions'[e].src = "log" =>
             LET n == changeLog[transactions'[e].at].change IN
             n = 0 \/ n >= transactions[e].at]_vars
=============================================================================
