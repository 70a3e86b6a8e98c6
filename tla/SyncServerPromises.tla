------------------------- MODULE SyncServerPromises -------------------------
(***************************************************************************)
(* What the design documents and tests say of Sync.  The first group holds *)
(* when requests are served one at a time and no device's clock is ahead;  *)
(* LogAgreesWithRows and NothingSkipped are broken by two requests at the  *)
(* same time.  ConflictsAnswered is broken by a single request.            *)
(***************************************************************************)
EXTENDS SyncServer

Quiet == \A r \in Requests : req[r].pc \notin Running

EntriesOf(e) == {x \in changeLog : changes[x.change].entity = e}

\* Whoever applies the whole log in id order ends with the server's rows: the
\* last entry of an entity is what its row was last written from, or a delete
\* of a row that is not live.
LogAgreesWithRows ==
    Quiet /\ faults = 0 =>
        \A x \in changeLog :
            LET change == changes[x.change] row == rows[change.entity] IN
            (\A y \in EntriesOf(change.entity) : y.id <= x.id) =>
                IF change.action = "delete" THEN row.state # "live"
                ELSE row.state = "live" /\ row.change = x.change

\* A reply leaves nothing behind its new checkpoint: every entry with an id
\* between the two checkpoints is in it, also when the rows broke off (ids
\* become visible in order and rows are read in that order).
NothingSkipped ==
    \A r \in Requests : req[r].pc = "answered" =>
        \A x \in changeLog :
            req[r].last < x.id /\ x.id <= req[r].hi => x.id \in req[r].reply

\* A live row is never overwritten by a change with an earlier client timestamp
\* than the one it shows.
LastWriterWins ==
    [][\A e \in Entities :
        rows[e].state = "live" /\ rows'[e].state = "live"
            /\ rows'[e].change # rows[e].change
        => rows'[e].sentAt >= rows[e].sentAt]_vars

\* The backend provides the feed that clients rely on: what a request brings
\* along is asked until it has read the log, and answered from then on.
AskOf(q)    == IF q.pc \in Running \ {"save"} THEN q.batch ELSE {}
AnswerOf(q) == IF q.pc \in {"save", "answered"}
               THEN {[after |-> q.last, ids |-> q.reply, upTo |-> q.hi]} ELSE {}
FeedAsks    == [r \in Requests |-> AskOf(req[r])]
FeedAnswers == [r \in Requests |-> AnswerOf(req[r])]

Feed == INSTANCE ChangeFeed WITH
    Readers <- Requests, feed <- changeLog, asks <- FeedAsks, answer <- FeedAnswers

\* One request at a time, with failures and crashes at any statement and rows
\* that break off, the service implements ChangeFeed.
FeedImplemented == Feed!Spec

-----------------------------------------------------------------------------
\* A change that loses against the server's row is answered as a conflict and
\* does not fail the request.
ConflictsAnswered ==
    faults = 0 => \A r \in Requests : req[r].lost => req[r].pc # "failed"
=============================================================================
