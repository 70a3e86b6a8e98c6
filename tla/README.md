# FinDiary: a TLA+ verification development

FinDiary is an offline-first finance diary: a Flutter client that works on a local
SQLite database (drift) and a Go server (connect, Postgres) that keeps the shared
copy. The two meet in one RPC, `Sync`. This directory holds TLA+ models of the code
under `src/`, configurations that check them with TLC, and theorems about them
checked by TLAPS.

## 1. Inventory

### Components, state, operations

| component | source | state it keeps | operations |
|---|---|---|---|
| Client sync engine | `frontend/lib/core/sync/` | `_isSyncing`, `_isApplyingRemote`, `_debounceTimer`, `_backoffDelay`, `autoSyncEnabled` | `start`, `dispose`, `syncNow`, `_onPendingChange`, `didChangeAppLifecycleState`, `_applyRemoteChanges`, `_scheduleRetry` |
| Client DAOs | `frontend/lib/core/database/` | tables `Transactions`, `PendingChanges`, `SyncMeta`, `Categories`, `Families`, `FamilyMembers`, `Invitations` | upserts, soft delete with the pending-change hook, queue read and clean-up, checkpoint upsert |
| Connectivity notifier | `frontend/lib/core/network/` | `_isOnline` | `initialize`, `_updateStatus` |
| Sync settings cubit | `frontend/lib/features/settings/bloc/` | the preference `auto_sync` | `load`, `toggleAutoSync`, `syncNow` |
| Backend sync service | `backend/internal/service/sync_service.go`, `repository/sync_repo.go`, `api/sync_handler.go` | `change_log` (BIGSERIAL ids), `sync_checkpoints` | `Sync`: scope check, checkpoint row, apply each change with last-writer-wins, append to the log, read the log above the client's checkpoint |
| Backend transactions | `service/transaction_service.go`, `repository/transaction_repo.go` | `transactions` (soft delete) | Create, Get, Update, Delete, List |
| Backend categories | `service/category_service.go`, `repository/category_repo.go` | `categories` (hard delete, referenced by transactions) | Create, Get, Update, Delete, List |
| Backend families | `service/family_service.go`, `repository/family_repo.go` | `families`, `family_members`, `invitations` | Create, Update, AddMember, RemoveMember, Invite, AcceptInvitation, RevokeInvitation, lists |
| Backend dashboard | `service/dashboard_service.go` | none | monthly totals, recent rows |
| Backend authentication | `service/auth_service.go`, `pkg/jwt`, `pkg/password`, `server/interceptor.go` | `users` | Register, Login, RefreshToken |
| Client authentication | `frontend/lib/core/auth/`, `core/client/`, `features/auth/bloc/` | stored tokens, session state | login, register, refresh, logout |
| Client blocs and pages | `frontend/lib/features/` | view state | request and emit |
| Backend wiring | `cmd/server/main.go`, `server/server.go`, `config/config.go` | the connection pool, the signing key | load, connect, route, serve, shut down |
| Client wiring | `main.dart`, `injection.dart` | none | start-up order |

### Interaction

* The DAO calls back into the engine (`onPendingChange`) on every local edit.
* The connectivity notifier, the app life cycle, the debounce and retry timers and
  the settings page all call `syncNow`, an `async` function: everything between two
  `await`s is atomic, everything across them interleaves with the user, the other
  triggers and the network.
* `syncNow` and the server share nothing but the request (checkpoint, queued
  changes) and the reply (log entries above the checkpoint, new checkpoint).
* Several server requests run concurrently; every repository call is a statement of
  its own, there is no transaction around them. Each statement borrows a connection
  from one pool.
* All services read `family_members` to decide who may do what; transactions refer
  to categories, and the sync service writes both tables.
* Every call passes the interceptors, which turn a token into the user id the
  handlers work with.

### What is hard

* *Interleaving across awaits*: edits while a sync runs, a second trigger while one
  runs, an edit while remote changes are applied.
* *Crashes*: between recording a change and writing its row, between applying a
  reply, clearing the queue and saving the checkpoint.
* *Delivery*: a lost reply of a request that was carried out, in part or in full; a
  request that arrives after the client gave up on it and sent the same changes, or
  newer ones, again.
* *Retries*: one timer field shared by the debounce and the retry, a doubled and
  clamped delay, retries that fire while offline, requests that are refused each time.
* *Results nobody looks at*: the insert into the queue is not awaited, and rows that
  break off while they are read pass for all there are.
* *Statement-level concurrency on the server*: read-compare-write without a
  transaction, log ids allocated before they become visible, mutations applied whose
  log entry then fails.

### What makes each component correct

* *Engine*: no recorded change is lost; the checkpoint covers only what was applied
  and never goes back; a row showing a recorded edit is queued or will be echoed; others
  read changes first in the order they were made; a failed attempt is followed by
  another; the queue drains when network and user come back and the server accepts.
* *Sync service*: every accepted change is logged; a reply skips no entry
  below its new checkpoint; last-writer-wins decides by timestamp; a deleted transaction
  stays deleted.
* *Families*: nobody enters a family unless somebody who has administered it vouched
  for it; its owner stays; an accepted invitation has admitted its addressee; a
  family that is listed can be opened.
* *Transactions and categories*: a transaction's category exists; who is answered to
  a request the services check was entitled to it while it ran; a deleted row stays
  as it is, and no row changes hands.
* *Lists and dashboard*: following the pages of a list shows it; totals add up.
* *Authentication and process*: one account per address and each answer says which;
  tokens name accounts; every call ends, and so does the process when it is told to.

The hazards, each at its line, are listed in `PROJECT.json` with the properties that
cover them.

## 2. Modules

| module | of | role |
|---|---|---|
| `SyncEngine`, `SyncEnginePromises` | client sync engine | component; fairness and progress, a promise of the documents |
| `SyncServer`, `SyncServerPromises` | sync service | component; what documents and tests say of it |
| `ChangeFeed` | | abstract: what a client may rely on in the log behind `Sync` |
| `Families`, `FamiliesServed` | family service | component; its view when requests do not overlap |
| `Membership`, `FamilyLedger` | | abstract: what holds under any overlap; what holds one request at a time |
| `Roles` | | abstract: families as the other services see them |
| `Books` | transaction, category, dashboard services; scope check of `Sync` and what it writes into their tables | component, composed with `Roles` |
| `Listing` | lists, pages, totals | algorithms and the client that walks the pages |
| `Sessions` | process, routes, pool, authentication | component |
| `SyncEngineProofs`, `SyncServerProofs`, `SyncServerSerial`, `FamiliesProofs`, `FamiliesServedProofs`, `BooksProofs`, `ListingProofs`, `SessionsProofs` | | theorems |
| `MC*` | | instances for TLC |

How they compose:

* `ChangeFeed` says what a client may rely on: new entries come above the old ones, a
  request's changes are in the log above its checkpoint before it is answered, and an
  answer skips nothing up to the checkpoint it hands back, though it may stop early.
  `SyncServer`, with requests served one at a time, implements it (`FeedImplemented`,
  run `server_serial`, theorem `ServesFeed`), failures and reads that break off
  included. When requests overlap it does not: `server_gap` shows where. So the
  server inside `SyncEngine` gives the engine less than `ChangeFeed` promises,
  entries that are readable late, and what holds of the engine is stated and proved
  against that.
* `Families` implements `Membership`, for any overlap of requests. `Books` runs in
  the environment `Roles` describes: between any two statements of a request,
  families are founded and users come and go. That `Families` implements `Roles` too
  is proved (`ImplementsRoles`), so what `Books` assumes of families is what
  `Families` provides.
* `Sessions` counts the statements of the other services' procedures; its
  interceptor is where the `user` of a request in `Families`, `Books` and
  `SyncServer` comes from.

Every property of a passing run is the subject of a theorem, for all values of the
constants (of those its run relates to, where the run is about requests served one
at a time), except the seven that say that something eventually happens
(`FailureRetried`, `KeepsSending`, `QueueDrains`, `FirstSyncHappens`, `WalkEnds`,
`RequestsEnd`, `ShutdownEnds`): liveness under
fairness is out of the prover's reach and stays with TLC. So are recursive operators:
where a definition recurs, it is a recursive function.

## 3. The sync engine

### `SyncEngine.tla`

| variable | code |
|---|---|
| `isSyncing`, `isApplyingRemote`, `debounceTimer`, `backoffDelay`, `autoSyncEnabled` | the fields of `SyncEngine`; the timer is `"off"`, armed by an edit (`"debounce"`) or by a failure (`"retry"`) |
| `isOnline` | `ConnectivityNotifier._isOnline` |
| `call[c]` | one activation of `syncNow`: where it stands (`pc`), the row of `SyncMeta` it read (`meta`), the queued changes it read and has not yet removed (`batch`), those the server has still to take (`todo`), `response.newCheckpoint` (`hi`), the entries of the reply still to apply (`reply`) |
| `transactions` | the local rows, by where their content comes from: a recorded local edit, one that was never recorded, or a log entry |
| `pendingChanges`, `nextId` | table `PendingChanges` with its autoincrement id |
| `syncMeta` | the row of `SyncMeta`, or `NoMeta` |
| `autoSyncPref` | the stored preference `auto_sync` |
| `changeLog` | `change_log` of the client's scope; positions stand for ids. `seen` says when others can read an entry: as soon as it has its id, not yet, or since some later moment |
| `strays` | requests their caller gave up on that may still arrive, each with the entry it is inserting (`at`) |
| `faults` | failures injected so far |

One action per stretch of code between two awaits: `GetMeta`, `NothingToSend` or
`Send`, `ReceiveReply`, `ApplyEntry` or `DecodeFails`, `FinishApply`,
`RemovePending`, `SaveMeta`; `Succeed` and `Fail` are the exits with the `finally`
clause. Triggers are `TimerFires`, `AppResumed`, `ManualSync`, `GoOnline`.
`SyncFails` lets any awaited call throw, `Restart` kills the process anywhere,
`Abandon` leaves an unfinished request travelling.

`Edit` is one action because the two statements are queued in the same turn of the
event loop and the database executes them back to back. The hook neither waits for
its insert nor looks at its outcome, so `EditFails` lets either of the two
statements fail alone: a row that was written but not recorded is `"unrecorded"`,
nothing will ever send it (section 9). `EditInterrupted` is the process that dies
between the two.

The server is modelled as far as a client can notice it, with everything
`SyncServer` finds it doing: `ServerApply` takes and logs one change,
`ServerRefuses` ends the request with an error at any point before it is answered,
also on every repetition (the second edit of one transaction, or a change sent
again, loses to the row it has itself written and its empty snapshot cannot be
logged); `ServerReply` returns what can be read above the client's checkpoint, which
may leave out an id that is handed out but not yet visible; `ServerReadBreaks`
returns a prefix of that as if it were all. `ForeignChange` and `StrayApply` add
entries that become readable at once or late.

`Calls` is larger than one so that single flight is something the guard achieves,
not something the model assumes.

Abstracted: time (an armed timer may fire at any moment), the content of rows and
snapshots (`ok` says whether a snapshot decodes), categories (same loop, no hook),
the deletion mark, the status stream, the list of conflicts (the code ignores it),
`retryCount` (never written).

`SnapshotOK` says whether the logged snapshot of an upsert can be decoded by this
client. What the service logs is the JSON of its own structs (`sync_service.go:219`,
`:232`: keys `ID`, `Amount`), which `sync_engine.dart:139-160` does not decode; what
the client's own tests put into a reply does. The safety run lets every entry be
either, the liveness run has upserts as the client's tests have them. A delete never
decodes: its payload is `{"id"}`.

### Bounds

`MaxEdits`, `MaxForeign`, `MaxLog`, `MaxStrays`, `MaxFaults` bound local edits,
other devices' entries, the log, late requests and injected failures; they are
guards of the environment's actions. Refusals and entries that do not decode are not
bounded. `MaxBackoff` is `_maxBackoff`; 2 is reached after one failure, so the clamp
is exercised. `engine_safety` has two activations, one transaction with two edits,
one foreign entry, a log of three, one late request and one failure: an edit during
the sync of another, two edits of one transaction in a batch, a retry interleaving
with the late first attempt, an entry readable late, a failure at every await.
`engine_live` has one activation (the second one could not start), one edit, an
update or a delete, and the same environment.

### Fairness and premises

`EngineFairness`: weak fairness of each activation's next step (the event loop, the
local database and the server answer, or the call fails) and of an armed timer.
Nothing is assumed of edits, settings, the network, refusals or faults. What the
engine cannot bring about itself is a premise, stated in the property:

* `Favoured`: auto-sync stays on from some moment on, the network comes back
  whenever it goes, and so does the user (strong fairness of `AppResumed`). The last
  is needed because triggers are dropped: section 9.
* `Accepted`: from some moment on no request is refused and every reply decodes. The
  code as it stands does not grant this to a client that has two edits of one
  transaction queued, or whose scope holds a delete (section 9): it repeats the same
  request for ever.

`FailureRetried` needs neither, only auto-sync and the network; `KeepsSending` needs
`Favoured` alone, so it says what is left under refusals and entries that do not
decode: the engine is never wedged, it goes on sending. `QueueDrains` and
`FirstSyncHappens` need both.

### Runs

| run | shows |
|---|---|
| `engine_safety` | types, `NoLostChange`, `CheckpointApplied`, `EditStaysCovered`, `FirstDeliveryInOrder`, `CheckpointMonotone`, against a server that refuses, breaks off, shows entries late and sends what does not decode |
| `engine_live` | `FailureRetried`, `KeepsSending`, `QueueDrains`, `FirstSyncHappens` |
| `engine_later_edit` | violated: the design says remote changes are applied with last-writer-wins, the code compares nothing, so the echo of an older edit replaces the row of a later one |

`NoLostChange` and `EditStaysCovered` are about recorded edits, `CheckpointApplied`
about entries that could be read as soon as they had their id: an edit that is not
recorded and an entry that becomes readable late are lost to the client by the code
(section 9, `server_gap`).

Each property of a passing run has a mutant, a plausible slip in the code defined
next to the original (`FailUnclamped`, `ClearPending`, ...), that breaks it.

### Proofs

`SyncEngineProofs` proves, for any constants satisfying `ConstantsAssumption`, the
safety properties of `engine_safety`: `TypeOK`, `NoLostChange`, `CheckpointApplied`,
`EditStaysCovered`, `FirstDeliveryInOrder` and `CheckpointMonotone`.

None but the first is inductive. The invariant `IInv` adds

* `SingleFlight`: at most one activation runs, and it holds `_isSyncing`; without it
  a second activation could change the queue and the checkpoint under the first;
* `CallInv`: what the running activation knows. `BatchInv`: what it has still to
  remove is queued, and what has left the request is in the log above its
  checkpoint. `MetaInv`: the checkpoint it read is the stored one. `ReplyInv`: up to
  the new checkpoint the reply has left out no entry that was readable at once; each
  still waits in it, or shows in its row, and then not as the edit it echoes;
* `IdInv`: change ids are unique and below the counter;
* `OrderInv`: a request holds, with each change, every older one that cannot be read
  yet, an abandoned request is inserting its own next change, and every entry,
  readable or not, comes after the changes older than its own.

Removing a queue row is safe because the change has been logged above the client's
checkpoint: either the reply held it, and the applied echo has replaced the row that
rested on it, or the reply ends before it and so does the new checkpoint. Saving the
checkpoint is safe because everything up to it is either below the old checkpoint or
was applied by this activation. A read that breaks off harms neither, because it
cuts the end of the reply off and the checkpoint with it. The lemmas are laid out as
frames (what survives when an activation or the data is left alone), the growth of
the log, the steps of an activation, and the remaining actions.

Only model-checked: the four liveness properties (fairness is out of the prover's
reach) and the refuted promise.

## 4. The sync service

### `SyncServer.tla`

| variable | code |
|---|---|
| `rows` | the rows of `transactions` and `categories` in the scope: absent, live or marked deleted; the change they were last written from; `updatedAt`, the column; `sentAt`, the client timestamp that change carried (history, for the properties) |
| `changeLog`, `lastId` | the visible entries of `change_log` and its sequence |
| `checkpoints` | `sync_checkpoints.last_checkpoint` of each user, or `NoRow` |
| `req[r]` | one activation of `Sync`: the request (`device`, `last`, `sentAt`, `batch`), the changes still to handle (`todo`), the timestamp taken for the write (`stamp`), whether the change lost (`lost`), the log id taken (`id`), the reply (`reply`, `hi`) |
| `now` | the server's clock |
| `changes` | the changes made so far, by number; a change's number stands for its content |
| `held`, `cleared` | the checkpoint a device has saved, the last change it has removed from its queue |

Every repository call commits on its own, so each is an action: `SelectCheckpoint`,
`InsertCheckpoint`, `Find` (with the comparison made in memory on what it returned),
`Update`, `Create`, `Delete`, `AppendBegin` and `AppendCommit`, `Read`,
`UpdateCheckpoint`. The append is two actions because the sequence hands out an id
before the row with it is visible. `AppendRefused` is the append of a lost change,
whose empty snapshot the JSONB column refuses; it ends the request with an error, as
do an update that finds no live row and an insert or delete that a constraint
refuses. `StatementFails` makes any statement fail, `Crash` ends every running
request; what earlier statements wrote stays. `ReadBreaksOff` is the exception to
failing: the loop of `GetChangesSince` ends without `rows.Err()`
(`sync_repo.go:112-125`), so when the connection goes while the log is read, the
rows before the break are answered, and the highest of them is the new checkpoint.
`Receive` is the arrival of a request together with `validateScope`, which only
reads; requests it refuses are left out.

A request carries what the client's code can send: its queue as it was at some
moment, so also a late or repeated one; the checkpoint it holds, or 0 after a
reinstallation; and one timestamp for all its changes, taken when the request is
built (`sync_engine.dart` stamps the changes in one pass). `Deliver` is what the
client does with a reply it receives.

Left out: scope ids and their decoding, the fields of an entity (one transaction
keeps its category), the list of conflicts. The check of the scope is in `Books`, and
so is the change that moves a transaction to another category.

### `SyncServerPromises.tla`

States what the documents and tests say of `Sync` and what concurrent requests, or
some of them even one request, break.

### Bounds

`MaxInFlight` requests run at once; `MaxSkew` is how far a device's clock may be
ahead; `MaxTime`, `MaxChanges`, `MaxLog`, `MaxFaults` bound the server's clock, the
changes made, the ids handed out (`InFlight` counts those still to be taken) and the
injected failures. `server_concurrent`: two requests of one device, two changes of
one transaction, a skew of one, a log of three, one fault. Two activations are
enough because no invariant relates more than two, two changes give both orders, and
three log entries hold both and one of them again. `server_serial`: one request at a
time, two devices, a transaction and its category, two clock values, two changes,
one fault: a stale request, a deleted category and a re-sent change all occur.

### Runs

| run | shows |
|---|---|
| `server_concurrent` | types and unique log ids, `AppliedIsLogged`, `OwnChangesEchoed`, `LoggedWasStored`, `DeletedUntouched` for two overlapping requests |
| `server_serial` | one request at a time: `LogAgreesWithRows`, `NothingSkipped`, `LastWriterWins`, and `FeedImplemented`: the service implements `ChangeFeed`, also when reads break off |
| `server_gap` | violated: a reply's new checkpoint covers an id that was handed out before but becomes visible after the read, and no later reply returns it |
| `server_conflict` | violated: a change that loses is answered as a conflict; the code fails the whole request |

The server has no liveness run: a request ends after a bounded number of statements,
and nothing waits for another request.

### Proofs

`SyncServerProofs` proves, for any constants satisfying `ConstantsAssumption`, the
properties of `server_concurrent`: `TypeOK`, `AppliedIsLogged`, `OwnChangesEchoed`,
`LoggedWasStored`, `DeletedUntouched`. The invariant `IInv` adds

* `CheckpointInv`, `HeldInv`: every checkpoint was read from the log or is 0, so it
  is not above the sequence;
* `CommitInv`, `DistinctIds`: an id being inserted is below the sequence's value,
  above the request's checkpoint and nobody else's, so ids in the log stay unique
  and the entry falls into the request's own reply;
* `LoggedInv`, `DoneInv`, `EchoInv`: what the loop has passed is logged above the
  request's checkpoint, the log is read when nothing is left, and each of the
  request's changes is in the reply or, if the read broke off, above the checkpoint
  handed back, where the client's next request finds it;
* `LostInv`, `StoredInv`: only a lost change reaches the append without having been
  written, and it goes no further; what is logged as an upsert has its row;
* `AppliedInv`: `AppliedIsLogged` with the witness made exact: the request that
  still has to log the change is handling that one and will not be refused.

`Grown` collects what no step takes back. `LocalFrame` says that a request which
does not move keeps its part of the invariant; `KeepInv`, `FailInv` and `RowInv`
cover a request that moves without writing, one that fails and one that writes a
row. Then one lemma per statement, per device step and per failure.

`SyncServerSerial` proves what holds only when requests are served one at a time.
Its theorems assume `OneAtATime` (`MaxInFlight = 1` and finitely many requests);
answers on their way to a client do not count as served, so any number of them may
be late. The rest stays arbitrary, failed statements and crashes included. Each
theorem rests on one more invariant:

* `SerialInv`: at most one request runs, and the id it is inserting is the
  sequence's last, so ids appear in order; `ServesFeed` (`FeedImplemented`) follows
  step by step;
* `CutsInv`: every checkpoint a request or a device holds is one the log has reached,
  and what a reply holds is all of the log between its two checkpoints, as entries
  come above those that were read. Hence `RepliesAreComplete` (`NothingSkipped`);
* `ClocksInv`: with `MaxSkew = 0` no client timestamp is later than the server's
  clock or than the `updated_at` of the row it was written to. Hence `LaterWriterWins`
  (`LastWriterWins`);
* `AgreeInv`: the newest log entry of an entity agrees with its row, unless the
  running request has written the row and has still to log it. Hence
  `LogReproducesRows` (`LogAgreesWithRows`).

Only model-checked: the refuted promises, each by a run of its own.

## 5. Families

### `Families.tla`

| variable | code |
|---|---|
| `families`, `members`, `invitations` | the tables of migration 2; a code stands for its invitation, a user also for its email address |
| `req[r]` | one handler activation: the function it runs (`op`), the repository call that comes next (`at`), its inputs, what `RevokeInvitation` has still to look through (`left`) |
| `trusted`, `joined` | history: who has ever been owner or administrator, and member, of what |

Repository calls are actions, because each is a statement that commits alone; what
the service computes between two of them belongs to the first. `Create` is two
inserts; `isAdminOrOwner` reads the owner and then the members; `AcceptInvitation`
reads the invitation, reads the user, inserts the member and marks the invitation;
`RevokeInvitation` walks the families of the user in whatever order the table
returns them. `InsertMember` and `InsertInvitation` end in an error where the
primary key and the unique code refuse the row. `SetStatus` overwrites whatever the
status has become. `Expire`, `StatementFails` and `Crash` may happen at any point.

Left out: names of persons, times other than expiry, requests refused on their input
alone, `ListInvitationsByEmail` (no caller).

### Abstract specifications

* `Membership` holds whatever overlaps and whatever fails: a family keeps its
  founder as owner, who enters was vouched for by somebody who has at some time been
  its owner or administrator, and the owner's row is never removed. It says "has
  been": a role is read before it is used, and an administrator who is removed in
  between still admits one more member.
* `FamilyLedger` is the service as its callers think of it, one atomic step per
  request. `FamiliesServed` shows that it is implemented when requests are served
  one at a time and no statement fails. The mapping hides a family until its owner
  is a member and shows an invitation as accepted from the insert of the member on.

### Runs

| run | shows |
|---|---|
| `families_concurrent` | two overlapping requests, three users, one fault: types, `ListedCanBeOpened`, `RefusedUnchanged`, `AcceptedJoined`, `MembershipKept` |
| `families_served` | one request at a time, two families: `LedgerImplemented` |

Bounds: `MaxInFlight`, `MaxAsked`, `MaxFaults`. Every property relates at most two
requests. Four requests found a family, invite or add a second user, and let two
more requests race (accept against accept, revoke, remove or add); the third user is
the one who is neither owner nor administrator. `families_served` needs six to
found, invite, accept, remove and accept again, and two families for the loop of
`RevokeInvitation`.

There is no liveness run for this service, nor for `Books`: a request is a bounded
sequence of statements, none of which waits for another request; that statements get
a connection and requests end is `RequestsEnd` of `Sessions`.

### Proofs

`FamiliesProofs` proves the five properties of `families_concurrent` for any
constants satisfying `ConstantsAssumption`. Its invariant `IInv` adds to the types
and to the properties themselves

* `DistinctFamilies`: running `Create`s insert different ids, none of which exists;
* `TrustInv`: what a request has found out. From the check of the role on its user
  is in `trusted`; from `ReadInvitation` on the creator of the invitation is, and
  its addressee is the user; whoever is owner or administrator, or created an
  invitation, is in `trusted`;
* `OwnerRow`: as long as no statement fails, the owner of a family has its row,
  except between the two inserts of its `Create`.

`StepInv` reduces a step to what it does to the tables and to its own request;
`QuietStep`, `RefuseStep` and `GotoStep` are the steps that write nothing. Then one
lemma per repository call and one per service function. `ImplementsMembership` and
`ImplementsRoles` are proved along the same induction: every step is a step or a
stutter of `Membership`, and of `Roles`. For the latter the refinement mapping reads
a user's role off `members`, and the owner of a family that has none is nobody.

`FamiliesServedProofs` proves the refinement of `FamilyLedger`, `LedgerImplemented`,
under the assumption `OneAtATime`: one request in flight, no failing statement,
finitely many activations. This is the condition of the run `families_served` and
the promise itself: with an overlap or a failure a request may take effect in part,
which `RefusedUnchanged` and `MembershipKept` delimit. The numbers of users,
families, invitations, names and requests served are arbitrary. The invariant
`SInv`, checked with TLC on the run's instance before it was proved, adds to `IInv`

* `Alone` and `StillTrue`: no other request runs, and what the one that does has read
  (that it inserted this family, that its user owns or administers it, that the
  invitation is pending) still holds at the statement that relies on it. This is what
  fails when requests overlap;
* `FoundedInv`: a family without an owner has no member, and the family of an
  invitation has an owner, so the rights the ledger asks for can be read off the rows.

`MoveStep` reduces a step to what it changes in the mapped state, `QuietMove`,
`ReadMove` and `GotoMove` are the statements that do not show; then come one lemma
per statement that does, one for expiry, which shows unless an accept has already
looked at the invitation, and the cases of `Next`.

## 6. Transactions and categories, and what `Sync` does to them

### `Roles.tla`, `Books.tla`

| variable | code |
|---|---|
| `owner`, `role` | families as `Roles` has them, changed by anybody at any time |
| `transactions` | state (absent, live, marked deleted), creator, family, category |
| `categories` | state (absent, live, removed), scope |
| `req[r]` | one activation: `op`, the repository call that comes next, its inputs |
| `entitled` | history: the guarded requests whose user was entitled to what they ask for at some moment since they came in |

As in `Families`, each repository call is an action. `canModify` reads membership,
owner and members by three of them. The foreign key is what `InsertTransaction`,
`UpdateTransaction` and `RemoveCategory` do: they refuse. Update and delete of a
category check only that it is not the system's.

`Sync` is here with the check of its scope and everything it writes into the two
tables: `Change` is the head of its loop, which takes the next change of the request
and finds the row (`applyTransactionUpsert`, `applyCategoryUpsert`, `applyDelete`);
then the same repository calls as above follow, one by one. None of them looks at
whose row it is, or at the system's categories, and a change may bring an id of its
own and any scope for a new category. Which of two timestamps is later, the log and
the checkpoints are `SyncServer`'s: here a change that finds its row may win or
lose.

`Guarded` names the requests the services check the user of: Get, Update and Delete
of a transaction, Create and List (and the dashboard) for a family, CreateFamily of
a category, `Sync` for a family. `AnsweredEntitled` is about these. For the others
there is no check it could be about (section 9): lists without a family, every
reading, editing and deletion of a category, and the rows that `Sync` writes.
Likewise `RowsKept` is about transactions only: `Sync` renames and deletes the
system's categories like any other.

Left out: amounts, names and dates, requests refused on their input alone, and the
CHECK of the type column (an ordinary failure of the statement).

### Run

`books_races`: two activations, two users, a family, a seeded and a new category, a
transaction; `MaxAsked` is four requests, each change of a `Sync` counting as one of
them: enough to create a category and a transaction, and to let a delete of the
category race an insert, an update or a delete of the transaction, by the API or by
`Sync`, while roles change between any two statements. `TypeOK`, `ReferencesKept`,
`AnsweredEntitled`, `DeletedOnce`, `RowsKept`. Ids are symmetric and no property
relates more than two activations. Deadlock is not checked because the run ends when
all requests have been served.

### Proofs

`BooksProofs` proves the five properties of `books_races` for any constants
satisfying the assumptions of `Books`: any number of activations, users, families
and rows. The invariant `IInv` adds to the properties themselves what an activation
knows of the tables, which others change under it:

* `Carries` and `RowInv`: the inputs an activation has at each of its statements,
  and that the row it has read is still there with the same family, as rows are
  marked and never removed. Of categories nothing is carried: one that was looked up
  may be gone again, which is why the foreign key and not the lookup keeps the
  references;
* `Noted`: a guarded request whose user is entitled now is in `entitled`, so a check
  that succeeds has only to be shown to hold when it is made;
* `EntitledInv`: past its check an activation is in `entitled`. Membership and owner
  are read by two statements, which add up because the owner of a family never
  changes: the user was both when the first one ran. A role read by the third shows
  membership and role at once;
* `Founded`: roles are held in families that exist.

`RowsStep` is what `RowsKept` says of one step. One lemma per repository call, used
by the services and by `Sync` alike, one per service function, two for `Sync` and its
`Change`, and one for a change of the families, which leaves the tables and keeps
`EntitledInv` because `entitled` only grows.

## 7. Lists, pages and totals

### `Listing.tla`

`Matches`, `Listed`, `Page` are the WHERE, ORDER BY and LIMIT/OFFSET of
`TransactionRepo.List`; `NextPageToken` is the handler's arithmetic;
`GetMonthlyTotals` and `GetDashboard` the aggregation. They are operators on the
table, a sequence in the order of `created_at` (taken to be distinct). Around them a
client walks the pages of a list, `CountRows` and `SelectRows` being the two
statements of each page, while `Insert`, `Update` and `SoftDelete` change the table
between any two of them.

The page token is a row number, so a walk through a changing list is not exact; the
properties say what is left: exact if the list stays as it is, though the table
changes (`QuietWalkExact`); nothing missing if it only grows, and never between the
two statements of a page (`GrowingMissesNothing`); nothing twice if it only shrinks
(`ShrinkingRepeatsNothing`); and it ends (`WalkEnds`). `grew`, `shrank` and `torn`
record which of these the walk has met. `TotalsAddUp` compares the dashboard's
totals with the rows of the window counted once each.

`TotalsAddUp` is checked for all tables of the run and for month counts 0 and 13
(replaced by 6), 1 and 2. Amounts are powers of two, so that a sum names its
summands. Three rows on two days with a page size of one and the default of two give
walks of up to three pages; four changes insert three rows and change one of them.
Months of two days let the window begin within a month.

Fairness: weak fairness of the two statements, that is, the client asks on while
there is a next page and is answered. `WalkEnds` also rests on `MaxChanges`: against
a table that grows for ever no walk need end.

### Proofs

`ListingProofs` proves the four invariants of `listing_pages` for tables of any
length, any filters, page sizes, amounts and number of changes.

A list is defined by ranks: a row is where it is because so many rows are ahead of
it. `SortedFacts` says what that gives for any finite set and total order: each
element once, each after those ahead of it. `SameSorted` says that the list is the
same when neither its rows nor their order have changed, which is what `Noticed`
watches. `WalkInv` adds, for a walk in progress,

* `CountInv`: the total it was told is the length of the list, unless the list has
  changed since;
* `QuietInv`: what it has got is the first list up to the offset;
* `GrowInv`: the rows of the first list are still in the list, and those behind the
  offset have been fetched. A list that grows pushes rows to later places, so none
  moves behind the offset unfetched;
* `ShrinkInv`: what has been fetched and is still listed is behind the offset. A list
  that shrinks moves rows to earlier places only.

`PagesAdvance` proves the step on which `WalkEnds` rests: a page that finds as many
rows as were counted ends the walk or brings the offset nearer to the total.

Sums are a recursive function on sets of rows. That it exists and is additive is
shown without induction theorems, by taking a smallest counterexample (`LeastNat`,
`MinimalSubset`). `GroupsAdd` then adds the groups one after the other, as
`GetDashboard` does: no row is in two groups, and each row is in the group of its
month.

Only model-checked: `WalkEnds`.

## 8. The server process and authentication

### `Sessions.tla`

| variable | code |
|---|---|
| `process`, `listening`, `starts` | where `main` stands, whether its goroutine serves HTTP, starts so far |
| `secret` | the key of the `jwt.Manager`, from the file or `JWT_SECRET` |
| `users` | rows of `users`; a password stands for its hash |
| `connections` | the activations that hold a connection of the pool |
| `req[r]` | one call: its procedure and inputs, where it stands, the statements it still has to send, its answer |
| `issued` | the tokens signed so far, each with account, key and expiry; `kind` is a history of which of the two it was, the claims do not say |

`Load`, `NewServer`, `Start`, `Signal` and `Shutdown` are `main`; `Die` is
`ListenAndServe` failing later than its start, or the process being killed; `Exit`
cuts every call off that has no answer yet. `mux` is what the generated handlers route,
`Entrance` and `AuthInterceptor` the interceptor; `Register`, `Login` and
`RefreshToken` the handlers up to their first statement, `Query` that statement,
`Sign` the two tokens. A statement may fail without effect, and an INSERT may be
committed and its acknowledgement lost (`CreateUnheard`): `broken` notes that a
statement of the call has failed. A call of any other service is a number of statements
(`OtherService`, `NextStatement`). A statement waits for a connection (`Acquire`)
and gives it back when it is done (`Release`); the pool is modelled from how the
repositories use it: every call of it is `Exec`, or `Query` and `QueryRow` read to
the end.

`Shutdown` closes the pool while HTTP goes on being served: calls that wait for a
connection, or come in later, fail; `Close` waits for those that hold one; then
`main` returns and the process is gone.

Left out: addresses, the DSN, logging, display names, input of `Register` that
bcrypt refuses (more than 72 bytes; the same answer as a short password).

### Run

`sessions`: two activations, one connection, one address, a valid and a short
password, two signing keys, two starts, three calls, one tick of the clock, at which
the first access token expires. Two activations make the pool contended; three calls
hold two racing registrations and a login, or a registration and two calls with its
tokens across a restart under the same or another key. `TypeOK`, `RegisterAnswered`,
`SessionAnswered`, `RequestsEnd`, `ShutdownEnds`. `SessionAnswered` demands that a
refresh token of the key is refreshed until it expires, and that only tokens of the
key are; of access tokens, which the code refreshes too (section 9), it demands
nothing. Deadlock is not checked because a
process that is not started again has stopped.

Fairness: `WF(Work(r))`: the Go scheduler runs every goroutine, the database answers
a statement, and a statement that waits gets a free connection; weak fairness is
enough because `MaxCalls` bounds how often a waiter is overtaken, and the real pool
(puddle) hands out connections in the order they were asked for. `WF(Shutdown)`:
`main` goes on. No call, signal or start is assumed.

### Proofs

`SessionsProofs` proves the three invariants of `sessions` for any number of
activations, accounts, passwords, keys, starts and calls, and any pool of at least
one connection. None is inductive; `IInv` adds

* `RegisterInv` and `DistinctNumbers`: a registration has a number of its own, and
  no account has that number until its own insert; so after AlreadyExists the
  account is another one's, and after a refusal there is none, unless its statement
  failed;
* `LoginInv`: a password known when the call came in stays known, because accounts
  are only ever added; hence a refusal means that a statement failed;
* `OthersInv`: who signs or has passed the interceptor acts for an account that
  exists, since a valid token was issued and every issued token names one;
* `Pool`: the connections lent out belong to activations that are querying, and are
  finite in number;
* `Silent` and `StageInv`: while the process does not listen nobody is served, so
  the key changes under no activation. This is where a restart under another key is
  harmless.

`Frame` says what survives the growth of the tables, `MoveStep` reduces a step of
one activation to that activation, `QuietStep` is the case that writes nothing.

Two theorems are the safety half of `RequestsEnd` and `ShutdownEnds`, for a pool of any
size: `PoolServesAll` says that the running statements are exactly the holders of the
connections (`Lent`) and that a call in service can make its next step, or waits while
some other one is running a statement and so about to give a connection back;
`CallsMove` says that every step that touches a call in service lowers `StepsLeft`, the
number of steps it has to go at most. `WorkNearer` shows both of each of its actions,
`OutsideFacts` says what the other actions may do to a call. What is missing to the
liveness properties is fairness alone, which is out of the prover's reach: they are
only model-checked.

## 9. Disagreements noted without a run

The code and its documents also differ here. Where a component is modelled the model
contains the behaviour; no run is spent on it.

Client:

* `sync_engine.dart:34`: after a restart auto-sync is on until the settings page is
  opened; `docs/specs/findiary-design.md:190` lets the user switch it off.
* `transaction_dao.dart:118`: the insert into the queue is neither awaited nor
  checked. If it fails the row is written all the same, and shows an edit that
  nothing will send; `docs/specs/2026-07-11-client-sync-engine.md:82` promises a sync
  after each mutation.
* The same line's promise: the trigger of an edit made while a reply is applied
  (`sync_engine.dart:75`), of a timer that fires during a sync (`:83`) or without a
  network (`:84`) is dropped and not re-armed, switching auto-sync on again starts
  nothing, and a restart forgets the retry that was due. Such a change waits for the
  next trigger.
* A request that is refused once may be refused for ever: the second of two queued
  edits of one transaction, and an edit whose first delivery was carried out but not
  answered, lose against the row they or their predecessor have written
  (`sync_service.go:199`), and an empty snapshot cannot be logged (`:206`, `:89`). The
  client repeats the same batch (`sync_engine.dart:120`);
  `docs/specs/findiary-design.md:198` has changes applied in order.
* `sync_service.go:219`, `:232`: the snapshots the service logs have the keys of its
  Go structs, `sync_engine.dart:143-160` reads others (`data['id']`). A reply with such
  an entry, or with a delete, fails to apply on every attempt.
* `sync_engine.dart:93`: with nothing queued and a checkpoint stored `syncNow`
  returns before it calls the server, so a client that edits nothing never pulls;
  `docs/specs/2026-07-11-client-sync-engine.md:49` and `:53` call it on every
  trigger.
* `sync_engine.dart:143`: the payload of a delete is `{"id"}`, which cannot be
  applied, so a client that meets one in its first sync never gets past it;
  `docs/specs/findiary-design.md:110` has deletes propagate.
* `grpc_client.dart:35`: the clients of the sync and dashboard services are made
  without the interceptor that adds the token, so the server answers their calls
  with Unauthenticated; `SyncEngine` takes the calls to be accepted.
* Nothing dispatches `AuthCheckRequested`, so a restarted app begins at the login
  page although it has tokens, and `refreshToken()` of the client has no caller.
* The scope id `"personal"` of the client does not parse as a UUID, and the two
  sides name the keys of a snapshot differently (`CategoryID`, `category_id`). In
  `SyncEngine` the first is a request that is refused, the second an entry that does
  not decode.

Sync service:

* `sync_service.go:88`: two overlapping requests write a row in one order and log it
  in the other, so whoever applies the log does not end with the server's rows;
  `docs/specs/findiary-design.md:127` calls the server the source of truth. A
  mutation whose append fails stays applied and unlogged.
* `sync_service.go:199`: the comparison reads the row in an earlier statement than
  the update, so two overlapping requests can both win;
  `docs/specs/2026-07-04-backend-sync-service.md:138` promises last-writer-wins.
* `sync_service.go:208`: the first of two changes of one entity in a request stamps
  the row with the server's clock, and the second loses against it;
  `docs/specs/findiary-design.md:198` has them applied in order.
* `sync_repo.go:56`: two first requests of one user race to insert the checkpoint
  row and one of them fails.
* `sync_service.go:300`: a delete compares no timestamps.
* `sync_repo.go:112-125`: the loop over the log never looks at `rows.Err()`, so a read
  that breaks off is answered as if it were complete, with an earlier checkpoint. The
  client takes its own changes for echoed and removes them from its queue; it does
  get them later, as its checkpoint has stayed behind them (`OwnChangesEchoed`).
* `sync_service.go:61`: the stored checkpoint is read and discarded (`_ = cp`); the
  client's is used. So nobody notices that overlapping requests, or a read that
  breaks off, may store a lower one than before;
  `docs/specs/2026-07-04-backend-sync-service.md:75` has it read and updated.
* `sync_service.go:180-220`, `:287-310`: `Sync` writes and deletes any transaction or
  category by its id, whoever made it and whatever family it belongs to, and the
  scope id of a "personal" request is not checked (`:150`);
  `docs/specs/2026-07-04-backend-sync-service.md:127` says "If "personal": user must
  own the data".
* `sync_service.go:247-267`, `:301-310`: that includes the categories of the system,
  which `category_service.go:91` and `:111` refuse to modify or delete.
* `sync_repo.go:139`: a request sent again is logged again.

Other services:

* `transaction_service.go:126`, `transaction_repo.go:103`: a list without a family
  filters by no user, so it holds the transactions of everybody;
  `docs/specs/findiary-design.md:70` has those without a family be personal.
* `category_service.go:82-119`: Get, Update, Delete and List look at no user, so
  anybody reads, edits and deletes any category that is not the system's;
  `docs/specs/findiary-design.md:84` has the scope determine who sees it.
* `transaction_repo.go:151`: the order has no tiebreaker after `created_at`, which
  need not be unique (`transaction_repo_test.go:158-173` inserts equal ones and pages
  through them), so two pages may order equal rows differently. `Listing` takes
  `created_at` to be distinct.
* `auth_service.go:88`, `interceptor.go:29`: an access token is accepted for a refresh
  and a refresh token in place of an access token; `docs/specs/findiary-design.md:316`
  has Refresh "validate refresh token" and `:319` has calls carry the access token.
* The direct API (`TransactionService`, `CategoryService`) writes nothing to
  `change_log`, so other devices do not learn of what it changes.
* `family_handler.go:201`: the code of an invitation is not part of any answer,
  while `docs/specs/findiary-design.md:458` and `:461` have the invitee see the
  invitation on the next sync and accept with the code.
* `family_service.go:37`: `Create` is two statements; if the second fails the family
  stays, is listed, and cannot be opened. `family_service.go:204`: an accept whose
  last statement fails answers an error although the user has joined, and cannot be
  repeated.
* `transaction_service.go:87`: an update with an empty type passes the check, and
  the CHECK of the column refuses it, which is answered as an internal error.
* `dashboard_service.go:54`: the recent transactions are not restricted to the
  caller's, the totals are.
* `auth_service.go:69`: `Login` answers Unauthenticated when the database fails.
* `docs/specs/findiary-design.md:274` gives refresh tokens seven days, `:296` and
  the configuration thirty.
* `server.go:128`: `Shutdown` closes the pool while HTTP goes on accepting calls,
  and those that run when `main` returns are cut off.

## 10. Not modelled

* Client authentication, blocs, pages and gRPC wrappers: each handler awaits one
  call or one read and emits the result; what is wrong with them is a missing call,
  which the list above has, rather than an order of steps.
* The client's family and category DAOs: single statements without the hook.
* The encodings of a change (`Snapshot`, scope ids) on the two sides: they do not
  fit each other, so a model of both together would stop at the first request.
* Generated protobuf, drift and connect client code, platform runners and themes: no
  logic of this program; of the generated code only the routes are used.
* Numbers: amounts are `NUMERIC(18,2)` in the database and floating point elsewhere;
  `Listing` adds integers.
* One hazard has no property, the two first requests of one user that race to insert
  the checkpoint row: the code does fail there, as the list above says.
