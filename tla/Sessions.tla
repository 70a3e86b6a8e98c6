------------------------------ MODULE Sessions ------------------------------
(***************************************************************************)
(* The server process around the services: it starts, routes calls through *)
(* the interceptors to the handlers, lends them the connections of one     *)
(* pool, and shuts down; and the authentication service in full.           *)
(*                                                                         *)
(* A procedure of another service is here the number of statements it      *)
(* sends: Families, Books, Listing and SyncServer have their content.      *)
(* None stands for an empty input, and for a header that is not there.     *)
(***************************************************************************)
EXTENDS Naturals, FiniteSets

CONSTANTS
    Requests,        \* handler activations
    Called,          \* the procedures clients call, routed ones and others
    Emails,
    Passwords,
    ShortPasswords,  \* those of fewer than six characters
    FileSecret,      \* jwt.secret of the configuration file
    Secrets,         \* values the environment may override it with
    None,
    AccessTTL, RefreshTTL,
    PoolSize,        \* connections of the pool
    MaxStatements,   \* bound: statements of a procedure of another service
    MaxCalls,        \* bound: calls received
    MaxTime,         \* bound: the clock
    MaxStarts        \* bound: starts of the process

ASSUME ConstantsAssumption ==
    /\ FileSecret \in Secrets
    /\ None \notin Emails \cup Passwords \cup Secrets
    /\ ShortPasswords \subseteq Passwords
    /\ {AccessTTL, RefreshTTL, MaxStatements, MaxCalls, MaxTime} \subseteq Nat
    /\ {PoolSize, MaxStarts} \subseteq Nat \ {0}

VARIABLES
    process,      \* what the process does
    listening,    \* the goroutine of main serves HTTP
    secret,       \* the signing key of the jwt manager
    users,        \* rows of table users
    connections,  \* the activations that hold a connection of the pool
    req,          \* locals and program counter of each activation
    issued,       \* tokens signed so far
    now,
    calls,        \* calls received so far; also numbers the new accounts
    starts        \* starts of the process so far

server == <<process, listening, secret, starts>>
vars   == <<server, users, connections, req, issued, now, calls>>

-----------------------------------------------------------------------------
(* The routes, as the generated handlers register them *)

AuthServiceHandler        == {"Register", "Login", "RefreshToken"}
FamilyServiceHandler      == {"CreateFamily", "GetFamily", "UpdateFamily", "ListMyFamilies",
                              "AddMember", "RemoveMember", "InviteMember", "AcceptInvitation",
                              "RevokeInvitation", "ListInvitations", "ListMembers"}
CategoryServiceHandler    == {"CreateCategory", "GetCategory", "UpdateCategory",
                              "DeleteCategory", "ListCategories"}
TransactionServiceHandler == {"CreateTransaction", "GetTransaction", "UpdateTransaction",
                              "DeleteTransaction", "ListTransactions"}
SyncServiceHandler        == {"Sync"}
DashboardServiceHandler   == {"GetDashboard"}

mux == AuthServiceHandler \cup FamilyServiceHandler \cup CategoryServiceHandler
       \cup TransactionServiceHandler \cup SyncServiceHandler \cup DashboardServiceHandler

publicProcedures == {"Register", "Login", "RefreshToken"}

-----------------------------------------------------------------------------
User   == [id : 1..MaxCalls, email : Emails, password : Passwords]
\* kind is a history: which token of an answer it was.  The claims do not say.
Claims == [user : 1..MaxCalls, email : Emails, secret : Secrets,
           expires : 0..(MaxTime + AccessTTL + RefreshTTL), kind : {"access", "refresh"}]
Codes  == {"none", "OK", "NotFound", "InvalidArgument", "AlreadyExists", "Unauthenticated",
           "Internal"}
\* user: the account made, found or acting; left: statements to go; granted: the
\* tokens answered.  Histories: known, whether the account existed with this
\* password when the call came in, and broken, whether a statement failed.
Request == [at : {"idle", "received", "handler", "waiting", "querying", "signing", "answered",
                  "lost"},
            call : Called \cup {"none"}, email : Emails \cup {None},
            password : Passwords \cup {None}, token : Claims \cup {None},
            user : 0..MaxCalls, left : 0..MaxStatements,
            code : Codes, granted : SUBSET Claims, known : BOOLEAN, broken : BOOLEAN]

Idle == [at |-> "idle", call |-> "none", email |-> None, password |-> None, token |-> None,
         user |-> 0, left |-> 0, code |-> "none", granted |-> {},
         known |-> FALSE, broken |-> FALSE]

Init ==
    /\ process = "loading" /\ listening = FALSE /\ secret = FileSecret /\ starts = 1
    /\ users = {} /\ connections = {} /\ issued = {}
    /\ req = [r \in Requests |-> Idle]
    /\ now = 0 /\ calls = 0

Become(r, q)   == req' = [req EXCEPT ![r] = q]
Goto(r, at)    == Become(r, [req[r] EXCEPT !.at = at])
Reply(r, code) == Become(r, [req[r] EXCEPT !.at = "answered", !.code = code])

-----------------------------------------------------------------------------
(* The process *)

\* Exiting cuts every activation off, wherever it is; who was answered has the
\* answer.
Exit ==
    /\ process' = "exited" /\ listening' = FALSE
    /\ connections' = {}
    /\ req' = [r \in Requests |-> IF req[r].at \in {"idle", "answered"} THEN Idle
                                  ELSE [Idle EXCEPT !.at = "lost"]]
    /\ UNCHANGED <<secret, users, issued, now, calls, starts>>

\* Faulty variant of overrideFromEnv: an unset variable overrides too.
overrideAlways(env) == env
overrideFromEnv(env) == IF env = None THEN FileSecret ELSE env

\* The file cannot be read or parsed, or the secret is settled.
Load ==
    /\ process = "loading"
    /\ \/ Exit
       \/ /\ process' = "connecting"
          /\ \E env \in Secrets \cup {None} : secret' = overrideFromEnv(env)
          /\ UNCHANGED <<listening, users, connections, req, issued, now, calls, starts>>

\* pgxpool.New refuses the DSN, or the routes are set up.
NewServer ==
    /\ process = "connecting"
    /\ \/ Exit
       \/ /\ process' = "running"
          /\ UNCHANGED <<listening, secret, starts, users, connections, req, issued, now, calls>>

\* ListenAndServe, in its goroutine: an address in use ends the process.
Start ==
    /\ process \in {"running", "closing"} /\ ~listening
    /\ \/ Exit
       \/ /\ listening' = TRUE
          /\ UNCHANGED <<process, secret, starts, users, connections, req, issued, now, calls>>

\* ListenAndServe fails while it serves, or the process is killed.
Die == process # "exited" /\ Exit

\* Before signal.NotifyContext a signal ends the process at once; then it makes
\* main call Shutdown, which closes the pool.  HTTP is served on.
Signal ==
    \/ process \in {"loading", "connecting"} /\ Exit
    \/ /\ process = "running"
       /\ process' = "closing"
       /\ UNCHANGED <<listening, secret, starts, users, connections, req, issued, now, calls>>

\* Close returns when every connection is back, and main returns.
Shutdown ==
    /\ process = "closing" /\ connections = {}
    /\ Exit

Restart ==
    /\ process = "exited" /\ starts < MaxStarts
    /\ process' = "loading" /\ starts' = starts + 1
    /\ UNCHANGED <<listening, secret, users, connections, req, issued, now, calls>>

Tick ==
    /\ now < MaxTime
    /\ now' = now + 1
    /\ UNCHANGED <<server, users, connections, req, issued, calls>>

-----------------------------------------------------------------------------
(* Routing and interceptors *)

\* A public procedure passes AuthInterceptor as it is.
Entrance(c) == IF c \in publicProcedures THEN "handler" ELSE "received"

\* A call reaches the process and gets a goroutine of its own; which of the idle
\* activations stands for it makes no difference.  Each procedure reads its own
\* inputs only.
Call(r) ==
    /\ listening /\ req[r].at = "idle" /\ calls < MaxCalls
    /\ r = CHOOSE free \in Requests : req[free].at = "idle"
    /\ calls' = calls + 1
    /\ \E c \in Called, e \in Emails \cup {None}, p \in Passwords \cup {None},
         t \in issued \cup {None} :
        /\ c \notin {"Register", "Login"} => e = None /\ p = None
        /\ c \in {"Register", "Login"} => t = None
        /\ Become(r, [Idle EXCEPT !.call = c, !.email = e, !.password = p, !.token = t,
               !.at = IF c \in mux THEN Entrance(c) ELSE "answered",
               !.code = IF c \in mux THEN "none" ELSE "NotFound",
               !.user = IF c = "Register" THEN calls + 1 ELSE 0,
               !.known = c = "Login" /\ \E u \in users : u.email = e /\ u.password = p])
    /\ UNCHANGED <<server, users, connections, issued, now>>

ValidateToken(t) == t # None /\ t.secret = secret /\ now < t.expires

AuthInterceptor(r) ==
    LET q == req[r] IN
    /\ q.at = "received"
    /\ IF ValidateToken(q.token)
       THEN Become(r, [q EXCEPT !.at = "handler", !.user = q.token.user,
                                !.email = q.token.email])
       ELSE Reply(r, "Unauthenticated")
    /\ UNCHANGED <<server, users, connections, issued, now, calls>>

-----------------------------------------------------------------------------
(* The handlers up to their first statement *)

Register(r) ==
    LET q == req[r] IN
    /\ q.at = "handler" /\ q.call = "Register"
    /\ IF None \in {q.email, q.password} \/ q.password \in ShortPasswords
       THEN Reply(r, "InvalidArgument")
       ELSE Goto(r, "waiting")
    /\ UNCHANGED <<server, users, connections, issued, now, calls>>

Login(r) ==
    LET q == req[r] IN
    /\ q.at = "handler" /\ q.call = "Login"
    /\ IF None \in {q.email, q.password} THEN Reply(r, "InvalidArgument") ELSE Goto(r, "waiting")
    /\ UNCHANGED <<server, users, connections, issued, now, calls>>

\* No account is looked up.
RefreshToken(r) ==
    LET q == req[r] IN
    /\ q.at = "handler" /\ q.call = "RefreshToken"
    /\ IF ValidateToken(q.token)
       THEN Become(r, [q EXCEPT !.at = "signing", !.user = q.token.user,
                                !.email = q.token.email])
       ELSE Reply(r, "Unauthenticated")
    /\ UNCHANGED <<server, users, connections, issued, now, calls>>

OtherService(r) ==
    LET q == req[r] IN
    /\ q.at = "handler" /\ q.call \notin publicProcedures
    /\ \E n \in 0..MaxStatements :
           IF n = 0 THEN Reply(r, "InvalidArgument")
           ELSE Become(r, [q EXCEPT !.at = "waiting", !.left = n])
    /\ UNCHANGED <<server, users, connections, issued, now, calls>>

-----------------------------------------------------------------------------
(* Statements and the pool *)

\* How each service answers when a statement could not be run.
StatementFailed(r) ==
    Become(r, [req[r] EXCEPT !.at = "answered", !.broken = TRUE,
        !.code = CASE req[r].call = "Register" -> "InvalidArgument"
                   [] req[r].call = "Login"    -> "Unauthenticated"
                   [] OTHER                    -> "Internal"])

\* A statement waits for a connection, and for a closed pool no longer.
Acquire(r) ==
    /\ req[r].at = "waiting"
    /\ \/ /\ process = "running" /\ Cardinality(connections) < PoolSize
          /\ connections' = connections \cup {r}
          /\ Goto(r, "querying")
       \/ process = "closing" /\ StatementFailed(r) /\ UNCHANGED connections
    /\ UNCHANGED <<server, users, issued, now, calls>>

\* Faulty variant of Release: rows left open keep the connection.
ReleaseNothing(r) == connections' = connections
Release(r) == connections' = connections \ {r}

\* Faulty variant of CreateUser: a conflict is taken for success.
CreateIfAbsent(r) ==
    LET q == req[r] IN
    /\ users' = IF \E u \in users : u.email = q.email THEN users
                ELSE users \cup {[id |-> q.user, email |-> q.email, password |-> q.password]}
    /\ Goto(r, "signing")

\* The unique constraint of users.email decides between racing registrations.
CreateUser(r) ==
    LET q == req[r] IN
    IF \E u \in users : u.email = q.email
    THEN Reply(r, "AlreadyExists") /\ UNCHANGED users
    ELSE /\ users' = users \cup {[id |-> q.user, email |-> q.email, password |-> q.password]}
         /\ Goto(r, "signing")

\* The row is committed, and its acknowledgement lost.
CreateUnheard(r) ==
    LET q == req[r] IN
    /\ \A u \in users : u.email # q.email
    /\ users' = users \cup {[id |-> q.user, email |-> q.email, password |-> q.password]}
    /\ StatementFailed(r)

\* A password stands for its hash: what is verified is what was hashed.
Verify(password, user) == user.password = password

\* Faulty variant of FindAndVerify: any password of an account will do.
FindOnly(r) ==
    LET q == req[r] IN
    /\ \/ \E u \in users : u.email = q.email /\ Become(r, [q EXCEPT !.at = "signing", !.user = u.id])
       \/ (\A u \in users : u.email # q.email) /\ Reply(r, "Unauthenticated")
    /\ UNCHANGED users

\* FindByEmail, and password.Verify on the row it read.
FindAndVerify(r) ==
    LET q == req[r] IN
    /\ \/ \E u \in users : /\ u.email = q.email /\ Verify(q.password, u)
                           /\ Become(r, [q EXCEPT !.at = "signing", !.user = u.id])
       \/ /\ \A u \in users : u.email = q.email => ~Verify(q.password, u)
          /\ Reply(r, "Unauthenticated")
    /\ UNCHANGED users

NextStatement(r) ==
    LET q == req[r] IN
    /\ IF q.left = 1 THEN Reply(r, "OK")
       ELSE Become(r, [q EXCEPT !.at = "waiting", !.left = q.left - 1])
    /\ UNCHANGED users

\* The database runs the statement, or refuses it without effect; the answer to
\* one it has run may be lost, which matters for the INSERT.
Query(r) ==
    /\ req[r].at = "querying"
    /\ \/ req[r].call = "Register" /\ (CreateUser(r) \/ CreateUnheard(r))
       \/ req[r].call = "Login" /\ FindAndVerify(r)
       \/ req[r].call \notin publicProcedures /\ NextStatement(r)
       \/ StatementFailed(r) /\ UNCHANGED users
    /\ Release(r)
    /\ UNCHANGED <<server, issued, now, calls>>

-----------------------------------------------------------------------------
GenerateToken(q, kind, ttl) ==
    [user |-> q.user, email |-> q.email, secret |-> secret, expires |-> now + ttl,
     kind |-> kind]

\* To the server an access and a refresh token differ in nothing but their expiry.
Sign(r) ==
    LET q == req[r]
        pair == {GenerateToken(q, "access", AccessTTL), GenerateToken(q, "refresh", RefreshTTL)}
    IN  /\ q.at = "signing"
        /\ issued' = issued \cup pair
        /\ Become(r, [q EXCEPT !.at = "answered", !.code = "OK", !.granted = pair])
        /\ UNCHANGED <<server, users, connections, now, calls>>

\* The client has its answer, or notices that there will be none.
Collect(r) ==
    /\ req[r].at \in {"answered", "lost"}
    /\ Become(r, Idle)
    /\ UNCHANGED <<server, users, connections, issued, now, calls>>

Work(r) ==
    \/ AuthInterceptor(r)
    \/ Register(r) \/ Login(r) \/ RefreshToken(r) \/ OtherService(r)
    \/ Acquire(r) \/ Query(r) \/ Sign(r)

Next ==
    \/ Load \/ NewServer \/ Start \/ Die \/ Signal \/ Shutdown \/ Restart \/ Tick
    \/ \E r \in Requests : Call(r) \/ Work(r) \/ Collect(r)

\* The Go scheduler runs every goroutine, and the database answers every
\* statement it is sent.  Nothing makes a client call or a signal come.
Fairness == WF_vars(Shutdown) /\ \A r \in Requests : WF_vars(Work(r))

Spec == Init /\ [][Next]_vars /\ Fairness

-----------------------------------------------------------------------------
\* Types; only waiting statements hold no connection, and at most PoolSize do.
TypeOK ==
    /\ process \in {"loading", "connecting", "running", "closing", "exited"}
    /\ listening \in BOOLEAN /\ secret \in Secrets
    /\ users \subseteq User
    /\ connections \subseteq {r \in Requests : req[r].at = "querying"}
    /\ Cardinality(connections) <= PoolSize
    /\ req \in [Requests -> Request]
    /\ issued \subseteq Claims
    /\ now \in 0..MaxTime /\ calls \in 0..MaxCalls /\ starts \in 0..MaxStarts

\* However registrations of one email race, with each other and with the end
\* of the process, it gets one account, and each answer says which: success is
\* given to the request that made the account, AlreadyExists names another
\* one, and after any other answer there is nothing of this request's, unless
\* its INSERT failed: then nobody knows.
RegisterAnswered ==
    /\ \A u, v \in users : u.email = v.email => u = v
    /\ \A r \in Requests :
        LET q == req[r] IN
        q.call = "Register" /\ q.at = "answered" =>
            \/ /\ q.code = "OK"
               /\ [id |-> q.user, email |-> q.email, password |-> q.password] \in users
            \/ /\ q.code = "AlreadyExists"
               /\ \E u \in users : u.email = q.email /\ u.id # q.user
            \/ /\ q.code = "InvalidArgument"
               /\ q.broken \/ \A u \in users : u.id # q.user

\* What a session rests on.  Every token names an account that exists, so every
\* activation behind the interceptor acts for one; a Login with the password of
\* an account that existed when it came in is refused only if a statement
\* failed.  Refreshing takes a token of this signing key and keeps the account,
\* and a refresh token of this key is refused only when it has expired; of
\* access tokens, which the server cannot tell from them, nothing is demanded.
SessionAnswered ==
    /\ \A t \in issued : \E u \in users : u.id = t.user /\ u.email = t.email
    /\ \A r \in Requests :
        LET q == req[r] IN
        /\ q.call \notin publicProcedures /\ q.code \in {"OK", "Internal"} =>
               \E u \in users : u.id = q.user /\ u.email = q.email
        /\ q.at = "answered" /\ q.call = "Login" =>
               /\ q.known /\ q.code # "OK" => q.broken
               /\ q.code = "OK" => \E u \in users : /\ u.email = q.email
                                                    /\ u.password = q.password
                                                    /\ \A t \in q.granted : t.user = u.id
        /\ q.at = "answered" /\ q.call = "RefreshToken" =>
               IF q.code = "OK"
               THEN /\ q.token # None /\ q.token.secret = secret
                    /\ \A t \in q.granted : t.user = q.token.user
               ELSE \/ q.token = None \/ q.token.secret # secret \/ q.token.expires <= now
                    \/ q.token.kind = "access"

\* Whatever the pool's size, a call that was received ends: with an answer, or
\* because the process did.
RequestsEnd ==
    \A r \in Requests : req[r].at \in {"received", "handler"} ~> req[r].at \in {"answered", "lost"}

\* Once main is told to stop it stops, whatever calls still come in.
ShutdownEnds == process = "closing" ~> process = "exited"
=============================================================================
