--------------------------- MODULE SessionsProofs ---------------------------
(***************************************************************************)
(* The safety of the process and of authentication for any number of       *)
(* activations, accounts, connections and starts.                          *)
(***************************************************************************)
EXTENDS Sessions, FiniteSetTheorems, TLAPS

-----------------------------------------------------------------------------
(* The invariant *)

Row(q)   == [id |-> q.user, email |-> q.email, password |-> q.password]
Named(q) == \E u \in users : u.id = q.user /\ u.email = q.email
Quiet    == {"idle", "lost"}

\* An activation that is asking the database for itself.
Asking(q) == q.at \in {"waiting", "querying"}

\* A registration has a number of its own, and an account with that number is
\* the one it made.
RegisterInv(q) ==
    q.call = "Register" =>
        /\ q.user \in 1..calls
        /\ q.at \in {"handler", "waiting", "querying"} => \A u \in users : u.id # q.user
        /\ q.at = "signing" => Row(q) \in users
        /\ q.at = "answered" =>
              \/ q.code = "OK" /\ Row(q) \in users
              \/ q.code = "AlreadyExists" /\ \E u \in users : u.email = q.email /\ u.id # q.user
              \/ /\ q.code = "InvalidArgument"
                 /\ q.broken \/ \A u \in users : u.id # q.user

\* What a login was told stays true.
LoginInv(q) ==
    q.call = "Login" =>
        /\ q.known => \E u \in users : u.email = q.email /\ u.password = q.password
        /\ q.at = "signing" => \E u \in users : /\ u.email = q.email /\ u.id = q.user
                                                /\ u.password = q.password
        /\ q.at = "answered" =>
              /\ q.known /\ q.code # "OK" => q.broken
              /\ q.code = "OK" => \E u \in users : /\ u.email = q.email
                                                   /\ u.password = q.password
                                                   /\ \A t \in q.granted : t.user = u.id

RefreshInv(q) ==
    q.call = "RefreshToken" =>
        /\ q.at = "signing" => /\ q.token # None /\ q.token.secret = secret
                               /\ q.user = q.token.user
        /\ q.at = "answered" =>
              IF q.code = "OK"
              THEN /\ q.token # None /\ q.token.secret = secret
                   /\ \A t \in q.granted : t.user = q.token.user
              ELSE \/ q.token = None \/ q.token.secret # secret \/ q.token.expires <= now
                   \/ q.token.kind = "access"

\* Behind the interceptor an activation acts for an account, and so does one
\* that signs.
OthersInv(q) ==
    /\ q.call \notin publicProcedures /\ q.at \in {"handler", "waiting", "querying"} => Named(q)
    /\ q.call \notin publicProcedures /\ q.code \in {"OK", "Internal"} => Named(q)
    /\ q.at = "signing" => Named(q)
    /\ q.at = "received" => q.call \notin publicProcedures
    /\ q.at = "signing" => q.call \in publicProcedures
    /\ q.at # "answered" => q.code = "none"
    /\ q.call \in {"Register", "Login"} /\ Asking(q) =>
          q.email \in Emails /\ q.password \in Passwords
    /\ q.call = "RefreshToken" => ~Asking(q)
    /\ Asking(q) /\ q.call \notin publicProcedures => q.left # 0
    /\ q.token # None => q.token \in issued
    /\ q.at \in Quiet => q.call = "none"

ReqInv(q) == RegisterInv(q) /\ LoginInv(q) /\ RefreshInv(q) /\ OthersInv(q)

Types ==
    /\ process \in {"loading", "connecting", "running", "closing", "exited"}
    /\ listening \in BOOLEAN /\ secret \in Secrets
    /\ starts \in 0..MaxStarts

Tables ==
    /\ users \subseteq User /\ issued \subseteq Claims
    /\ now \in 0..MaxTime /\ calls \in 0..MaxCalls

Accounts ==
    /\ \A u, v \in users : u.email = v.email => u = v
    /\ \A u \in users : u.id <= calls
    /\ \A t \in issued : \E u \in users : u.id = t.user /\ u.email = t.email

Pool ==
    /\ connections \subseteq {r \in Requests : req[r].at = "querying"}
    /\ IsFiniteSet(connections) /\ Cardinality(connections) <= PoolSize

DistinctNumbers ==
    \A r, s \in Requests :
        req[r].call = "Register" /\ req[s].call = "Register" /\ req[r].user = req[s].user
            => r = s

\* Before it listens and after it has exited the process serves nobody.
Silent ==
    ~listening => \A r \in Requests : req[r].at \in Quiet

StageInv == process \in {"loading", "connecting", "exited"} => ~listening

IInv ==
    /\ Types /\ Tables
    /\ req \in [Requests -> Request]
    /\ \A r \in Requests : ReqInv(req[r])
    /\ Accounts /\ Pool /\ DistinctNumbers /\ Silent /\ StageInv

-----------------------------------------------------------------------------
(* What survives a step *)

Growth ==
    /\ users \subseteq users' /\ issued \subseteq issued'
    /\ now <= now' /\ calls <= calls' /\ secret' = secret

\* What holds of an activation goes on to hold, unless an account of its number is
\* made by another one.
LEMMA Frame ==
    ASSUME Tables, Tables', Growth, NEW q \in Request, ReqInv(q),
           q.token # None => q.token \in Claims,
           q.call = "Register" => \A u \in users' \ users : u.id # q.user
    PROVE  ReqInv(q)'
<1>1. RegisterInv(q)'
  <2>1. q.user \in 1..calls => q.user \in 1..calls'
    BY DEF Tables, Growth
  <2>2. users \subseteq users'
    BY DEF Growth
  <2>3. q.call = "Register" /\ (\A u \in users : u.id # q.user) => \A u \in users' : u.id # q.user
    OBVIOUS
  <2>4. RegisterInv(q)
    BY DEF ReqInv
  <2>5. QED
    BY <2>1, <2>2, <2>3, <2>4 DEF RegisterInv, Row
<1>2. LoginInv(q)' /\ OthersInv(q)'
  <2>1. users \subseteq users' /\ issued \subseteq issued' /\ LoginInv(q) /\ OthersInv(q)
    BY DEF Growth, ReqInv
  <2>2. QED
    BY <2>1 DEF LoginInv, OthersInv, Named, Asking
<1>3. RefreshInv(q)'
  <2>1. q.token # None /\ q.token.expires <= now => q.token.expires <= now'
    BY ConstantsAssumption DEF Tables, Growth, Claims, ConstantsAssumption
  <2>2. RefreshInv(q) /\ secret' = secret
    BY DEF ReqInv, Growth
  <2>3. QED
    BY <2>1, <2>2 DEF RefreshInv
<1>4. QED
  BY <1>1, <1>2, <1>3 DEF ReqInv

\* What the types say of one activation.
LEMMA Facts ==
    ASSUME IInv, NEW r \in Requests
    PROVE  /\ req[r] \in Request /\ ReqInv(req[r]) /\ Types /\ Tables /\ Accounts /\ Pool
           /\ req[r].token # None => req[r].token \in Claims
           /\ req[r].at \notin Quiet => listening
BY DEF IInv, Tables, Silent, ReqInv, OthersInv

\* One activation moves to the state q.
LEMMA MoveStep ==
    ASSUME IInv, NEW r \in Requests, NEW q \in Request, Become(r, q), UNCHANGED server,
           Growth, Tables', Accounts', Pool', ReqInv(q)',
           \A u \in users' \ users : req[r].call = "Register" /\ u.id = req[r].user,
           q.call = "Register" => \A s \in Requests \ {r} :
               req[s].call = "Register" => req[s].user # q.user,
           listening \/ q.at \in Quiet
    PROVE  IInv'
<1>1. req' = [req EXCEPT ![r] = q] /\ req \in [Requests -> Request]
  BY DEF Become, IInv
<1>2. req'[r] = q /\ \A s \in Requests \ {r} : req'[s] = req[s]
  BY <1>1
<1>3. UNCHANGED <<process, listening, secret, starts>>
  BY DEF server
<1>4. ASSUME NEW s \in Requests PROVE ReqInv(req[s])'
  <2>1. CASE s = r
    BY <1>2, <2>1 DEF ReqInv, RegisterInv, LoginInv, RefreshInv, OthersInv, Row, Named, Asking
  <2>2. CASE s # r
    <3>1. req[s].call = "Register" => \A u \in users' \ users : u.id # req[s].user
      BY <2>2 DEF IInv, DistinctNumbers
    <3>2. PICK p \in Request : p = req[s]
      BY Facts
    <3>3. ReqInv(p) /\ (p.token # None => p.token \in Claims) /\ Tables
      BY <3>2, Facts
    <3>4. ReqInv(p)'
      BY <3>1, <3>2, <3>3, Frame
    <3>5. req'[s] = p
      BY <1>2, <2>2, <3>2
    <3>6. QED
      BY <3>4, <3>5 DEF ReqInv, RegisterInv, LoginInv, RefreshInv, OthersInv, Row, Named, Asking
  <2>3. QED
    BY <2>1, <2>2
<1>5. DistinctNumbers'
  BY <1>2 DEF IInv, DistinctNumbers
<1>6. Silent' /\ StageInv' /\ Types'
  BY <1>2, <1>3 DEF IInv, Silent, StageInv, Types
<1>7. req' \in [Requests -> Request]
  BY <1>1
<1>8. QED
  BY <1>4, <1>5, <1>6, <1>7 DEF IInv

\* An activation in service moves and leaves everything but the pool.
LEMMA QuietStep ==
    ASSUME IInv, NEW r \in Requests, NEW q \in Request, Become(r, q),
           UNCHANGED <<server, users, issued, now, calls>>, Pool', req[r].at \notin Quiet,
           q.call = req[r].call, q.call = "Register" => q.user = req[r].user, ReqInv(q)
    PROVE  IInv'
<1>1. UNCHANGED <<users, issued, now, calls, process, listening, secret, starts>>
  BY DEF server
<1>2. Tables /\ Accounts /\ listening
  BY Facts
<1>3. Tables' /\ Accounts'
  BY <1>1, <1>2 DEF Tables, Accounts
<1>4. Growth
  BY <1>1, <1>2 DEF Growth, Tables
<1>5. ReqInv(q)'
  BY <1>1 DEF ReqInv, RegisterInv, LoginInv, RefreshInv, OthersInv, Row, Named, Asking
<1>6. q.call = "Register" => \A s \in Requests \ {r} :
          req[s].call = "Register" => req[s].user # q.user
  BY DEF IInv, DistinctNumbers
<1>7. UNCHANGED server
  OBVIOUS
<1>8. \A u \in users' \ users : req[r].call = "Register" /\ u.id = req[r].user
  BY <1>1
<1>9. QED
  BY <1>2, <1>3, <1>4, <1>5, <1>6, <1>7, <1>8, MoveStep

\* An activation that holds no connection moves.
LEMMA PoolKept ==
    ASSUME IInv, NEW r \in Requests, NEW q \in Request, Become(r, q), UNCHANGED connections,
           req[r].at # "querying" \/ r \notin connections
    PROVE  Pool'
<1>1. req' = [req EXCEPT ![r] = q] /\ req \in [Requests -> Request]
  BY DEF Become, IInv
<1>2. Pool
  BY DEF IInv
<1>3. r \notin connections
  BY <1>2 DEF Pool
<1>4. QED
  BY <1>1, <1>2, <1>3 DEF Pool

-----------------------------------------------------------------------------
(* Interceptor and handlers *)

\* An answer that grants nothing.
LEMMA ReplyStep ==
    ASSUME IInv, NEW r \in Requests, NEW code \in Codes \ {"none", "OK"}, Reply(r, code),
           UNCHANGED <<server, users, connections, issued, now, calls>>,
           req[r].at \in {"received", "handler"},
           req[r].call = "Register" => req[r].at = "handler" /\ code = "InvalidArgument",
           req[r].call = "Login" => ~req[r].known,
           req[r].call = "RefreshToken" =>
               \/ req[r].token = None \/ req[r].token.secret # secret
               \/ req[r].token.expires <= now,
           req[r].call \notin publicProcedures => code # "Internal"
    PROVE  IInv'
<1>1. req[r] \in Request /\ ReqInv(req[r])
  BY Facts
<1>2. [req[r] EXCEPT !.at = "answered", !.code = code] \in Request
  BY <1>1 DEF Request
<1>3. PICK q \in Request : q = [req[r] EXCEPT !.at = "answered", !.code = code]
  BY <1>2
<1>4. /\ q.at = "answered" /\ q.code = code /\ q.call = req[r].call /\ q.email = req[r].email
      /\ q.password = req[r].password /\ q.token = req[r].token /\ q.user = req[r].user
      /\ q.left = req[r].left /\ q.granted = req[r].granted /\ q.known = req[r].known
      /\ q.broken = req[r].broken /\ Become(r, q)
  BY <1>1, <1>3 DEF Request, Reply
<1>5. RegisterInv(q)
  BY <1>1, <1>4 DEF ReqInv, RegisterInv
<1>6. LoginInv(q)
  BY <1>1, <1>4 DEF ReqInv, LoginInv
<1>7. RefreshInv(q)
  BY <1>4 DEF RefreshInv
<1>8. OthersInv(q)
  BY <1>1, <1>4 DEF ReqInv, OthersInv, Asking, Quiet
<1>9. Pool' /\ req[r].at \notin Quiet
  BY <1>4, PoolKept DEF Quiet
<1>10. UNCHANGED <<server, users, issued, now, calls>>
  OBVIOUS
<1>11. QED
  BY <1>4, <1>5, <1>6, <1>7, <1>8, <1>9, <1>10, QuietStep DEF ReqInv

\* The handler of a public procedure has nothing against its input.
LEMMA AcceptStep ==
    ASSUME IInv, NEW r \in Requests, Goto(r, "waiting"),
           UNCHANGED <<server, users, connections, issued, now, calls>>,
           req[r].at = "handler", req[r].call \in {"Register", "Login"},
           None \notin {req[r].email, req[r].password}
    PROVE  IInv'
<1>1. req[r] \in Request /\ ReqInv(req[r])
  BY Facts
<1>2. [req[r] EXCEPT !.at = "waiting"] \in Request
  BY <1>1 DEF Request
<1>3. PICK q \in Request : q = [req[r] EXCEPT !.at = "waiting"]
  BY <1>2
<1>4. /\ q.at = "waiting" /\ q.code = req[r].code /\ q.call = req[r].call
      /\ q.email = req[r].email /\ q.password = req[r].password /\ q.token = req[r].token
      /\ q.user = req[r].user /\ q.known = req[r].known /\ Become(r, q)
  BY <1>1, <1>3 DEF Request, Goto
<1>5. RegisterInv(q) /\ LoginInv(q) /\ RefreshInv(q)
  BY <1>1, <1>4 DEF ReqInv, RegisterInv, LoginInv, RefreshInv
<1>6. q.email \in Emails /\ q.password \in Passwords
  BY <1>1, <1>4 DEF Request
<1>7. OthersInv(q)
  BY <1>1, <1>4, <1>6 DEF ReqInv, OthersInv, Asking, Quiet, publicProcedures
<1>8. Pool' /\ req[r].at \notin Quiet
  BY <1>4, PoolKept DEF Quiet
<1>9. UNCHANGED <<server, users, issued, now, calls>>
  OBVIOUS
<1>10. QED
  BY <1>4, <1>5, <1>7, <1>8, <1>9, QuietStep DEF ReqInv

LEMMA RegisterStep ==
    ASSUME IInv, NEW r \in Requests, Register(r)
    PROVE  IInv'
<1>1. CASE Reply(r, "InvalidArgument")
  BY <1>1, ReplyStep DEF Register, Codes, publicProcedures
<1>2. CASE None \notin {req[r].email, req[r].password} /\ Goto(r, "waiting")
  BY <1>2, AcceptStep DEF Register
<1>3. QED
  BY <1>1, <1>2 DEF Register

LEMMA LoginStep ==
    ASSUME IInv, NEW r \in Requests, Login(r)
    PROVE  IInv'
<1>1. CASE None \in {req[r].email, req[r].password} /\ Reply(r, "InvalidArgument")
  <2>1. ReqInv(req[r]) /\ users \subseteq User /\ req[r].call = "Login"
    BY Facts DEF Tables, Login
  <2>2. ~req[r].known
    BY <1>1, <2>1, ConstantsAssumption DEF ReqInv, LoginInv, User, ConstantsAssumption
  <2>3. QED
    BY <1>1, <2>2, ReplyStep DEF Login, Codes, publicProcedures
<1>2. CASE None \notin {req[r].email, req[r].password} /\ Goto(r, "waiting")
  BY <1>2, AcceptStep DEF Login
<1>3. QED
  BY <1>1, <1>2 DEF Login

\* Who has a token that is valid has an account.
LEMMA TokenFacts ==
    ASSUME IInv, NEW r \in Requests, ValidateToken(req[r].token)
    PROVE  /\ req[r].token \in Claims
           /\ \E u \in users : u.id = req[r].token.user /\ u.email = req[r].token.email
BY Facts DEF ValidateToken, ReqInv, OthersInv, Accounts

LEMMA InvalidFacts ==
    ASSUME IInv, NEW r \in Requests, ~ValidateToken(req[r].token)
    PROVE  \/ req[r].token = None \/ req[r].token.secret # secret
           \/ req[r].token.expires <= now
<1>1. CASE req[r].token = None
  BY <1>1
<1>2. CASE req[r].token # None
  <2>1. req[r].token \in Claims /\ now \in Nat
    BY <1>2, Facts DEF Tables
  <2>2. req[r].token.expires \in Nat
    BY <2>1, ConstantsAssumption DEF Claims, ConstantsAssumption
  <2>3. QED
    BY <1>2, <2>1, <2>2 DEF ValidateToken
<1>3. QED
  BY <1>1, <1>2

\* An activation goes on for the account of its token.
LEMMA IdentifiedStep ==
    ASSUME IInv, NEW r \in Requests, NEW at \in {"handler", "signing"},
           Become(r, [req[r] EXCEPT !.at = at, !.user = req[r].token.user,
                                    !.email = req[r].token.email]),
           UNCHANGED <<server, users, connections, issued, now, calls>>,
           ValidateToken(req[r].token), req[r].at \in {"received", "handler"},
           at = "handler" => req[r].call \notin publicProcedures,
           at = "signing" => req[r].call = "RefreshToken"
    PROVE  IInv'
<1> DEFINE t == req[r].token
<1>1. req[r] \in Request /\ ReqInv(req[r]) /\ Tables
  BY Facts
<1>2. t \in Claims /\ \E u \in users : u.id = t.user /\ u.email = t.email
  BY TokenFacts
<1>3. t.user \in 0..MaxCalls /\ t.email \in Emails
  BY <1>2, ConstantsAssumption DEF Claims, ConstantsAssumption
<1>4. [req[r] EXCEPT !.at = at, !.user = t.user, !.email = t.email] \in Request
  BY <1>1, <1>3 DEF Request
<1>5. PICK q \in Request :
          q = [req[r] EXCEPT !.at = at, !.user = t.user, !.email = t.email]
  BY <1>4
<1>6. /\ q.at = at /\ q.code = req[r].code /\ q.call = req[r].call /\ q.token = t
      /\ q.user = t.user /\ q.email = t.email /\ Become(r, q)
  BY <1>1, <1>5 DEF Request
<1>7. q.call \notin {"Register", "Login"}
  BY <1>6 DEF publicProcedures
<1>8. RegisterInv(q) /\ LoginInv(q) /\ RefreshInv(q)
  BY <1>6, <1>7 DEF RegisterInv, LoginInv, RefreshInv, publicProcedures, ValidateToken
<1>9. Named(q)
  BY <1>2, <1>6 DEF Named
<1>10. OthersInv(q)
  BY <1>1, <1>6, <1>7, <1>9 DEF ReqInv, OthersInv, Asking, Quiet, publicProcedures
<1>11. Pool' /\ req[r].at \notin Quiet
  BY <1>6, PoolKept DEF Quiet
<1>12. UNCHANGED <<server, users, issued, now, calls>>
  OBVIOUS
<1>13. QED
  BY <1>6, <1>7, <1>8, <1>10, <1>11, <1>12, QuietStep DEF ReqInv

LEMMA AuthInterceptorStep ==
    ASSUME IInv, NEW r \in Requests, AuthInterceptor(r)
    PROVE  IInv'
<1>1. req[r].at = "received" /\ req[r].call \notin publicProcedures
  BY Facts DEF AuthInterceptor, ReqInv, OthersInv
<1>2. CASE ValidateToken(req[r].token)
  BY <1>1, <1>2, IdentifiedStep DEF AuthInterceptor
<1>3. CASE ~ValidateToken(req[r].token)
  BY <1>1, <1>3, ReplyStep DEF AuthInterceptor, Codes, publicProcedures
<1>4. QED
  BY <1>2, <1>3

LEMMA RefreshTokenStep ==
    ASSUME IInv, NEW r \in Requests, RefreshToken(r)
    PROVE  IInv'
<1>1. req[r].at = "handler" /\ req[r].call = "RefreshToken"
  BY DEF RefreshToken
<1>2. CASE ValidateToken(req[r].token)
  BY <1>1, <1>2, IdentifiedStep DEF RefreshToken
<1>3. CASE ~ValidateToken(req[r].token)
  BY <1>1, <1>3, ReplyStep, InvalidFacts DEF RefreshToken, Codes, publicProcedures
<1>4. QED
  BY <1>2, <1>3

LEMMA OtherServiceStep ==
    ASSUME IInv, NEW r \in Requests, OtherService(r)
    PROVE  IInv'
<1>1. req[r] \in Request /\ ReqInv(req[r])
  BY Facts
<1>2. req[r].at = "handler" /\ req[r].call \notin publicProcedures
  BY DEF OtherService
<1>3. CASE Reply(r, "InvalidArgument")
  BY <1>2, <1>3, ReplyStep DEF OtherService, Codes, publicProcedures
<1>4. ASSUME NEW n \in 0..MaxStatements, n # 0,
             Become(r, [req[r] EXCEPT !.at = "waiting", !.left = n])
      PROVE  IInv'
  <2>1. [req[r] EXCEPT !.at = "waiting", !.left = n] \in Request
    BY <1>1 DEF Request
  <2>2. PICK q \in Request : q = [req[r] EXCEPT !.at = "waiting", !.left = n]
    BY <2>1
  <2>3. /\ q.at = "waiting" /\ q.code = req[r].code /\ q.call = req[r].call /\ q.left = n
        /\ q.email = req[r].email /\ q.token = req[r].token /\ q.user = req[r].user
        /\ Become(r, q)
    BY <1>1, <1>4, <2>2 DEF Request
  <2>4. RegisterInv(q) /\ LoginInv(q) /\ RefreshInv(q)
    BY <1>2, <2>3 DEF RegisterInv, LoginInv, RefreshInv, publicProcedures
  <2>5. Named(q)
    BY <1>1, <1>2, <2>3 DEF ReqInv, OthersInv, Named
  <2>6. OthersInv(q)
    BY <1>1, <1>2, <1>4, <2>3, <2>5 DEF ReqInv, OthersInv, Asking, Quiet, publicProcedures
  <2>7. Pool' /\ UNCHANGED <<server, users, issued, now, calls>> /\ req[r].at \notin Quiet
    BY <1>2, <2>3, PoolKept DEF OtherService, Quiet
  <2>8. QED
    BY <1>2, <2>3, <2>4, <2>6, <2>7, QuietStep DEF ReqInv, publicProcedures
<1>5. QED
  BY <1>3, <1>4 DEF OtherService

-----------------------------------------------------------------------------
(* Statements and the pool *)

LEMMA PoolGrows ==
    ASSUME IInv, NEW r \in Requests, NEW q \in Request, Become(r, q), req[r].at # "querying",
           q.at = "querying", Cardinality(connections) < PoolSize,
           connections' = connections \cup {r}
    PROVE  Pool'
<1>1. req' = [req EXCEPT ![r] = q] /\ req \in [Requests -> Request] /\ Pool
  BY DEF Become, IInv
<1>2. r \notin connections /\ IsFiniteSet(connections)
  BY <1>1 DEF Pool
<1>3. /\ IsFiniteSet(connections') /\ Cardinality(connections) \in Nat
      /\ Cardinality(connections') = Cardinality(connections) + 1
  BY <1>2, FS_AddElement, FS_CardinalityType
<1>4. Cardinality(connections') <= PoolSize
  BY <1>3, ConstantsAssumption DEF ConstantsAssumption
<1>5. connections' \subseteq {s \in Requests : req'[s].at = "querying"}
  BY <1>1 DEF Pool
<1>6. QED
  BY <1>3, <1>4, <1>5 DEF Pool

LEMMA PoolShrinks ==
    ASSUME IInv, NEW r \in Requests, NEW q \in Request, Become(r, q), Release(r)
    PROVE  Pool'
<1>1. req' = [req EXCEPT ![r] = q] /\ req \in [Requests -> Request] /\ Pool
  BY DEF Become, IInv
<1>2. connections' = connections \ {r} /\ IsFiniteSet(connections)
  BY <1>1 DEF Pool, Release
<1>3. /\ IsFiniteSet(connections') /\ Cardinality(connections) \in Nat
      /\ \/ Cardinality(connections') = Cardinality(connections) - 1
         \/ Cardinality(connections') = Cardinality(connections)
  BY <1>2, FS_RemoveElement, FS_CardinalityType
<1>4. Cardinality(connections') <= PoolSize
  BY <1>1, <1>3, ConstantsAssumption DEF Pool, ConstantsAssumption
<1>5. connections' \subseteq {s \in Requests : req'[s].at = "querying"}
  BY <1>1, <1>2 DEF Pool
<1>6. QED
  BY <1>3, <1>4, <1>5 DEF Pool

LEMMA StatementFailedStep ==
    ASSUME IInv, NEW r \in Requests, StatementFailed(r), Asking(req[r]),
           Release(r) \/ (UNCHANGED connections /\ req[r].at = "waiting"),
           UNCHANGED <<server, users, issued, now, calls>>
    PROVE  IInv'
<1> DEFINE p == req[r]
           code == CASE p.call = "Register" -> "InvalidArgument"
                     [] p.call = "Login"    -> "Unauthenticated"
                     [] OTHER               -> "Internal"
<1>1. p \in Request /\ ReqInv(p)
  BY Facts
<1>2. /\ code \in Codes /\ code # "OK" /\ code # "none"
      /\ p.call = "Register" => code = "InvalidArgument"
  BY DEF Codes
<1>3. Become(r, [p EXCEPT !.at = "answered", !.broken = TRUE, !.code = code])
  BY DEF StatementFailed
<1> HIDE DEF code
<1>4. [p EXCEPT !.at = "answered", !.broken = TRUE, !.code = code] \in Request
  BY <1>1, <1>2 DEF Request
<1>5. PICK q \in Request :
          q = [p EXCEPT !.at = "answered", !.broken = TRUE, !.code = code]
  BY <1>4
<1>6. /\ q.at = "answered" /\ q.call = p.call /\ q.email = p.email /\ q.password = p.password
      /\ q.token = p.token /\ q.user = p.user /\ q.code = code /\ q.known = p.known
      /\ q.granted = p.granted /\ Become(r, q)
  BY <1>1, <1>3, <1>5 DEF Request
<1>7. q.broken
  BY <1>1, <1>5 DEF Request
<1>8. p.call # "RefreshToken"
  BY <1>1 DEF ReqInv, OthersInv
<1>9. RegisterInv(q)
  BY <1>1, <1>2, <1>6 DEF ReqInv, RegisterInv, Asking
<1>10. LoginInv(q)
  BY <1>1, <1>2, <1>6, <1>7 DEF ReqInv, LoginInv
<1>11. RefreshInv(q)
  BY <1>6, <1>8 DEF RefreshInv
<1>12. OthersInv(q)
  BY <1>1, <1>6 DEF ReqInv, OthersInv, Named, Asking, Quiet
<1>13. Pool'
  BY <1>6, PoolShrinks, PoolKept
<1>14. p.at \notin Quiet
  BY DEF Asking, Quiet
<1>15. QED
  BY <1>6, <1>9, <1>10, <1>11, <1>12, <1>13, <1>14, QuietStep DEF ReqInv

LEMMA AcquireStep ==
    ASSUME IInv, NEW r \in Requests, Acquire(r)
    PROVE  IInv'
<1>1. /\ req[r] \in Request /\ ReqInv(req[r]) /\ req[r].at = "waiting" /\ Asking(req[r])
      /\ UNCHANGED <<server, users, issued, now, calls>>
  BY Facts DEF Acquire, Asking
<1>2. CASE StatementFailed(r) /\ UNCHANGED connections
  BY <1>1, <1>2, StatementFailedStep
<1>3. CASE /\ Cardinality(connections) < PoolSize
           /\ connections' = connections \cup {r}
           /\ Goto(r, "querying")
  <2>1. [req[r] EXCEPT !.at = "querying"] \in Request
    BY <1>1 DEF Request
  <2>2. PICK q \in Request : q = [req[r] EXCEPT !.at = "querying"]
    BY <2>1
  <2>3. /\ q.at = "querying" /\ q.code = req[r].code /\ q.call = req[r].call
        /\ q.email = req[r].email /\ q.password = req[r].password /\ q.left = req[r].left
        /\ q.token = req[r].token /\ q.user = req[r].user /\ q.known = req[r].known
        /\ Become(r, q)
    BY <1>1, <1>3, <2>2 DEF Request, Goto
  <2>4. RegisterInv(q) /\ LoginInv(q) /\ RefreshInv(q)
    BY <1>1, <2>3 DEF ReqInv, RegisterInv, LoginInv, RefreshInv
  <2>5. OthersInv(q)
    BY <1>1, <2>3 DEF ReqInv, OthersInv, Named, Asking, Quiet
  <2>6. Pool' /\ req[r].at \notin Quiet
    BY <1>1, <1>3, <2>3, PoolGrows DEF Quiet
  <2>7. QED
    BY <1>1, <2>3, <2>4, <2>5, <2>6, QuietStep DEF ReqInv
<1>4. QED
  BY <1>2, <1>3 DEF Acquire

\* The row of a registration, committed.
LEMMA RowMade ==
    ASSUME IInv, NEW r \in Requests, req[r].at = "querying", req[r].call = "Register",
           \A u \in users : u.email # req[r].email, users' = users \cup {Row(req[r])},
           UNCHANGED <<server, issued, now, calls>>
    PROVE  /\ Tables' /\ Growth /\ Accounts'
           /\ Row(req[r]).id = req[r].user /\ Row(req[r]).email = req[r].email
           /\ \A u \in users' \ users : u.id = req[r].user
<1> DEFINE p == req[r]
<1>1. p \in Request /\ ReqInv(p) /\ Tables /\ Accounts /\ Asking(p)
  BY Facts DEF Asking
<1>2. /\ p.user \in 1..calls /\ p.email \in Emails /\ p.password \in Passwords
      /\ \A u \in users : u.id # p.user
  BY <1>1 DEF ReqInv, RegisterInv, OthersInv
<1>3. Row(p) \in User
  BY <1>1, <1>2, ConstantsAssumption DEF Row, User, Tables, ConstantsAssumption
<1>4. Tables'
  BY <1>1, <1>3 DEF Tables
<1>5. Growth
  BY <1>1 DEF Growth, Tables, server
<1>6. Row(p).id = p.user /\ Row(p).email = p.email /\ p.user <= calls
  BY <1>1, <1>2 DEF Row, Tables
<1>7. \A u, v \in users' : u.email = v.email => u = v
  BY <1>1, <1>6 DEF Accounts
<1>8. \A u \in users' : u.id <= calls'
  BY <1>1, <1>6 DEF Accounts
<1>9. \A t \in issued' : \E u \in users' : u.id = t.user /\ u.email = t.email
  BY <1>1 DEF Accounts
<1>10. QED
  BY <1>4, <1>5, <1>6, <1>7, <1>8, <1>9 DEF Accounts

\* Its request is not told.
LEMMA CreateUnheardStep ==
    ASSUME IInv, NEW r \in Requests, req[r].at = "querying", req[r].call = "Register",
           CreateUnheard(r), Release(r), UNCHANGED <<server, issued, now, calls>>
    PROVE  IInv'
<1> DEFINE p == req[r]
<1>1. p \in Request /\ ReqInv(p) /\ listening
  BY Facts DEF Quiet
<1>2. (\A u \in users : u.email # p.email) /\ users' = users \cup {Row(p)} /\ StatementFailed(r)
  BY DEF CreateUnheard, Row
<1>3. /\ Tables' /\ Growth /\ Accounts'
      /\ \A u \in users' \ users : p.call = "Register" /\ u.id = p.user
  BY <1>2, RowMade
<1>4. [p EXCEPT !.at = "answered", !.broken = TRUE, !.code = "InvalidArgument"] \in Request
  BY <1>1 DEF Request, Codes
<1>5. PICK q \in Request :
          q = [p EXCEPT !.at = "answered", !.broken = TRUE, !.code = "InvalidArgument"]
  BY <1>4
<1>6. /\ q.at = "answered" /\ q.code = "InvalidArgument" /\ q.call = p.call /\ q.broken
      /\ q.token = p.token /\ q.user = p.user
  BY <1>1, <1>5 DEF Request
<1>7. Become(r, q)
  BY <1>2, <1>5 DEF StatementFailed
<1>8. p.user \in 1..calls'
  BY <1>1 DEF ReqInv, RegisterInv
<1>9. RegisterInv(q)'
  BY <1>6, <1>8 DEF RegisterInv
<1>10. LoginInv(q)' /\ RefreshInv(q)'
  BY <1>6 DEF LoginInv, RefreshInv
<1>11. OthersInv(q)'
  BY <1>1, <1>6 DEF ReqInv, OthersInv, Asking, Quiet, publicProcedures
<1>12. Pool'
  BY <1>7, PoolShrinks
<1>13. \A s \in Requests \ {r} : req[s].call = "Register" => req[s].user # q.user
  BY <1>6 DEF IInv, DistinctNumbers
<1>14. QED
  BY <1>1, <1>3, <1>7, <1>9, <1>10, <1>11, <1>12, <1>13, MoveStep DEF ReqInv

LEMMA CreateUserStep ==
    ASSUME IInv, NEW r \in Requests, req[r].at = "querying", req[r].call = "Register",
           CreateUser(r), Release(r), UNCHANGED <<server, issued, now, calls>>
    PROVE  IInv'
<1> DEFINE p == req[r]
<1>1. /\ p \in Request /\ ReqInv(p) /\ Tables /\ Accounts /\ listening
      /\ p.at \notin Quiet /\ Asking(p)
  BY Facts DEF Asking, Quiet
<1>2. /\ p.user \in 1..calls /\ p.email \in Emails /\ p.password \in Passwords
      /\ \A u \in users : u.id # p.user
  BY <1>1 DEF ReqInv, RegisterInv, OthersInv
<1>3. CASE (\E u \in users : u.email = p.email) /\ Reply(r, "AlreadyExists") /\ UNCHANGED users
  <2>1. [p EXCEPT !.at = "answered", !.code = "AlreadyExists"] \in Request
    BY <1>1 DEF Request, Codes
  <2>2. PICK q \in Request : q = [p EXCEPT !.at = "answered", !.code = "AlreadyExists"]
    BY <2>1
  <2>3. /\ q.at = "answered" /\ q.code = "AlreadyExists" /\ q.call = p.call /\ q.email = p.email
        /\ q.token = p.token /\ q.user = p.user /\ Become(r, q)
    BY <1>1, <1>3, <2>2 DEF Request, Reply
  <2>4. RegisterInv(q)
    BY <1>2, <1>3, <2>3 DEF RegisterInv
  <2>5. LoginInv(q) /\ RefreshInv(q)
    BY <2>3 DEF LoginInv, RefreshInv
  <2>6. OthersInv(q)
    BY <1>1, <2>3 DEF ReqInv, OthersInv, Asking, Quiet, publicProcedures
  <2>7. Pool'
    BY <2>3, PoolShrinks
  <2>8. UNCHANGED <<server, users, issued, now, calls>>
    BY <1>3
  <2>9. QED
    BY <1>1, <2>3, <2>4, <2>5, <2>6, <2>7, <2>8, QuietStep DEF ReqInv
<1>4. CASE /\ ~ \E u \in users : u.email = p.email
           /\ users' = users \cup {Row(p)}
           /\ Goto(r, "signing")
  <2>1. [p EXCEPT !.at = "signing"] \in Request
    BY <1>1 DEF Request
  <2>2. PICK q \in Request : q = [p EXCEPT !.at = "signing"]
    BY <2>1
  <2>3. /\ q.at = "signing" /\ q.code = p.code /\ q.call = p.call /\ q.email = p.email
        /\ q.password = p.password /\ q.token = p.token /\ q.user = p.user /\ Become(r, q)
    BY <1>1, <1>4, <2>2 DEF Request, Goto
  <2>4. /\ Tables' /\ Growth /\ Accounts' /\ Row(p).id = p.user /\ Row(p).email = p.email
        /\ \A u \in users' \ users : p.call = "Register" /\ u.id = p.user
    BY <1>4, RowMade
  <2>5. Row(q) = Row(p) /\ Row(p) \in users'
    BY <1>4, <2>3 DEF Row
  <2>6. RegisterInv(q)'
    BY <1>2, <2>3, <2>5 DEF RegisterInv, Row
  <2>7. LoginInv(q)' /\ RefreshInv(q)'
    BY <2>3 DEF LoginInv, RefreshInv
  <2>8. Named(q)'
    BY <2>3, <2>4, <2>5 DEF Named
  <2>9. OthersInv(q)'
    BY <1>1, <2>3, <2>8 DEF ReqInv, OthersInv, Asking, Quiet, publicProcedures
  <2>10. Pool'
    BY <2>3, PoolShrinks
  <2>11. \A s \in Requests \ {r} : req[s].call = "Register" => req[s].user # q.user
    BY <2>3 DEF IInv, DistinctNumbers
  <2>12. QED
    BY <1>1, <2>3, <2>4, <2>6, <2>7, <2>9, <2>10, <2>11, MoveStep
       DEF ReqInv
<1>5. QED
  BY <1>3, <1>4 DEF CreateUser, Row

LEMMA FindAndVerifyStep ==
    ASSUME IInv, NEW r \in Requests, req[r].at = "querying", req[r].call = "Login",
           FindAndVerify(r), Release(r), UNCHANGED <<server, issued, now, calls>>
    PROVE  IInv'
<1> DEFINE p == req[r]
<1>1. p \in Request /\ ReqInv(p) /\ Tables /\ p.at \notin Quiet
  BY Facts DEF Quiet
<1>2. UNCHANGED <<server, users, issued, now, calls>>
  BY DEF FindAndVerify
<1>3. ASSUME NEW u \in users, u.email = p.email, u.password = p.password,
             Become(r, [p EXCEPT !.at = "signing", !.user = u.id])
      PROVE  IInv'
  <2>1. u.id \in 0..MaxCalls
    BY <1>1, ConstantsAssumption DEF Tables, User, ConstantsAssumption
  <2>2. [p EXCEPT !.at = "signing", !.user = u.id] \in Request
    BY <1>1, <2>1 DEF Request
  <2>3. PICK q \in Request : q = [p EXCEPT !.at = "signing", !.user = u.id]
    BY <2>2
  <2>4. /\ q.at = "signing" /\ q.code = p.code /\ q.call = p.call /\ q.email = p.email
        /\ q.password = p.password /\ q.token = p.token /\ q.user = u.id /\ q.known = p.known
        /\ Become(r, q)
    BY <1>1, <1>3, <2>3 DEF Request
  <2>5. RegisterInv(q) /\ RefreshInv(q)
    BY <2>4 DEF RegisterInv, RefreshInv
  <2>6. LoginInv(q)
    BY <1>1, <1>3, <2>4 DEF ReqInv, LoginInv
  <2>7. Named(q)
    BY <1>3, <2>4 DEF Named
  <2>8. OthersInv(q)
    BY <1>1, <2>4, <2>7 DEF ReqInv, OthersInv, Asking, Quiet, publicProcedures
  <2>9. Pool'
    BY <2>4, PoolShrinks
  <2>10. QED
    BY <1>1, <1>2, <2>4, <2>5, <2>6, <2>8, <2>9, QuietStep DEF ReqInv
<1>4. CASE /\ \A u \in users : u.email = p.email => ~Verify(p.password, u)
           /\ Reply(r, "Unauthenticated")
  <2>1. [p EXCEPT !.at = "answered", !.code = "Unauthenticated"] \in Request
    BY <1>1 DEF Request, Codes
  <2>2. PICK q \in Request : q = [p EXCEPT !.at = "answered", !.code = "Unauthenticated"]
    BY <2>1
  <2>3. /\ q.at = "answered" /\ q.code = "Unauthenticated" /\ q.call = p.call
        /\ q.token = p.token /\ q.known = p.known /\ Become(r, q)
    BY <1>1, <1>4, <2>2 DEF Request, Reply
  <2>4. ~p.known
    BY <1>1, <1>4 DEF ReqInv, LoginInv, Verify
  <2>5. RegisterInv(q) /\ LoginInv(q) /\ RefreshInv(q)
    BY <2>3, <2>4 DEF RegisterInv, LoginInv, RefreshInv
  <2>6. OthersInv(q)
    BY <1>1, <2>3 DEF ReqInv, OthersInv, Asking, Quiet, publicProcedures
  <2>7. Pool'
    BY <2>3, PoolShrinks
  <2>8. QED
    BY <1>1, <1>2, <2>3, <2>5, <2>6, <2>7, QuietStep DEF ReqInv
<1>5. QED
  BY <1>3, <1>4 DEF FindAndVerify, Verify

LEMMA NextStatementStep ==
    ASSUME IInv, NEW r \in Requests, req[r].at = "querying", req[r].call \notin publicProcedures,
           NextStatement(r), Release(r), UNCHANGED <<server, issued, now, calls>>
    PROVE  IInv'
<1> DEFINE p == req[r]
<1>1. p \in Request /\ ReqInv(p) /\ p.at \notin Quiet /\ Asking(p)
  BY Facts DEF Quiet, Asking
<1>2. UNCHANGED <<server, users, issued, now, calls>> /\ Named(p) /\ p.left # 0
  BY <1>1 DEF NextStatement, ReqInv, OthersInv
<1>3. CASE p.left = 1 /\ Reply(r, "OK")
  <2>1. [p EXCEPT !.at = "answered", !.code = "OK"] \in Request
    BY <1>1 DEF Request, Codes
  <2>2. PICK q \in Request : q = [p EXCEPT !.at = "answered", !.code = "OK"]
    BY <2>1
  <2>3. /\ q.at = "answered" /\ q.call = p.call /\ q.token = p.token /\ q.user = p.user
        /\ q.email = p.email /\ Become(r, q)
    BY <1>1, <1>3, <2>2 DEF Request, Reply
  <2>4. RegisterInv(q) /\ LoginInv(q) /\ RefreshInv(q)
    BY <2>3 DEF RegisterInv, LoginInv, RefreshInv, publicProcedures
  <2>5. OthersInv(q)
    BY <1>1, <1>2, <2>3 DEF ReqInv, OthersInv, Named, Asking, Quiet, publicProcedures
  <2>6. Pool'
    BY <2>3, PoolShrinks
  <2>7. QED
    BY <1>1, <1>2, <2>3, <2>4, <2>5, <2>6, QuietStep DEF ReqInv, publicProcedures
<1>4. CASE p.left # 1 /\ Become(r, [p EXCEPT !.at = "waiting", !.left = p.left - 1])
  <2>1. p.left \in 0..MaxStatements
    BY <1>1 DEF Request
  <2>2. p.left - 1 \in 0..MaxStatements /\ p.left - 1 # 0
    BY <1>2, <1>4, <2>1, ConstantsAssumption DEF ConstantsAssumption
  <2>3. [p EXCEPT !.at = "waiting", !.left = p.left - 1] \in Request
    BY <1>1, <2>2 DEF Request
  <2>4. PICK q \in Request : q = [p EXCEPT !.at = "waiting", !.left = p.left - 1]
    BY <2>3
  <2>5. /\ q.at = "waiting" /\ q.code = p.code /\ q.call = p.call /\ q.left = p.left - 1
        /\ q.email = p.email /\ q.token = p.token /\ q.user = p.user /\ Become(r, q)
    BY <1>1, <1>4, <2>4 DEF Request
  <2>6. RegisterInv(q) /\ LoginInv(q) /\ RefreshInv(q)
    BY <2>5 DEF RegisterInv, LoginInv, RefreshInv, publicProcedures
  <2>7. OthersInv(q)
    BY <1>1, <1>2, <2>2, <2>5 DEF ReqInv, OthersInv, Named, Asking, Quiet, publicProcedures
  <2>8. Pool'
    BY <2>5, PoolShrinks
  <2>9. QED
    BY <1>1, <1>2, <2>5, <2>6, <2>7, <2>8, QuietStep DEF ReqInv, publicProcedures
<1>5. QED
  BY <1>3, <1>4 DEF NextStatement

LEMMA QueryStep ==
    ASSUME IInv, NEW r \in Requests, Query(r)
    PROVE  IInv'
<1>1. req[r].at = "querying" /\ Release(r) /\ UNCHANGED <<server, issued, now, calls>>
  BY DEF Query
<1>2. CASE req[r].call = "Register" /\ CreateUser(r)
  BY <1>1, <1>2, CreateUserStep
<1>3. CASE req[r].call = "Register" /\ CreateUnheard(r)
  BY <1>1, <1>3, CreateUnheardStep
<1>4. CASE req[r].call = "Login" /\ FindAndVerify(r)
  BY <1>1, <1>4, FindAndVerifyStep
<1>5. CASE req[r].call \notin publicProcedures /\ NextStatement(r)
  BY <1>1, <1>5, NextStatementStep
<1>6. CASE StatementFailed(r) /\ UNCHANGED users
  BY <1>1, <1>6, StatementFailedStep DEF Asking
<1>7. QED
  BY <1>2, <1>4, <1>5, <1>6, <1>3 DEF Query

-----------------------------------------------------------------------------
(* Tokens *)

LEMMA SignStep ==
    ASSUME IInv, NEW r \in Requests, Sign(r)
    PROVE  IInv'
<1> DEFINE p    == req[r]
           pair == {GenerateToken(p, "access", AccessTTL),
                    GenerateToken(p, "refresh", RefreshTTL)}
<1>1. /\ p \in Request /\ ReqInv(p) /\ Types /\ Tables /\ Accounts /\ listening
      /\ p.at = "signing" /\ p.at \notin Quiet
  BY Facts DEF Sign, Quiet
<1>2. /\ issued' = issued \cup pair
      /\ Become(r, [p EXCEPT !.at = "answered", !.code = "OK", !.granted = pair])
      /\ UNCHANGED <<server, users, connections, now, calls>>
  BY DEF Sign
<1>3. PICK u \in users : u.id = p.user /\ u.email = p.email
  BY <1>1 DEF ReqInv, OthersInv, Named
<1>4. p.user \in 1..MaxCalls /\ p.email \in Emails /\ secret \in Secrets
  BY <1>1, <1>3 DEF Tables, User, Types
<1>5. /\ now + AccessTTL \in 0..(MaxTime + AccessTTL + RefreshTTL)
      /\ now + RefreshTTL \in 0..(MaxTime + AccessTTL + RefreshTTL)
  BY <1>1, ConstantsAssumption DEF Tables, ConstantsAssumption
<1>6. pair \subseteq Claims
  BY <1>4, <1>5 DEF GenerateToken, Claims
<1>7. \A t \in pair : t.user = p.user /\ t.email = p.email
  BY DEF GenerateToken
<1> HIDE DEF pair
<1>8. [p EXCEPT !.at = "answered", !.code = "OK", !.granted = pair] \in Request
  BY <1>1, <1>6 DEF Request, Codes
<1>9. PICK q \in Request : q = [p EXCEPT !.at = "answered", !.code = "OK", !.granted = pair]
  BY <1>8
<1>10. /\ q.at = "answered" /\ q.code = "OK" /\ q.call = p.call /\ q.email = p.email
       /\ q.password = p.password /\ q.token = p.token /\ q.user = p.user /\ q.known = p.known
       /\ q.granted = pair /\ Become(r, q)
  BY <1>1, <1>2, <1>9 DEF Request
<1>11. Tables' /\ Growth
  BY <1>1, <1>2, <1>6 DEF Tables, Growth, server
<1>12. Accounts'
  BY <1>1, <1>2, <1>3, <1>7 DEF Accounts
<1>13. RegisterInv(q)'
  BY <1>1, <1>2, <1>10 DEF ReqInv, RegisterInv, Row
<1>14. LoginInv(q)'
  BY <1>1, <1>2, <1>7, <1>10 DEF ReqInv, LoginInv
<1>15. RefreshInv(q)'
  BY <1>1, <1>2, <1>7, <1>10 DEF ReqInv, RefreshInv, server
<1>16. OthersInv(q)'
  BY <1>1, <1>2, <1>10 DEF ReqInv, OthersInv, Asking, Quiet
<1>17. Pool' /\ \A v \in users' \ users : p.call = "Register" /\ v.id = p.user
  BY <1>1, <1>2, <1>10, PoolKept
<1>18. q.call = "Register" => \A s \in Requests \ {r} :
           req[s].call = "Register" => req[s].user # q.user
  BY <1>10 DEF IInv, DistinctNumbers
<1>19. UNCHANGED server
  BY <1>2
<1>20. QED
  BY <1>1, <1>10, <1>11, <1>12, <1>13, <1>14, <1>15, <1>16, <1>17, <1>18, <1>19, MoveStep
     DEF ReqInv

-----------------------------------------------------------------------------
(* Calls *)

LEMMA IdleType == Idle \in Request
<1>1. 0 \in 0..MaxCalls /\ 0 \in 0..MaxStatements
  BY ConstantsAssumption DEF ConstantsAssumption
<1>2. QED
  BY <1>1 DEF Idle, Request, Codes

\* An activation that serves no call satisfies everything.
LEMMA BlankInv ==
    ASSUME NEW q \in Request, q.at \in Quiet, q.call = "none", q.code = "none", q.token = None
    PROVE  ReqInv(q) /\ ReqInv(q)'
<1>1. q.at \notin {"signing", "answered", "received", "handler", "waiting", "querying"}
  BY DEF Quiet
<1>2. RegisterInv(q) /\ LoginInv(q) /\ RefreshInv(q) /\ OthersInv(q)
  BY <1>1 DEF RegisterInv, LoginInv, RefreshInv, OthersInv, Asking
<1>3. RegisterInv(q)' /\ LoginInv(q)' /\ RefreshInv(q)' /\ OthersInv(q)'
  BY <1>1 DEF RegisterInv, LoginInv, RefreshInv, OthersInv, Asking
<1>4. QED
  BY <1>2, <1>3 DEF ReqInv

LEMMA CollectStep ==
    ASSUME IInv, NEW r \in Requests, Collect(r)
    PROVE  IInv'
<1>1. Become(r, Idle) /\ UNCHANGED <<server, users, connections, issued, now, calls>>
  BY DEF Collect
<1>2. Tables /\ Accounts /\ req[r].at # "querying"
  BY Facts DEF Collect
<1>4. PICK q \in Request : q = Idle
  BY IdleType
<1>5. /\ q.at = "idle" /\ q.call = "none" /\ q.code = "none" /\ q.token = None
      /\ Become(r, q)
  BY <1>1, <1>4 DEF Idle
<1>6. ReqInv(q)'
  BY <1>5, BlankInv DEF Quiet
<1>7. Pool'
  BY <1>1, <1>2, <1>5, PoolKept
<1>8. Tables' /\ Accounts' /\ Growth
  BY <1>1, <1>2 DEF Tables, Accounts, Growth, server
<1>9. UNCHANGED server /\ (\A u \in users' \ users : req[r].call = "Register" /\ u.id = req[r].user)
  BY <1>1
<1>10. q.at \in Quiet /\ q.call # "Register"
  BY <1>5 DEF Quiet
<1>11. QED
  BY <1>5, <1>6, <1>7, <1>8, <1>9, <1>10, MoveStep

\* The state a call enters in.
Entered(c, e, w, t, known) ==
    [Idle EXCEPT !.call = c, !.email = e, !.password = w, !.token = t,
        !.at = IF c \in mux THEN Entrance(c) ELSE "answered",
        !.code = IF c \in mux THEN "none" ELSE "NotFound",
        !.user = IF c = "Register" THEN calls + 1 ELSE 0,
        !.known = known]

LEMMA EnterStep ==
    ASSUME IInv, NEW r \in Requests, listening, req[r].at = "idle", calls < MaxCalls,
           calls' = calls + 1, UNCHANGED <<server, users, connections, issued, now>>,
           NEW c \in Called, NEW e \in Emails \cup {None}, NEW w \in Passwords \cup {None},
           NEW t \in issued \cup {None}, NEW known \in BOOLEAN,
           known => c = "Login" /\ \E u \in users : u.email = e /\ u.password = w,
           Become(r, Entered(c, e, w, t, known))
    PROVE  IInv'
<1> DEFINE at   == IF c \in mux THEN Entrance(c) ELSE "answered"
           code == IF c \in mux THEN "none" ELSE "NotFound"
           user == IF c = "Register" THEN calls + 1 ELSE 0
<1>1. Tables /\ Accounts
  BY Facts
<1>2. /\ at \in {"handler", "received", "answered"}
      /\ at = "handler" => c \in publicProcedures
      /\ at = "received" => c \notin publicProcedures
      /\ at = "answered" => c \notin publicProcedures
      /\ at = "answered" => code = "NotFound"
      /\ at # "answered" => code = "none"
      /\ code \in {"none", "NotFound"}
  BY DEF Entrance, mux, AuthServiceHandler, publicProcedures
<1>3. user \in 0..MaxCalls /\ (c = "Register" => user = calls + 1)
  BY <1>1, ConstantsAssumption DEF Tables, ConstantsAssumption
<1>4. t \in Claims \cup {None}
  BY <1>1 DEF Tables
<1> HIDE DEF at, code, user
<1>5. Idle \in Request
  BY IdleType
<1>6. [Idle EXCEPT !.call = c, !.email = e, !.password = w, !.token = t, !.at = at,
                   !.code = code, !.user = user, !.known = known] \in Request
  BY ZenonT(60), <1>2, <1>3, <1>4, <1>5 DEF Request, Codes
<1>7. PICK q \in Request :
          q = [Idle EXCEPT !.call = c, !.email = e, !.password = w, !.token = t, !.at = at,
                           !.code = code, !.user = user, !.known = known]
  BY <1>6
<1>8. /\ q.at = at /\ q.code = code /\ q.call = c /\ q.email = e /\ q.password = w
      /\ q.token = t /\ q.user = user
  BY <1>5, <1>7 DEF Request
<1>9. q.known = known
  BY <1>5, <1>7 DEF Request
<1>10. Become(r, q)
  BY <1>7 DEF Entered, at, code, user
<1>11. Tables'
  BY <1>1, ConstantsAssumption DEF Tables, ConstantsAssumption
<1>12. Growth
  BY <1>1 DEF Growth, Tables, server
<1>13. Accounts'
  <2>1. \A u \in users : u.id \in Nat /\ u.id <= calls + 1
    BY <1>1 DEF Accounts, Tables, User
  <2>2. QED
    BY <1>1, <2>1 DEF Accounts
<1>14. c = "Register" => \A u \in users : u.id # user
  BY <1>1, <1>3 DEF Accounts, Tables, User
<1>15. c = "Register" => user \in 1..calls'
  BY <1>1, <1>3 DEF Tables
<1>16. RegisterInv(q)'
  BY <1>2, <1>8, <1>14, <1>15 DEF RegisterInv, publicProcedures
<1>17. LoginInv(q)'
  BY <1>2, <1>8, <1>9 DEF LoginInv, publicProcedures
<1>18. RefreshInv(q)'
  BY <1>2, <1>8 DEF RefreshInv, publicProcedures
<1>19. OthersInv(q)'
  BY <1>2, <1>8 DEF OthersInv, Asking, Quiet
<1>20. Pool'
  BY <1>10, PoolKept
<1>21. q.call = "Register" => \A s \in Requests \ {r} :
           req[s].call = "Register" => req[s].user # q.user
  <2>1. \A s \in Requests : req[s].call = "Register" => req[s].user \in 1..calls
    BY Facts DEF ReqInv, RegisterInv
  <2>2. QED
    BY <1>1, <1>3, <1>8, <2>1 DEF Tables
<1>22. UNCHANGED server /\ (\A u \in users' \ users : req[r].call = "Register" /\ u.id = req[r].user)
  OBVIOUS
<1>23. QED
  BY <1>10, <1>11, <1>12, <1>13, <1>16, <1>17, <1>18, <1>19, <1>20, <1>21, <1>22, MoveStep
     DEF ReqInv

LEMMA CallEnters ==
    ASSUME NEW r \in Requests, Call(r)
    PROVE  \E c \in Called, e \in Emails \cup {None}, w \in Passwords \cup {None},
              t \in issued \cup {None}, known \in BOOLEAN :
              /\ known => c = "Login" /\ \E u \in users : u.email = e /\ u.password = w
              /\ Become(r, Entered(c, e, w, t, known))
<1>1. PICK c \in Called, e \in Emails \cup {None}, w \in Passwords \cup {None},
           t \in issued \cup {None} :
         Become(r, [Idle EXCEPT !.call = c, !.email = e, !.password = w, !.token = t,
               !.at = IF c \in mux THEN Entrance(c) ELSE "answered",
               !.code = IF c \in mux THEN "none" ELSE "NotFound",
               !.user = IF c = "Register" THEN calls + 1 ELSE 0,
               !.known = c = "Login" /\ \E u \in users : u.email = e /\ u.password = w])
  BY ZenonT(60) DEF Call
<1>2. PICK known \in BOOLEAN :
          known = (c = "Login" /\ \E u \in users : u.email = e /\ u.password = w)
  OBVIOUS
<1>3. known => c = "Login" /\ \E u \in users : u.email = e /\ u.password = w
  BY <1>2
<1>4. Become(r, Entered(c, e, w, t, known))
  BY <1>1, <1>2 DEF Entered
<1>5. QED
  BY <1>3, <1>4

LEMMA CallStep ==
    ASSUME IInv, NEW r \in Requests, Call(r)
    PROVE  IInv'
<1>1. PICK c \in Called, e \in Emails \cup {None}, w \in Passwords \cup {None},
           t \in issued \cup {None}, known \in BOOLEAN :
         /\ known => c = "Login" /\ \E u \in users : u.email = e /\ u.password = w
         /\ Become(r, Entered(c, e, w, t, known))
  BY CallEnters
<1>2. /\ listening /\ req[r].at = "idle" /\ calls < MaxCalls /\ calls' = calls + 1
      /\ UNCHANGED <<server, users, connections, issued, now>>
  BY DEF Call
<1>3. QED
  BY <1>1, <1>2, EnterStep

-----------------------------------------------------------------------------
(* The process *)

\* Nobody is served when the process ends.
LEMMA ExitStep ==
    ASSUME IInv, Exit
    PROVE  IInv'
<1>1. \A r \in Requests : req'[r] \in {Idle, [Idle EXCEPT !.at = "lost"]}
  BY DEF Exit
<1>2. \A r \in Requests : req'[r] \in Request /\ ReqInv(req[r])'
  <2> TAKE r \in Requests
  <2>1. req'[r] \in Request
    BY <1>1, IdleType DEF Request
  <2>2. PICK q \in Request : q = req'[r]
    BY <2>1
  <2>3. q.at \in Quiet /\ q.call = "none" /\ q.code = "none" /\ q.token = None
    BY <1>1, <2>2 DEF Idle, Quiet
  <2>4. ReqInv(q)'
    BY <2>3, BlankInv
  <2>5. QED
    BY <2>1, <2>2, <2>4 DEF ReqInv, RegisterInv, LoginInv, RefreshInv, OthersInv, Row, Named, Asking
<1>3. \A r \in Requests : req'[r].at \in Quiet /\ req'[r].call = "none"
  BY <1>1 DEF Idle, Quiet
<1>4. req' \in [Requests -> Request]
  BY <1>2 DEF Exit
<1>5. /\ process' = "exited" /\ listening' = FALSE /\ connections' = {}
      /\ UNCHANGED <<secret, users, issued, now, calls, starts>>
  BY DEF Exit
<1>6. Types' /\ Tables' /\ Accounts'
  BY <1>5 DEF IInv, Types, Tables, Accounts
<1>7. Pool'
  BY <1>5, FS_EmptySet, ConstantsAssumption DEF Pool, ConstantsAssumption
<1>8. DistinctNumbers' /\ Silent' /\ StageInv'
  BY <1>3, <1>5 DEF DistinctNumbers, Silent, StageInv
<1>9. QED
  BY <1>2, <1>4, <1>6, <1>7, <1>8 DEF IInv

\* The process goes on to a stage in which it serves who it served.
LEMMA StageStep ==
    ASSUME IInv, Types', StageInv', UNCHANGED <<users, connections, req, issued, now, calls>>,
           secret' = secret \/ ~listening, listening => listening'
    PROVE  IInv'
<1>1. Tables' /\ Accounts' /\ Pool' /\ DistinctNumbers' /\ Silent'
  BY DEF IInv, Tables, Accounts, Pool, DistinctNumbers, Silent
<1>2. ASSUME NEW r \in Requests PROVE ReqInv(req[r])'
  <2>1. ReqInv(req[r])
    BY Facts
  <2>2. RegisterInv(req[r])' /\ LoginInv(req[r])' /\ OthersInv(req[r])'
    BY <2>1 DEF ReqInv, RegisterInv, LoginInv, OthersInv, Row, Named, Asking
  <2>3. RefreshInv(req[r])'
    <3>1. CASE secret' = secret
      BY <2>1, <3>1 DEF ReqInv, RefreshInv
    <3>2. CASE ~listening
      BY <2>1, <3>2, Facts DEF ReqInv, RefreshInv, Quiet
    <3>3. QED
      BY <3>1, <3>2
  <2>4. QED
    BY <2>2, <2>3 DEF ReqInv
<1>3. req' \in [Requests -> Request]
  BY DEF IInv
<1>4. QED
  BY <1>1, <1>2, <1>3 DEF IInv

LEMMA ProcessStep ==
    ASSUME IInv, Load \/ NewServer \/ Start \/ Die \/ Signal \/ Shutdown \/ Restart
    PROVE  IInv'
<1> USE DEF Types, StageInv
<1>1. Types /\ StageInv
  BY DEF IInv
<1>2. CASE Load
  <2>1. CASE Exit
    BY <2>1, ExitStep
  <2>2. CASE ~Exit
    <3>1. PICK env \in Secrets \cup {None} : secret' = overrideFromEnv(env)
      BY <1>2, <2>2 DEF Load
    <3>2. secret' \in Secrets
      BY <3>1, ConstantsAssumption DEF overrideFromEnv, ConstantsAssumption
    <3>3. QED
      BY <1>1, <1>2, <2>2, <3>2, StageStep DEF Load
  <2>3. QED
    BY <2>1, <2>2
<1>3. CASE NewServer
  BY <1>1, <1>3, ExitStep, StageStep DEF NewServer
<1>4. CASE Start
  BY <1>1, <1>4, ExitStep, StageStep DEF Start
<1>5. CASE Signal
  BY <1>1, <1>5, ExitStep, StageStep DEF Signal
<1>6. CASE Shutdown \/ Die
  BY <1>6, ExitStep DEF Shutdown, Die
<1>7. CASE Restart
  <2>1. starts' \in 0..MaxStarts
    BY <1>1, <1>7, ConstantsAssumption DEF Restart, ConstantsAssumption
  <2>2. QED
    BY <1>1, <1>7, <2>1, StageStep DEF Restart
<1>8. QED
  BY <1>2, <1>3, <1>4, <1>5, <1>6, <1>7

LEMMA TickStep ==
    ASSUME IInv, Tick
    PROVE  IInv'
<1>1. /\ now < MaxTime /\ now' = now + 1 /\ Tables
      /\ UNCHANGED <<server, users, connections, req, issued, calls>>
  BY DEF Tick, IInv
<1>2. Tables'
  BY <1>1, ConstantsAssumption DEF Tables, ConstantsAssumption
<1>3. Growth
  BY <1>1 DEF Growth, Tables, server
<1>4. ASSUME NEW r \in Requests PROVE ReqInv(req[r])'
  <2>1. PICK q \in Request : q = req[r]
    BY Facts
  <2>2. ReqInv(q) /\ (q.token # None => q.token \in Claims) /\ users' = users
    BY <1>1, <2>1, Facts
  <2>3. ReqInv(q)'
    BY <1>1, <1>2, <1>3, <2>2, Frame
  <2>4. req'[r] = q
    BY <1>1, <2>1
  <2>5. QED
    BY <2>3, <2>4 DEF ReqInv, RegisterInv, LoginInv, RefreshInv, OthersInv, Row, Named, Asking
<1>5. Types' /\ Accounts' /\ Pool' /\ DistinctNumbers' /\ Silent' /\ StageInv'
  BY <1>1 DEF IInv, Types, Accounts, Pool, DistinctNumbers, Silent, StageInv, server
<1>6. req' \in [Requests -> Request]
  BY <1>1 DEF IInv
<1>7. QED
  BY <1>2, <1>4, <1>5, <1>6 DEF IInv

LEMMA StutterStep ==
    ASSUME IInv, UNCHANGED vars
    PROVE  IInv'
BY DEF IInv, vars, server, Types, Tables, Accounts, Pool, DistinctNumbers, Silent, StageInv,
   ReqInv, RegisterInv, LoginInv, RefreshInv, OthersInv, Row, Named, Asking

-----------------------------------------------------------------------------
(* The theorems *)

LEMMA InitInv == Init => IInv
<1> SUFFICES ASSUME Init PROVE IInv
  OBVIOUS
<1>1. Idle \in Request /\ ReqInv(Idle)
  BY IdleType, BlankInv DEF Idle, Quiet
<1>2. req \in [Requests -> Request] /\ \A r \in Requests : ReqInv(req[r]) /\ req[r] = Idle
  BY <1>1 DEF Init
<1>3. Types /\ Tables
  <2>1. 0 \in 0..MaxTime /\ 0 \in 0..MaxCalls /\ 1 \in 0..MaxStarts /\ FileSecret \in Secrets
    BY ConstantsAssumption DEF ConstantsAssumption
  <2>2. QED
    BY <2>1 DEF Init, Types, Tables
<1>4. Pool
  BY FS_EmptySet, ConstantsAssumption DEF Init, Pool, ConstantsAssumption
<1>5. DistinctNumbers /\ Silent /\ StageInv
  BY <1>2 DEF Init, DistinctNumbers, Silent, StageInv, Idle, Quiet
<1>6. Accounts
  BY DEF Init, Accounts
<1>7. QED
  BY <1>2, <1>3, <1>4, <1>5, <1>6 DEF IInv

LEMMA NextInv ==
    ASSUME IInv, [Next]_vars
    PROVE  IInv'
<1>1. ASSUME NEW r \in Requests, Work(r) PROVE IInv'
  BY <1>1, AuthInterceptorStep, RegisterStep, LoginStep, RefreshTokenStep, OtherServiceStep,
     AcquireStep, QueryStep, SignStep DEF Work
<1>2. ASSUME NEW r \in Requests, Call(r) \/ Collect(r) PROVE IInv'
  BY <1>2, CallStep, CollectStep
<1>3. QED
  BY <1>1, <1>2, ProcessStep, TickStep, StutterStep DEF Next

LEMMA Invariance == Spec => []IInv
BY InitInv, NextInv, PTL DEF Spec

\* The process and authentication keep their types, whatever they are called
\* with; no more than PoolSize statements run, each in a connection of its own.
THEOREM TypeCorrect == Spec => []TypeOK
<1>1. IInv => TypeOK
  BY DEF IInv, Types, Tables, Pool, TypeOK
<1>2. QED
  BY <1>1, Invariance, PTL

\* Racing registrations of one email, with a process that may end between any
\* two of their steps and acknowledgements that are lost, make one account, and
\* every answer is true.
THEOREM AccountsAnswered == Spec => []RegisterAnswered
<1>1. IInv => RegisterAnswered
  BY DEF IInv, Accounts, ReqInv, RegisterInv, Row, RegisterAnswered
<1>2. QED
  BY <1>1, Invariance, PTL

\* Every token names an account; a known password is refused only when a
\* statement failed, and a refresh token only when it is out of time or of
\* another key; none but a token of this key is refreshed.
THEOREM SessionsAnswered == Spec => []SessionAnswered
<1>1. IInv => SessionAnswered
  BY DEF IInv, Accounts, ReqInv, LoginInv, RefreshInv, OthersInv, Named, SessionAnswered
<1>2. QED
  BY <1>1, Invariance, PTL

-----------------------------------------------------------------------------
(* What the end of every call rests on *)

\* Who runs a statement has a connection, and nobody else has one.
Lent == connections = {r \in Requests : req[r].at = "querying"}

\* How many steps an activation has still to go, at most.
StepsLeft(q) ==
    CASE q.at = "received" -> 2 * MaxStatements + 5
      [] q.at = "handler"  -> 2 * MaxStatements + 4
      [] q.at = "waiting"  -> 2 * q.left + 3
      [] q.at = "querying" -> 2 * q.left + 2
      [] q.at = "signing"  -> 1
      [] OTHER             -> 0

Busy(q) == q.at \in {"received", "handler", "waiting", "querying", "signing"}

\* What an activation waits for at each of its stages, but for the scheduler.
Ready(r) ==
    \/ req[r].at \in {"received", "handler", "querying", "signing"}
    \/ req[r].at = "waiting" /\ process = "running" /\ Cardinality(connections) < PoolSize
    \/ req[r].at = "waiting" /\ process = "closing"

\* No activation waits for a connection unless another one is about to give one
\* back: the pool deadlocks nobody.
PoolServes ==
    \A r \in Requests : Busy(req[r]) => Ready(r) \/ \E s \in Requests : req[s].at = "querying"

\* A call in service only moves towards its end.
CallMoves ==
    \A r \in Requests : Busy(req[r]) /\ req'[r] # req[r] =>
        /\ {StepsLeft(req[r]), StepsLeft(req'[r])} \subseteq Nat
        /\ StepsLeft(req'[r]) < StepsLeft(req[r])

LEMMA StepsFacts ==
    ASSUME NEW q \in Request
    PROVE  /\ MaxStatements \in Nat /\ q.left \in 0..MaxStatements
           /\ q.at = "received" => StepsLeft(q) = 2 * MaxStatements + 5
           /\ q.at = "handler" => StepsLeft(q) = 2 * MaxStatements + 4
           /\ q.at = "waiting" => StepsLeft(q) = 2 * q.left + 3
           /\ q.at = "querying" => StepsLeft(q) = 2 * q.left + 2
           /\ q.at = "signing" => StepsLeft(q) = 1
           /\ q.at \in {"idle", "answered", "lost"} => StepsLeft(q) = 0
<1>1. MaxStatements \in Nat /\ q.left \in 0..MaxStatements
  BY ConstantsAssumption DEF ConstantsAssumption, Request
<1>2. QED
  BY <1>1 DEF StepsLeft

\* One activation makes a step that leaves it fewer, and has a connection
\* afterwards if it runs a statement then.
Nearer(r) ==
    /\ \A s \in Requests \ {r} : req'[s] = req[s]
    /\ StepsLeft(req'[r]) < StepsLeft(req[r])
    /\ IF req'[r].at = "querying" THEN connections' = connections \cup {r}
       ELSE connections' = connections \ {r}

LEMMA Becomes ==
    ASSUME IInv, NEW r \in Requests, NEW q, Become(r, q)
    PROVE  req'[r] = q /\ \A s \in Requests \ {r} : req'[s] = req[s]
BY DEF IInv, Become

\* An activation that has no connection takes none.
LEMMA KeptNearer ==
    ASSUME IInv, NEW r \in Requests, NEW q \in Request, Become(r, q), UNCHANGED connections,
           req[r].at # "querying", q.at # "querying", StepsLeft(q) < StepsLeft(req[r])
    PROVE  Nearer(r)
<1>1. r \notin connections
  BY DEF IInv, Pool
<1>2. QED
  BY <1>1, Becomes DEF Nearer

\* An answer, or the signing of one, comes after every other step.
LEMMA LateNearer ==
    ASSUME NEW p \in Request, NEW q \in Request,
           \/ p.at \in {"received", "handler", "waiting", "querying"}
              /\ q.at \in {"answered", "signing"}
           \/ p.at = "signing" /\ q.at = "answered"
           \/ p.at = "received" /\ q.at = "handler"
           \/ p.at = "handler" /\ q.at = "waiting"
           \/ p.at = "waiting" /\ q.at = "querying" /\ q.left = p.left
           \/ p.at = "querying" /\ q.at = "waiting" /\ p.left # 0 /\ q.left = p.left - 1
    PROVE  StepsLeft(q) < StepsLeft(p)
<1>1. /\ MaxStatements \in Nat /\ p.left \in 0..MaxStatements /\ q.left \in 0..MaxStatements
  BY StepsFacts
<1> DEFINE S(x) == StepsLeft(x)
<1>2. /\ p.at = "received" => S(p) = 2 * MaxStatements + 5
      /\ p.at = "handler" => S(p) = 2 * MaxStatements + 4
      /\ p.at = "waiting" => S(p) = 2 * p.left + 3
      /\ p.at = "querying" => S(p) = 2 * p.left + 2
      /\ p.at = "signing" => S(p) = 1
  BY StepsFacts
<1>3. /\ q.at = "handler" => S(q) = 2 * MaxStatements + 4
      /\ q.at = "waiting" => S(q) = 2 * q.left + 3
      /\ q.at = "querying" => S(q) = 2 * q.left + 2
      /\ q.at = "signing" => S(q) = 1
      /\ q.at = "answered" => S(q) = 0
  BY StepsFacts
<1> HIDE DEF S
<1>4. S(q) < S(p)
  BY <1>1, <1>2, <1>3
<1>5. QED
  BY <1>4 DEF S

LEMMA ServiceNearer ==
    ASSUME IInv, IInv', NEW r \in Requests,
           AuthInterceptor(r) \/ Register(r) \/ Login(r) \/ RefreshToken(r) \/ OtherService(r)
           \/ Sign(r)
    PROVE  Nearer(r)
<1>1. req[r] \in Request /\ req'[r] \in Request
  BY DEF IInv
<1>2. PICK q : Become(r, q)
  BY DEF AuthInterceptor, Register, Login, RefreshToken, OtherService, Sign, Reply, Goto
<1>3. req'[r] = q /\ UNCHANGED connections
  BY <1>2, Becomes
     DEF AuthInterceptor, Register, Login, RefreshToken, OtherService, Sign
<1>4. /\ req[r].at \in {"received", "handler", "signing"}
      /\ req[r].at = "signing" => q.at = "answered"
      /\ req[r].at = "received" => q.at \in {"answered", "handler"}
      /\ req[r].at = "handler" => q.at \in {"answered", "signing", "waiting"}
  <2>1. \A p : Become(r, p) => q = p
    BY <1>3, Becomes
  <2>2. QED
    BY <1>1, <2>1 DEF AuthInterceptor, Register, Login, RefreshToken, OtherService, Sign, Reply,
       Goto, Request
<1>5. StepsLeft(q) < StepsLeft(req[r])
  BY <1>1, <1>3, <1>4, LateNearer
<1>6. QED
  BY <1>1, <1>2, <1>3, <1>4, <1>5, KeptNearer

LEMMA AcquireNearer ==
    ASSUME IInv, IInv', NEW r \in Requests, Acquire(r)
    PROVE  Nearer(r)
<1>1. req[r] \in Request /\ req'[r] \in Request /\ req[r].at = "waiting"
  BY DEF IInv, Acquire
<1>2. CASE connections' = connections \cup {r} /\ Goto(r, "querying")
  <2>1. req'[r] = [req[r] EXCEPT !.at = "querying"]
    BY <1>2, Becomes DEF Goto
  <2>2. req'[r].at = "querying" /\ req'[r].left = req[r].left
    BY <1>1, <2>1 DEF Request
  <2>3. StepsLeft(req'[r]) < StepsLeft(req[r])
    BY <1>1, <2>2, LateNearer
  <2>4. QED
    BY <1>2, <2>2, <2>3, Becomes DEF Goto, Nearer
<1>3. CASE StatementFailed(r) /\ UNCHANGED connections
  <2>1. PICK q : Become(r, q)
    BY <1>3 DEF StatementFailed
  <2>2. req'[r] = q /\ \A p : Become(r, p) => q = p
    BY <2>1, Becomes
  <2>3. q.at = "answered"
    <3>1. PICK code : Become(r, [req[r] EXCEPT !.at = "answered", !.broken = TRUE, !.code = code])
      BY <1>3 DEF StatementFailed
    <3>2. q = [req[r] EXCEPT !.at = "answered", !.broken = TRUE, !.code = code]
      BY <2>2, <3>1
    <3>3. QED
      BY <1>1, <3>2 DEF Request
  <2>4. StepsLeft(q) < StepsLeft(req[r])
    BY <1>1, <2>2, <2>3, LateNearer
  <2>5. QED
    BY <1>1, <1>3, <2>1, <2>2, <2>3, <2>4, KeptNearer
<1>4. QED
  BY <1>2, <1>3 DEF Acquire

LEMMA QueryNearer ==
    ASSUME IInv, IInv', NEW r \in Requests, Query(r)
    PROVE  Nearer(r)
<1>1. req[r] \in Request /\ req'[r] \in Request /\ ReqInv(req[r]) /\ req[r].at = "querying"
  BY Facts DEF IInv, Query
<1>2. connections' = connections \ {r}
  BY DEF Query, Release
<1>3. PICK q : Become(r, q)
  BY DEF Query, CreateUser, CreateUnheard, FindAndVerify, NextStatement, StatementFailed, Reply, Goto
<1>4. req'[r] = q
  BY <1>3, Becomes
<1>5. \A p : Become(r, p) => q = p
  BY <1>4, Becomes
<1>6. \/ q.at \in {"answered", "signing"}
      \/ q.at = "waiting" /\ req[r].left # 0 /\ q.left = req[r].left - 1
  <2>1. CASE StatementFailed(r)
    <3>1. PICK code : Become(r, [req[r] EXCEPT !.at = "answered", !.broken = TRUE, !.code = code])
      BY <2>1 DEF StatementFailed
    <3>2. q = [req[r] EXCEPT !.at = "answered", !.broken = TRUE, !.code = code]
      BY <1>5, <3>1
    <3>3. QED
      BY <1>1, <3>2 DEF Request
  <2>2. CASE CreateUser(r)
    BY <1>1, <1>5, <2>2 DEF CreateUser, Reply, Goto, Request
  <2>3. CASE FindAndVerify(r)
    BY <1>1, <1>5, <2>3 DEF FindAndVerify, Reply, Request
  <2>4. CASE req[r].call \notin publicProcedures /\ NextStatement(r)
    <3>1. req[r].left # 0
      BY <1>1, <2>4 DEF ReqInv, OthersInv, Asking
    <3>2. QED
      BY <1>1, <1>5, <2>4, <3>1 DEF NextStatement, Reply, Request
  <2>5. QED
    BY <2>1, <2>2, <2>3, <2>4 DEF Query, CreateUnheard
<1>7. StepsLeft(q) < StepsLeft(req[r])
  BY <1>1, <1>4, <1>6, LateNearer
<1>8. q.at # "querying"
  BY <1>6
<1>9. QED
  BY <1>2, <1>3, <1>4, <1>7, <1>8, Becomes DEF Nearer

LEMMA WorkNearer ==
    ASSUME IInv, IInv', NEW r \in Requests, Work(r)
    PROVE  Nearer(r)
BY ServiceNearer, AcquireNearer, QueryNearer DEF Work

\* A new call, or one that is collected, was not in service and has no
\* connection; and what the process does leaves the calls alone or ends them all.
LEMMA OutsideFacts ==
    ASSUME IInv, [Next]_vars, \A r \in Requests : ~Work(r)
    PROVE  \/ UNCHANGED <<req, connections>>
           \/ /\ UNCHANGED connections
              /\ \E r \in Requests :
                    /\ ~Busy(req[r]) /\ req'[r].at # "querying"
                    /\ \A s \in Requests \ {r} : req'[s] = req[s]
           \/ connections' = {} /\ \A r \in Requests : req'[r].at \in Quiet
<1>1. CASE Exit
  BY <1>1 DEF Exit, Idle, Quiet
<1>2. CASE \E r \in Requests : Call(r) \/ Collect(r)
  <2>1. PICK r \in Requests : Call(r) \/ Collect(r)
    BY <1>2
  <2>2. UNCHANGED connections /\ ~Busy(req[r])
    BY <2>1 DEF Call, Collect, Busy
  <2>3. PICK q : Become(r, q)
    <3>1. CASE Collect(r)
      BY <3>1 DEF Collect
    <3>2. CASE Call(r)
      BY <3>2, CallEnters
    <3>3. QED
      BY <2>1, <3>1, <3>2
  <2>4. req'[r] = q /\ (\A s \in Requests \ {r} : req'[s] = req[s])
        /\ \A p : Become(r, p) => q = p
    BY <2>3, Becomes
  <2>5. q.at # "querying"
    <3>1. CASE Collect(r)
      BY <2>4, <3>1 DEF Collect, Idle
    <3>2. CASE Call(r)
      <4>1. PICK c, e, w, t, known : Become(r, Entered(c, e, w, t, known))
        BY <3>2, CallEnters
      <4>2. q = Entered(c, e, w, t, known)
        BY <2>4, <4>1
      <4>3. QED
        BY <4>2 DEF Entered, Idle, Entrance
    <3>3. QED
      BY <2>1, <3>1, <3>2
  <2>6. QED
    BY <2>2, <2>4, <2>5
<1>3. CASE UNCHANGED <<req, connections>>
  BY <1>3
<1>4. QED
  BY <1>1, <1>2, <1>3
     DEF Next, Load, NewServer, Start, Die, Signal, Shutdown, Restart, Tick, vars

LEMMA LentInv ==
    ASSUME IInv, Lent, [Next]_vars
    PROVE  Lent'
<1>1. IInv'
  BY NextInv
<1>2. ASSUME NEW r \in Requests, Work(r) PROVE Lent'
  BY <1>1, <1>2, WorkNearer DEF Lent, Nearer
<1>3. CASE \A r \in Requests : ~Work(r)
  BY <1>3, OutsideFacts DEF Lent, Busy, Quiet
<1>4. QED
  BY <1>2, <1>3

\* Exactly the statements that run have a connection each, and whoever waits
\* for one waits for nobody else who waits: the pool, however small, cannot
\* leave calls waiting for each other.  With CallsMove it is what RequestsEnd
\* and ShutdownEnds rest on.
THEOREM PoolServesAll == Spec => [](Lent /\ PoolServes)
<1>1. Init => Lent
  BY DEF Init, Lent, Idle
<1>2. Spec => []Lent
  BY <1>1, LentInv, Invariance, PTL DEF Spec
<1>3. IInv => PoolServes
  <2> SUFFICES ASSUME IInv, NEW r \in Requests, Busy(req[r]), req[r].at = "waiting",
                      process = "running", ~(Cardinality(connections) < PoolSize)
               PROVE  \E s \in Requests : req[s].at = "querying"
    BY DEF PoolServes, Ready, Busy, IInv, Silent, StageInv, Types, Quiet
  <2>1. connections # {}
    BY FS_EmptySet, ConstantsAssumption DEF ConstantsAssumption
  <2>2. QED
    BY <2>1 DEF IInv, Pool
<1>4. QED
  BY <1>2, <1>3, Invariance, PTL

\* A call in service makes no step but one that leaves it fewer to go, and
\* nobody else touches it but the end of the process.
THEOREM CallsMove == Spec => [][CallMoves]_vars
<1>1. ASSUME IInv, [Next]_vars, NEW r \in Requests, Busy(req[r]), req'[r] # req[r]
      PROVE  /\ {StepsLeft(req[r]), StepsLeft(req'[r])} \subseteq Nat
             /\ StepsLeft(req'[r]) < StepsLeft(req[r])
  <2>1. IInv' /\ req[r] \in Request
    BY <1>1, NextInv DEF IInv
  <2>2. req'[r] \in Request
    BY <2>1 DEF IInv
  <2>3. \A p \in Request : StepsLeft(p) \in Nat
    <3>1. ASSUME NEW p \in Request PROVE StepsLeft(p) \in Nat
      BY StepsFacts DEF Request
    <3>2. QED
      BY <3>1
  <2>4. ASSUME NEW s \in Requests, Work(s)
        PROVE  StepsLeft(req'[r]) < StepsLeft(req[r])
    BY <1>1, <2>1, <2>4, WorkNearer DEF Nearer
  <2>5. CASE \A s \in Requests : ~Work(s)
    <3>1. req'[r].at \in Quiet
      BY <1>1, <2>5, OutsideFacts
    <3>2. StepsLeft(req'[r]) = 0
      BY <2>2, <3>1, StepsFacts DEF Quiet
    <3>3. StepsLeft(req[r]) # 0 /\ StepsLeft(req[r]) \in Nat
      BY <1>1, <2>1, <2>3, StepsFacts DEF Busy
    <3>4. QED
      BY <3>2, <3>3
  <2>6. QED
    BY <2>1, <2>2, <2>3, <2>4, <2>5
<1>2. IInv /\ [Next]_vars => [CallMoves]_vars
  BY <1>1 DEF CallMoves
<1>3. QED
  BY <1>2, Invariance, PTL DEF Spec

=============================================================================
