------------------------------- MODULE Books -------------------------------
(***************************************************************************)
(* The backend's transaction, category and dashboard services with their   *)
(* handlers and repositories, and what the sync service writes into the    *)
(* same tables: requests that run at the same time, each repository call a *)
(* statement that commits alone, while families change as Roles says.      *)
(*                                                                         *)
(* Of a transaction only its owner and its category are kept, of a         *)
(* category its scope.  What a request is refused for by its input alone,  *)
(* and the CHECK of the type column, which an Update without a type runs   *)
(* into, are StatementFails.  Listing has the content of lists and totals, *)
(* SyncServer the log and the checkpoints of Sync.                         *)
(***************************************************************************)
EXTENDS Integers

CONSTANTS
    Requests,      \* concurrent handler activations
    Users,
    Families,
    Categories,    \* category ids
    Seeded,        \* the categories of migration 6
    Transactions,  \* transaction ids
    None,          \* no user, family, category or transaction
    MaxAsked       \* bound: requests, and changes of Sync requests, received

ASSUME ConstantsAssumption ==
    /\ None \notin Users \cup Families \cup Categories \cup Transactions
    /\ Seeded \subseteq Categories
    /\ MaxAsked \in Nat

VARIABLES
    owner, role,   \* the families, as Roles describes them
    transactions,
    categories,
    req,           \* locals and program counter of each activation
    asked,         \* requests and changes received so far
    entitled       \* history: requests whose user was entitled to what they
                   \* ask for at some moment since they came in

tables == <<transactions, categories>>
vars   == <<owner, role, tables, req, asked, entitled>>

Family == INSTANCE Roles

-----------------------------------------------------------------------------
Transaction == [state : {"none", "live", "deleted"}, creator : Users \cup {None},
                family : Families \cup {None}, category : Categories \cup {None}]
Scopes      == {"system", "personal", "family"}
Category    == [state : {"none", "live", "gone"}, scope : Scopes]

NoTransaction == [state |-> "none", creator |-> None, family |-> None, category |-> None]
NoCategory    == [state |-> "none", scope |-> "personal"]
SeedCategory  == [state |-> "live", scope |-> "system"]

Operations == {"Create", "Get", "Update", "Delete", "List", "CreatePersonal", "CreateFamily",
               "GetCategory", "UpdateCategory", "DeleteCategory",
               "ListCategories", "SyncFamily", "SyncPersonal"}
Syncs      == {"SyncFamily", "SyncPersonal"}
\* at: the repository call that comes next; "Change" is the find that Sync
\* starts its next change with.
Running == {"FindTransaction", "FindCategory", "FindUser", "IsMember", "FindFamily",
            "ListMembers", "Create", "Update", "SoftDelete", "CreateCategory",
            "UpdateCategory", "DeleteCategory", "Change", "Fetch"}
Request == [at : Running \cup {"idle", "answered", "refused"},
            op : Operations \cup {"none"}, user : Users \cup {None},
            family : Families \cup {None}, category : Categories \cup {None},
            tx : Transactions \cup {None}]

Idle == [at |-> "idle", op |-> "none", user |-> None, family |-> None,
         category |-> None, tx |-> None]

Init ==
    /\ Family!Init
    /\ transactions = [t \in Transactions |-> NoTransaction]
    /\ categories = [c \in Categories |-> IF c \in Seeded THEN SeedCategory ELSE NoCategory]
    /\ req = [r \in Requests |-> Idle]
    /\ asked = 0
    /\ entitled = {}

Become(r, state) == req' = [req EXCEPT ![r] = state]
\* An error ends the request: nothing of it is looked at again.
Refuse(r)        == Become(r, [Idle EXCEPT !.at = "refused"])
\* Nor is what a request or a change was made with, once that is done.
Goto(r, at) ==
    CASE at = "refused"  -> Refuse(r)
      [] at = "answered" -> Become(r, [req[r] EXCEPT !.at = at, !.user = None,
                                                     !.category = None])
      [] at = "Change"   -> Become(r, [req[r] EXCEPT !.at = at, !.tx = None,
                                                     !.category = None])
      [] OTHER           -> Become(r, [req[r] EXCEPT !.at = at])

Member(f, u)  == role[f][u] # "none"
Manager(f, u) == owner[f] = u \/ role[f][u] \in {"admin", "owner"}

-----------------------------------------------------------------------------
(* The repositories; then: where the request is after a statement that did *)
(* what it was for                                                         *)

\* The row's id is new, and the foreign key wants the category to exist in this
\* very statement.
InsertTransaction(r, then) ==
    LET q == req[r] IN
    /\ IF transactions[q.tx].state = "none" /\ categories[q.category].state = "live"
       THEN /\ transactions' = [transactions EXCEPT ![q.tx] =
                    [state |-> "live", creator |-> q.user, family |-> q.family,
                     category |-> q.category]]
            /\ Goto(r, then)
       ELSE Refuse(r) /\ UNCHANGED transactions
    /\ UNCHANGED categories

\* Faulty variant of UpdateTransaction: a deleted row is updated too.
UpdateAnyRow(r, then) ==
    LET q == req[r] IN
    /\ IF categories[q.category].state = "live"
       THEN /\ transactions' = [transactions EXCEPT ![q.tx].category = q.category]
            /\ Goto(r, then)
       ELSE Refuse(r) /\ UNCHANGED transactions
    /\ UNCHANGED categories

\* Only a row that is not deleted is updated, and no row is ErrNotFound.
UpdateTransaction(r, then) ==
    LET q == req[r] IN
    /\ IF transactions[q.tx].state = "live" /\ categories[q.category].state = "live"
       THEN /\ transactions' = [transactions EXCEPT ![q.tx].category = q.category]
            /\ Goto(r, then)
       ELSE Refuse(r) /\ UNCHANGED transactions
    /\ UNCHANGED categories

\* Faulty variant of SoftDelete: the time of the deletion is overwritten.
DeleteAgain(r, then) ==
    /\ transactions' = [transactions EXCEPT ![req[r].tx].state = "deleted"]
    /\ Goto(r, then)
    /\ UNCHANGED categories

SoftDelete(r, then) ==
    /\ IF transactions[req[r].tx].state = "live"
       THEN /\ transactions' = [transactions EXCEPT ![req[r].tx].state = "deleted"]
            /\ Goto(r, then)
       ELSE Refuse(r) /\ UNCHANGED transactions
    /\ UNCHANGED categories

InsertCategory(r, scope, then) ==
    LET c == req[r].category IN
    /\ IF categories[c].state = "live"
       THEN Refuse(r) /\ UNCHANGED categories
       ELSE /\ categories' = [categories EXCEPT ![c] = [state |-> "live", scope |-> scope]]
            /\ Goto(r, then)
    /\ UNCHANGED transactions

\* Name, icon and colour are not kept here, whether there is a row is.
RenameCategory(r, then) ==
    /\ Goto(r, IF categories[req[r].category].state = "live" THEN then ELSE "refused")
    /\ UNCHANGED tables

Referenced(c) == \E t \in Transactions : transactions[t].category = c

\* Faulty variant of RemoveCategory: a deleted transaction does not keep its
\* category.
RemoveUnused(r, then) ==
    LET c == req[r].category IN
    /\ IF /\ categories[c].state = "live"
          /\ \A t \in Transactions : transactions[t].category = c
                                        => transactions[t].state = "deleted"
       THEN categories' = [categories EXCEPT ![c].state = "gone"] /\ Goto(r, then)
       ELSE Refuse(r) /\ UNCHANGED categories
    /\ UNCHANGED transactions

\* Faulty variant of RemoveCategory: marked, as transactions are.
MarkCategory(r, then) ==
    /\ categories' = [categories EXCEPT ![req[r].category].state = "deleted"]
    /\ Goto(r, then)
    /\ UNCHANGED transactions

\* The row is removed unless a transaction, live or deleted, refers to it.
RemoveCategory(r, then) ==
    LET c == req[r].category IN
    /\ IF categories[c].state = "live" /\ ~Referenced(c)
       THEN categories' = [categories EXCEPT ![c].state = "gone"] /\ Goto(r, then)
       ELSE Refuse(r) /\ UNCHANGED categories
    /\ UNCHANGED transactions

-----------------------------------------------------------------------------
(* The services *)

At(r, op, at) == req[r].op = op /\ req[r].at = at
Read          == UNCHANGED tables

\* The check of a request that names a family.
IsMember(r, then) ==
    /\ req[r].at = "IsMember"
    /\ Goto(r, IF Member(req[r].family, req[r].user) THEN then ELSE "refused")
    /\ Read

Create(r) ==
    /\ req[r].op = "Create"
    /\ \/ /\ req[r].at = "FindCategory"
          /\ \/ /\ categories[req[r].category].state = "live"
                /\ Goto(r, IF req[r].family = None THEN "Create" ELSE "IsMember")
             \/ categories[req[r].category].state # "live" /\ Refuse(r)
          /\ Read
       \/ IsMember(r, "Create")
       \/ req[r].at = "Create" /\ InsertTransaction(r, "answered")

\* FindByID; of what it read only the creator and the family are used later,
\* which never change.  A deleted row is not found.
FindTransaction(r, mine, shared) ==
    LET q == req[r] row == transactions[q.tx] IN
    /\ q.at = "FindTransaction"
    /\ \/ row.state # "live" /\ Refuse(r)
       \/ /\ row.state = "live" /\ row.family = None
          /\ Goto(r, IF row.creator = q.user THEN mine ELSE "refused")
       \/ /\ row.state = "live" /\ row.family # None
          /\ Become(r, [q EXCEPT !.at = shared, !.family = row.family])
    /\ Read

Get(r) ==
    /\ req[r].op = "Get"
    /\ FindTransaction(r, "answered", "IsMember") \/ IsMember(r, "answered")

\* Faulty variant of canModify: every member may.
memberMay(r, then) ==
    FindTransaction(r, then, "IsMember") \/ IsMember(r, then)

canModify(r, then) ==
    LET q == req[r] IN
    \/ FindTransaction(r, then, "IsMember")
    \/ IsMember(r, IF transactions[q.tx].creator = q.user THEN then ELSE "FindFamily")
    \/ /\ q.at = "FindFamily"
       /\ Goto(r, IF owner[q.family] = q.user THEN then ELSE "ListMembers")
       /\ Read
    \/ /\ q.at = "ListMembers"
       /\ Goto(r, IF role[q.family][q.user] \in {"admin", "owner"} THEN then ELSE "refused")
       /\ Read

Update(r) ==
    /\ req[r].op = "Update"
    /\ canModify(r, "Update") \/ (req[r].at = "Update" /\ UpdateTransaction(r, "answered"))

Delete(r) ==
    /\ req[r].op = "Delete"
    /\ canModify(r, "SoftDelete") \/ (req[r].at = "SoftDelete" /\ SoftDelete(r, "answered"))

\* The dashboard is served as a list is: one check, then what it reads.
Fetch(r) == req[r].at = "Fetch" /\ Goto(r, "answered") /\ Read

List(r)           == req[r].op = "List" /\ (IsMember(r, "Fetch") \/ Fetch(r))
ListCategories(r) == req[r].op = "ListCategories" /\ Fetch(r)

CreatePersonal(r) == At(r, "CreatePersonal", "CreateCategory") /\
    InsertCategory(r, "personal", "answered")
CreateFamily(r) ==
    /\ req[r].op = "CreateFamily"
    /\ \/ IsMember(r, "CreateCategory")
       \/ req[r].at = "CreateCategory" /\ InsertCategory(r, "family", "answered")

\* Any category that is not the system's may be changed, by anybody.
FindCategory(r, then) ==
    LET row == categories[req[r].category] IN
    /\ req[r].at = "FindCategory"
    /\ Goto(r, IF row.state = "live" /\ (then = "answered" \/ row.scope # "system")
               THEN then ELSE "refused")
    /\ Read

GetCategory(r) == req[r].op = "GetCategory" /\ FindCategory(r, "answered")
UpdateCategory(r) ==
    /\ req[r].op = "UpdateCategory"
    /\ FindCategory(r, "UpdateCategory") \/ (req[r].at = "UpdateCategory" /\ RenameCategory(r, "answered"))
DeleteCategory(r) ==
    /\ req[r].op = "DeleteCategory"
    /\ FindCategory(r, "DeleteCategory") \/ (req[r].at = "DeleteCategory" /\ RemoveCategory(r, "answered"))

-----------------------------------------------------------------------------
(* The sync service *)

\* uuid.New() is an id that no row has and no running request holds; the ids
\* that a client puts into its changes are known, or new and its own.
KnownTransactions  == {t \in Transactions : transactions[t].state # "none"}
KnownCategories    == {c \in Categories : categories[c].state # "none"}
FreshTransactions  == {t \in Transactions \ KnownTransactions :
                           \A r \in Requests : req[r].tx # t}
FreshCategories    == {c \in Categories \ KnownCategories :
                           \A r \in Requests : req[r].category # c}
ClientTransactions == KnownTransactions \cup
    {t \in Transactions : \A r \in Requests : req[r].op = "Create" => req[r].tx # t}
ClientCategories   == KnownCategories \cup
    {c \in Categories : \A r \in Requests :
         req[r].op \in {"CreatePersonal", "CreateFamily"} => req[r].category # c}

\* Accounts are never deleted, so the user is found.  Only the scope "family" is
\* checked; without an id it is served as "personal" without one is.
validateScope(r, then) ==
    \/ /\ req[r].at = "FindUser"
       /\ Goto(r, IF req[r].op = "SyncFamily" THEN "IsMember" ELSE then)
       /\ Read
    \/ IsMember(r, then)

Write(r, at, t, c) == Become(r, [req[r] EXCEPT !.at = at, !.tx = t, !.category = c])

\* A change that is not newer than the row it finds is a conflict, and its empty
\* snapshot ends the request at the log (SyncServer has the timestamps).
applyTransactionUpsert(r) ==
    \E t \in ClientTransactions, c \in ClientCategories :
        IF transactions[t].state = "live"
        THEN Write(r, "Update", t, c) \/ Refuse(r)
        ELSE Write(r, "Create", t, c)

applyCategoryUpsert(r) ==
    \E c \in ClientCategories :
        IF categories[c].state = "live"
        THEN Write(r, "UpdateCategory", None, c) \/ Refuse(r)
        ELSE Write(r, "CreateCategory", None, c)

\* What is not there need not be deleted: the next change follows.
applyDelete(r) ==
    \/ \E t \in Transactions :
           transactions[t].state = "live" /\ Write(r, "SoftDelete", t, None)
    \/ \E c \in Categories :
           categories[c].state = "live" /\ Write(r, "DeleteCategory", None, c)

\* The next change of the request, whatever it is.  None looks at whose row it
\* writes.
Change(r) ==
    /\ req[r].op \in Syncs /\ req[r].at = "Change"
    /\ asked < MaxAsked
    /\ applyTransactionUpsert(r) \/ applyCategoryUpsert(r) \/ applyDelete(r)
    /\ asked' = asked + 1
    /\ Read

\* A new transaction gets the family of the request, a new category the scope its
\* snapshot says.
Sync(r) ==
    /\ req[r].op \in Syncs
    /\ \/ validateScope(r, "Change")
       \/ req[r].at = "Change" /\ Goto(r, "Fetch") /\ Read
       \/ req[r].at = "Create" /\ InsertTransaction(r, "Change")
       \/ req[r].at = "Update" /\ UpdateTransaction(r, "Change")
       \/ req[r].at = "SoftDelete" /\ SoftDelete(r, "Change")
       \/ /\ req[r].at = "CreateCategory"
          /\ \E scope \in Scopes : InsertCategory(r, scope, "Change")
       \/ req[r].at = "UpdateCategory" /\ RenameCategory(r, "Change")
       \/ req[r].at = "DeleteCategory" /\ RemoveCategory(r, "Change")
       \/ Fetch(r)

-----------------------------------------------------------------------------
(* The handlers: the requests of a user, with what their messages carry *)

\* A message names an id that a row has or had.
Kind(f, of) == IF f = None THEN of ELSE "IsMember"

CreateTransaction(r, u) ==
    \E t \in FreshTransactions, c \in KnownCategories, f \in Families \cup {None} :
        Become(r, [Idle EXCEPT !.at = "FindCategory", !.op = "Create", !.user = u,
                               !.family = f, !.category = c, !.tx = t])
GetTransaction(r, u) == \E t \in KnownTransactions :
    Become(r, [Idle EXCEPT !.at = "FindTransaction", !.op = "Get", !.user = u, !.tx = t])
UpdateTransactionOf(r, u) == \E t \in KnownTransactions, c \in KnownCategories :
    Become(r, [Idle EXCEPT !.at = "FindTransaction", !.op = "Update", !.user = u,
                           !.category = c, !.tx = t])
DeleteTransaction(r, u) == \E t \in KnownTransactions :
    Become(r, [Idle EXCEPT !.at = "FindTransaction", !.op = "Delete", !.user = u, !.tx = t])
ListTransactions(r, u) == \E f \in Families \cup {None} :
    Become(r, [Idle EXCEPT !.at = Kind(f, "Fetch"), !.op = "List", !.user = u, !.family = f])
Dashboard(r, u) == ListTransactions(r, u)
CreateCategory(r, u) == \E c \in FreshCategories, f \in Families \cup {None} :
    Become(r, [Idle EXCEPT !.at = Kind(f, "CreateCategory"),
                           !.op = IF f = None THEN "CreatePersonal" ELSE "CreateFamily",
                           !.user = u, !.family = f, !.category = c])
OtherCategoryRequest(r, u) ==
    \E op \in {"GetCategory", "UpdateCategory", "DeleteCategory"}, c \in KnownCategories :
        Become(r, [Idle EXCEPT !.at = "FindCategory", !.op = op, !.user = u,
                               !.category = c])
ListCategoriesRequest(r, u) ==
    Become(r, [Idle EXCEPT !.at = "Fetch", !.op = "ListCategories", !.user = u])
\* The family of scope "personal" is not looked up: the foreign keys want it to
\* exist once something is written for it.
SyncRequest(r, u) == \E op \in Syncs, f \in Families \cup {None} :
    /\ IF op = "SyncFamily" THEN f # None ELSE f # None => owner[f] # None
    /\ Become(r, [Idle EXCEPT !.at = "FindUser", !.op = op, !.user = u, !.family = f])

Receive(r, u) ==
    /\ req[r].at = "idle" /\ asked < MaxAsked
    /\ \/ CreateTransaction(r, u) \/ GetTransaction(r, u) \/ UpdateTransactionOf(r, u)
       \/ DeleteTransaction(r, u) \/ ListTransactions(r, u) \/ Dashboard(r, u)
       \/ CreateCategory(r, u) \/ OtherCategoryRequest(r, u) \/ ListCategoriesRequest(r, u)
       \/ SyncRequest(r, u)
    /\ asked' = asked + 1
    /\ UNCHANGED tables

Finish(r) ==
    /\ req[r].at \in {"answered", "refused"}
    /\ Become(r, Idle)
    /\ UNCHANGED <<tables, asked>>

StatementFails(r) ==
    /\ req[r].at \in Running
    /\ Refuse(r)
    /\ UNCHANGED <<tables, asked>>

-----------------------------------------------------------------------------
Serve(r) ==
    /\ \/ Create(r) \/ Get(r) \/ Update(r) \/ Delete(r) \/ List(r)
       \/ CreatePersonal(r) \/ CreateFamily(r) \/ GetCategory(r) \/ UpdateCategory(r)
       \/ DeleteCategory(r) \/ ListCategories(r) \/ Sync(r)
    /\ UNCHANGED asked

\* The requests the services check the user of.  There is no check of the other
\* ones: lists without a family, lists, updates and deletes of categories, and
\* the rows that Sync writes.
Guarded(q) ==
    \/ q.op \in {"Get", "Update", "Delete", "CreateFamily", "SyncFamily"}
    \/ q.op \in {"Create", "List"} /\ q.family # None

\* What the caller of a guarded request must be.
Entitled(q) ==
    LET row == transactions[q.tx] IN
    CASE q.op = "Get" -> IF row.family = None THEN row.creator = q.user
                                              ELSE Member(row.family, q.user)
      [] q.op \in {"Update", "Delete"} ->
             IF row.family = None THEN row.creator = q.user
             ELSE /\ Member(row.family, q.user)
                  /\ row.creator = q.user \/ Manager(row.family, q.user)
      [] OTHER -> Member(q.family, q.user)

Witness ==
    entitled' = {r \in Requests :
        /\ Guarded(req'[r])
        /\ r \in entitled \/ (req'[r].at \in Running /\ Entitled(req[r])')}

Next ==
    /\ \/ /\ \E r \in Requests : \/ Serve(r) \/ Change(r) \/ StatementFails(r) \/ Finish(r)
                                 \/ \E u \in Users : Receive(r, u)
          /\ UNCHANGED <<owner, role>>
       \/ Family!Next /\ UNCHANGED <<tables, req, asked>>
    /\ Witness

Spec == Init /\ [][Next]_vars

-----------------------------------------------------------------------------
(* Properties *)

\* Every field holds a value the services can produce.
TypeOK ==
    /\ owner \in [Families -> Users \cup {None}]
    /\ role \in [Families -> [Users -> {"none", "member", "admin", "owner"}]]
    /\ transactions \in [Transactions -> Transaction]
    /\ categories \in [Categories -> Category]
    /\ req \in [Requests -> Request]
    /\ asked \in Nat
    /\ entitled \subseteq Requests

\* Every transaction, also a deleted one, has its category: Create and Update
\* check or name the category long before they write it, and categories are
\* deleted by anybody at any time.
ReferencesKept ==
    \A t \in Transactions : transactions[t].state # "none" =>
        categories[transactions[t].category].state = "live"

\* Whoever gets an answer to a guarded request, and so whoever has changed
\* something by it, was entitled to it at some moment while the request was
\* served, although membership, owner and role are read by statements of their
\* own, in between which they change; Sync for a family is, before its first
\* change.
AnsweredEntitled ==
    \A r \in Requests :
        req[r].at \in {"answered", "Change"} /\ Guarded(req[r]) => r \in entitled

\* Overlapping deletes of one transaction: one of them deletes it, the others
\* are told that it is not there.
DeletedOnce ==
    \A r, s \in Requests :
        At(r, "Delete", "answered") /\ At(s, "Delete", "answered") /\ req[r].tx = req[s].tx
            => r = s

\* A deleted transaction stays as it is, a live one with its creator and family,
\* whatever an update that has read it earlier, or a change that a client made
\* before it knew of the deletion, writes.
RowsKept ==
    [][\A t \in Transactions :
          /\ transactions[t].state = "deleted" => transactions'[t] = transactions[t]
          /\ transactions[t].state = "live" =>
                /\ transactions'[t].state # "none"
                /\ transactions'[t].creator = transactions[t].creator
                /\ transactions'[t].family = transactions[t].family]_vars
=============================================================================
