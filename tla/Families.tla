------------------------------ MODULE Families ------------------------------
(***************************************************************************)
(* The backend's family service with its handler and repository: requests  *)
(* that run at the same time, each repository call a statement of its own  *)
(* that commits alone, without a transaction around them.                  *)
(*                                                                         *)
(* A user stands for an account and for its email address, an invitation   *)
(* for its unique code.  Times, and the content of answers, are left out;  *)
(* a request refused on its input alone (an empty name, an address without *)
(* @) executes no statement and is left out.                               *)
(***************************************************************************)
EXTENDS Integers, FiniteSets

CONSTANTS
    Requests,      \* concurrent handler activations
    Users,
    Families,      \* family ids
    Codes,         \* invitation codes
    Names,         \* family names
    None,          \* no user, family, code or name
    MaxInFlight,   \* bound: requests at the same time
    MaxAsked,      \* bound: requests received
    MaxFaults      \* bound: failed statements and crashes

ASSUME ConstantsAssumption ==
    /\ None \notin Users \cup Families \cup Codes \cup Names
    /\ {MaxInFlight, MaxAsked, MaxFaults} \subseteq Nat

VARIABLES
    \* the database
    families,      \* owner and name of each family
    members,       \* family_members, by family and user
    invitations,   \* by code
    \* the service
    req,           \* locals and program counter of each activation
    asked,         \* requests received so far
    faults,        \* failures injected so far
    \* history
    trusted,       \* <<family, user>>: has been its owner or administrator
    joined         \* <<family, user>>: has been its member

database == <<families, members, invitations>>
history  == <<trusted, joined>>
counters == <<asked, faults>>
vars     == <<database, req, counters, history>>

-----------------------------------------------------------------------------
\* The role of AddMember is free text; any other text is treated like member.
Roles      == {"member", "admin", "owner"}
Family     == [owner : Users \cup {None}, name : Names \cup {None}]
Member     == [role : Roles \cup {"none"}, by : Users \cup {None}]
Invitation == [status : {"none", "pending", "accepted", "revoked"},
               family : Families \cup {None}, to : Users \cup {None},
               by : Users \cup {None}, expired : BOOLEAN]

NoFamily     == [owner |-> None, name |-> None]
NoMember     == [role |-> "none", by |-> None]
NoInvitation == [status |-> "none", family |-> None, to |-> None, by |-> None,
                 expired |-> FALSE]

Operations == {"Create", "Get", "Update", "ListMy", "AddMember", "RemoveMember",
               "Invite", "AcceptInvitation", "RevokeInvitation", "ListInvitations",
               "ListMembers"}

\* at: the repository call that comes next.  wrote: history, whether the
\* request has changed a table.
Running == {"Create", "FindByID", "Update", "ListByUser", "AddMember", "RemoveMember",
            "ListMembers", "IsMember", "CreateInvitation", "FindInvitationByCode",
            "FindUser", "UpdateInvitation", "ListInvitations", "Fetch"}
Request == [at : Running \cup {"idle", "answered", "refused"},
            op : Operations \cup {"none"}, user : Users \cup {None},
            family : Families \cup {None}, target : Users \cup {None},
            role : Roles \cup {"none"}, by : Users \cup {None},
            code : Codes \cup {None}, name : Names \cup {None},
            left : SUBSET Families, wrote : BOOLEAN]

Idle == [at |-> "idle", op |-> "none", user |-> None, family |-> None,
         target |-> None, role |-> "none", by |-> None, code |-> None,
         name |-> None, left |-> {}, wrote |-> FALSE]

Init ==
    /\ families = [f \in Families |-> NoFamily]
    /\ members = [f \in Families |-> [u \in Users |-> NoMember]]
    /\ invitations = [c \in Codes |-> NoInvitation]
    /\ req = [r \in Requests |-> Idle]
    /\ asked = 0 /\ faults = 0
    /\ trusted = {} /\ joined = {}

Become(r, state) == req' = [req EXCEPT ![r] = state]
Goto(r, at)      == Become(r, [req[r] EXCEPT !.at = at])

\* Any error ends the request; mapError only chooses the code of the answer.
Refuse(r) == Goto(r, "refused")

-----------------------------------------------------------------------------
(* The repository *)

InsertFamily(r, then) ==
    LET q == req[r] IN
    /\ families' = [families EXCEPT ![q.family] = [owner |-> q.user, name |-> q.name]]
    /\ trusted' = trusted \cup {<<q.family, q.user>>}
    /\ Become(r, [q EXCEPT !.at = then, !.wrote = TRUE])
    /\ UNCHANGED <<members, invitations, counters, joined>>

RenameFamily(r) ==
    LET q == req[r] IN
    /\ families' = [families EXCEPT ![q.family].name = q.name]
    /\ Become(r, [q EXCEPT !.at = "answered", !.wrote = TRUE])
    /\ UNCHANGED <<members, invitations, counters, history>>

\* Faulty variant of InsertMember: an existing row is overwritten.
UpsertMember(r, then) ==
    LET q == req[r] IN
    /\ members' = [members EXCEPT ![q.family][q.target] = [role |-> q.role, by |-> q.by]]
    /\ joined' = joined \cup {<<q.family, q.target>>}
    /\ trusted' = IF q.role \in {"admin", "owner"}
                  THEN trusted \cup {<<q.family, q.target>>} ELSE trusted
    /\ Become(r, [q EXCEPT !.at = then, !.wrote = TRUE])
    /\ UNCHANGED <<families, invitations, counters>>

\* The primary key (family_id, user_id) refuses a second row.
InsertMember(r, then) ==
    LET q == req[r] IN
    \/ /\ members[q.family][q.target].role = "none"
       /\ members' = [members EXCEPT ![q.family][q.target] =
                                        [role |-> q.role, by |-> q.by]]
       /\ joined' = joined \cup {<<q.family, q.target>>}
       /\ trusted' = IF q.role \in {"admin", "owner"}
                     THEN trusted \cup {<<q.family, q.target>>} ELSE trusted
       /\ Become(r, [q EXCEPT !.at = then, !.wrote = TRUE])
       /\ UNCHANGED <<families, invitations, counters>>
    \/ /\ members[q.family][q.target].role # "none"
       /\ Refuse(r)
       /\ UNCHANGED <<database, counters, history>>

\* DELETE of no row is ErrNotFound.
DeleteMember(r) ==
    LET q == req[r] IN
    \/ /\ members[q.family][q.target].role # "none"
       /\ members' = [members EXCEPT ![q.family][q.target] = NoMember]
       /\ Become(r, [q EXCEPT !.at = "answered", !.wrote = TRUE])
       /\ UNCHANGED <<families, invitations, counters, history>>
    \/ /\ members[q.family][q.target].role = "none"
       /\ Refuse(r)
       /\ UNCHANGED <<database, counters, history>>

\* generateCode draws any code, also one in use, which the table refuses.
InsertInvitation(r) ==
    LET q == req[r] IN
    \E c \in Codes :
        \/ /\ invitations[c].status = "none"
           /\ invitations' = [invitations EXCEPT ![c] =
                 [status |-> "pending", family |-> q.family, to |-> q.target,
                  by |-> q.user, expired |-> FALSE]]
           /\ Become(r, [q EXCEPT !.at = "answered", !.wrote = TRUE])
           /\ UNCHANGED <<families, members, counters, history>>
        \/ /\ invitations[c].status # "none"
           /\ Refuse(r)
           /\ UNCHANGED <<database, counters, history>>

\* Faulty variant of SetStatus: a status that no other code knows.
SetOddStatus(r, status) ==
    LET q == req[r] IN
    /\ invitations' = [invitations EXCEPT
          ![q.code].status = IF status = "revoked" THEN "cancelled" ELSE status]
    /\ Become(r, [q EXCEPT !.at = "answered", !.wrote = TRUE])
    /\ UNCHANGED <<families, members, counters, history>>

\* The status is overwritten, whatever it has become since it was read.
SetStatus(r, status) ==
    LET q == req[r] IN
    /\ invitations' = [invitations EXCEPT ![q.code].status = status]
    /\ Become(r, [q EXCEPT !.at = "answered", !.wrote = TRUE])
    /\ UNCHANGED <<families, members, counters, history>>

ListByUser(u) == {f \in Families : families[f].owner = u \/ members[f][u].role # "none"}
IsMember(f, u) == members[f][u].role # "none"

-----------------------------------------------------------------------------
(* The service: op says which function the request runs, at which of its    *)
(* repository calls comes next.                                             *)

At(r, op, at) == req[r].op = op /\ req[r].at = at

Create(r) ==
    \/ At(r, "Create", "Create") /\ InsertFamily(r, "AddMember")
    \/ At(r, "Create", "AddMember") /\ InsertMember(r, "answered")

\* Faulty variant of isAdminOrOwner: being a member is enough.
isMemberOrOwner(r, then) ==
    LET q == req[r] IN
    /\ \/ /\ q.at = "FindByID"
          /\ \/ families[q.family].owner = q.user /\ Goto(r, then)
             \/ families[q.family].owner \notin {None, q.user} /\ Goto(r, "ListMembers")
             \/ families[q.family].owner = None /\ Refuse(r)
       \/ /\ q.at = "ListMembers"
          /\ Goto(r, IF members[q.family][q.user].role # "none" THEN then ELSE "refused")
    /\ UNCHANGED <<database, counters, history>>

isAdminOrOwner(r, then) ==
    LET q == req[r] IN
    /\ \/ /\ q.at = "FindByID"
          /\ \/ families[q.family].owner = q.user /\ Goto(r, then)
             \/ families[q.family].owner \notin {None, q.user} /\ Goto(r, "ListMembers")
             \/ families[q.family].owner = None /\ Refuse(r)
       \/ /\ q.at = "ListMembers"
          /\ Goto(r, IF members[q.family][q.user].role \in {"admin", "owner"}
                     THEN then ELSE "refused")
    /\ UNCHANGED <<database, counters, history>>

\* FindByID and the check of the owner, which Update and RemoveMember share.
OwnerOnly(r, then) ==
    LET q == req[r] IN
    /\ q.at = "FindByID"
    /\ Goto(r, IF families[q.family].owner = q.user THEN then ELSE "refused")
    /\ UNCHANGED <<database, counters, history>>

Update(r) ==
    /\ req[r].op = "Update"
    /\ OwnerOnly(r, "Update") \/ (req[r].at = "Update" /\ RenameFamily(r))

AddMember(r) ==
    /\ req[r].op = "AddMember"
    /\ \/ isAdminOrOwner(r, "AddMember")
       \/ req[r].at = "AddMember" /\ InsertMember(r, "answered")

\* Faulty variant of RemoveMember: the owner may remove itself.
RemoveAnyone(r) ==
    /\ req[r].op = "RemoveMember"
    /\ OwnerOnly(r, "RemoveMember") \/ (req[r].at = "RemoveMember" /\ DeleteMember(r))

RemoveMember(r) ==
    /\ req[r].op = "RemoveMember"
    /\ \/ OwnerOnly(r, IF req[r].target = req[r].user THEN "refused" ELSE "RemoveMember")
       \/ req[r].at = "RemoveMember" /\ DeleteMember(r)

Invite(r) ==
    /\ req[r].op = "Invite"
    /\ \/ isAdminOrOwner(r, "CreateInvitation")
       \/ req[r].at = "CreateInvitation" /\ InsertInvitation(r)

Usable(c) == invitations[c].status = "pending" /\ ~invitations[c].expired

\* What FindInvitationByCode read of the invitation stays in the request; its
\* family, addressee and creator never change.
ReadInvitation(r) ==
    LET q == req[r] IN
    /\ \/ /\ Usable(q.code)
          /\ Become(r, [q EXCEPT !.at = "FindUser", !.family = invitations[q.code].family,
                                 !.by = invitations[q.code].by,
                                 !.target = q.user, !.role = "member"])
       \/ ~Usable(q.code) /\ Refuse(r)
    /\ UNCHANGED <<database, counters, history>>

MatchAddress(r) ==
    /\ Goto(r, IF req[r].user = invitations[req[r].code].to THEN "AddMember" ELSE "refused")
    /\ UNCHANGED <<database, counters, history>>

\* Faulty variant of AcceptInvitation: the invitation is marked before the
\* member is inserted.
AcceptMarkedFirst(r) ==
    \/ At(r, "AcceptInvitation", "FindInvitationByCode") /\ ReadInvitation(r)
    \/ /\ At(r, "AcceptInvitation", "FindUser")
       /\ IF req[r].user = invitations[req[r].code].to
          THEN /\ invitations' = [invitations EXCEPT ![req[r].code].status = "accepted"]
               /\ Become(r, [req[r] EXCEPT !.at = "AddMember", !.wrote = TRUE])
               /\ UNCHANGED <<families, members, counters, history>>
          ELSE Refuse(r) /\ UNCHANGED <<database, counters, history>>
    \/ At(r, "AcceptInvitation", "AddMember") /\ InsertMember(r, "answered")

\* Faulty variant of AcceptInvitation: whoever has the code may use it.
AcceptAnyone(r) ==
    \/ At(r, "AcceptInvitation", "FindInvitationByCode") /\ ReadInvitation(r)
    \/ /\ At(r, "AcceptInvitation", "FindUser")
       /\ Goto(r, "AddMember") /\ UNCHANGED <<database, counters, history>>
    \/ At(r, "AcceptInvitation", "AddMember") /\ InsertMember(r, "UpdateInvitation")
    \/ At(r, "AcceptInvitation", "UpdateInvitation") /\ SetStatus(r, "accepted")

AcceptInvitation(r) ==
    \/ At(r, "AcceptInvitation", "FindInvitationByCode") /\ ReadInvitation(r)
    \/ At(r, "AcceptInvitation", "FindUser") /\ MatchAddress(r)
    \/ At(r, "AcceptInvitation", "AddMember") /\ InsertMember(r, "UpdateInvitation")
    \/ At(r, "AcceptInvitation", "UpdateInvitation") /\ SetStatus(r, "accepted")

\* The loop over the user's families, in the order the table returns them.
NextFamily(r, left) ==
    \/ left = {} /\ Refuse(r)
    \/ \E f \in left :
          Become(r, [req[r] EXCEPT !.family = f, !.left = left \ {f},
                !.at = IF families[f].owner = req[r].user THEN "ListInvitations"
                                                          ELSE "ListMembers"])

RevokeInvitation(r) ==
    LET q == req[r] IN
    \/ /\ \/ At(r, "RevokeInvitation", "ListByUser") /\ NextFamily(r, ListByUser(q.user))
          \/ /\ At(r, "RevokeInvitation", "ListMembers")
             /\ IF members[q.family][q.user].role = "admin"
                THEN Goto(r, "ListInvitations") ELSE NextFamily(r, q.left)
          \/ /\ At(r, "RevokeInvitation", "ListInvitations")
             /\ IF invitations[q.code].family = q.family
                THEN Goto(r, "UpdateInvitation") ELSE NextFamily(r, q.left)
       /\ UNCHANGED <<database, counters, history>>
    \/ At(r, "RevokeInvitation", "UpdateInvitation") /\ SetStatus(r, "revoked")

ListMy(r) ==
    /\ At(r, "ListMy", "ListByUser") /\ Goto(r, "answered")
    /\ UNCHANGED <<database, counters, history>>

\* Reads for members: the row of the caller first, the data second.
MemberRead(r, op) ==
    /\ \/ /\ At(r, op, "IsMember")
          /\ Goto(r, IF IsMember(req[r].family, req[r].user) THEN "Fetch" ELSE "refused")
       \/ At(r, op, "Fetch") /\ Goto(r, "answered")
    /\ UNCHANGED <<database, counters, history>>

Get(r)             == MemberRead(r, "Get")
ListInvitations(r) == MemberRead(r, "ListInvitations")
ListMembers(r)     == MemberRead(r, "ListMembers")

-----------------------------------------------------------------------------
(* The handlers: the requests of a user, with what their messages carry      *)

\* uuid.New(): an id no family has and no running Create will insert.
Fresh == {f \in Families : /\ families[f].owner = None
                           /\ \A r \in Requests : ~(At(r, "Create", "Create")
                                                    /\ req[r].family = f)}

CreateFamily(r, u) == \E f \in Fresh, n \in Names :
    Become(r, [Idle EXCEPT !.at = "Create", !.op = "Create", !.user = u, !.family = f,
                           !.name = n, !.target = u, !.role = "owner", !.by = u])
GetFamily(r, u) == \E f \in Families :
    Become(r, [Idle EXCEPT !.at = "IsMember", !.op = "Get", !.user = u, !.family = f])
UpdateFamily(r, u) == \E f \in Families, n \in Names :
    Become(r, [Idle EXCEPT !.at = "FindByID", !.op = "Update", !.user = u, !.family = f,
                           !.name = n])
ListMyFamilies(r, u) ==
    Become(r, [Idle EXCEPT !.at = "ListByUser", !.op = "ListMy", !.user = u])
AddFamilyMember(r, u) == \E f \in Families, v \in Users, role \in Roles :
    Become(r, [Idle EXCEPT !.at = "FindByID", !.op = "AddMember", !.user = u, !.family = f,
                           !.target = v, !.role = role, !.by = u])
RemoveFamilyMember(r, u) == \E f \in Families, v \in Users :
    Become(r, [Idle EXCEPT !.at = "FindByID", !.op = "RemoveMember", !.user = u,
                           !.family = f, !.target = v])
InviteMember(r, u) == \E f \in Families, v \in Users :
    Become(r, [Idle EXCEPT !.at = "FindByID", !.op = "Invite", !.user = u, !.family = f,
                           !.target = v])
AcceptFamilyInvitation(r, u) == \E c \in Codes :
    Become(r, [Idle EXCEPT !.at = "FindInvitationByCode", !.op = "AcceptInvitation",
                           !.user = u, !.code = c])
RevokeFamilyInvitation(r, u) == \E c \in Codes :
    Become(r, [Idle EXCEPT !.at = "ListByUser", !.op = "RevokeInvitation", !.user = u,
                           !.code = c])
ListFamilyInvitations(r, u) == \E f \in Families :
    Become(r, [Idle EXCEPT !.at = "IsMember", !.op = "ListInvitations", !.user = u,
                           !.family = f])
ListFamilyMembers(r, u) == \E f \in Families :
    Become(r, [Idle EXCEPT !.at = "IsMember", !.op = "ListMembers", !.user = u,
                           !.family = f])

Asks(r, u) ==
    \/ CreateFamily(r, u) \/ GetFamily(r, u) \/ UpdateFamily(r, u) \/ ListMyFamilies(r, u)
    \/ AddFamilyMember(r, u) \/ RemoveFamilyMember(r, u) \/ InviteMember(r, u)
    \/ AcceptFamilyInvitation(r, u) \/ RevokeFamilyInvitation(r, u)
    \/ ListFamilyInvitations(r, u) \/ ListFamilyMembers(r, u)

InFlight == {r \in Requests : req[r].at \in Running}

Receive(r, u) ==
    /\ req[r].at = "idle"
    /\ asked < MaxAsked /\ Cardinality(InFlight) < MaxInFlight
    /\ Asks(r, u)
    /\ asked' = asked + 1
    /\ UNCHANGED <<database, faults, history>>

Finish(r) ==
    /\ req[r].at \in {"answered", "refused"}
    /\ Become(r, Idle)
    /\ UNCHANGED <<database, counters, history>>

-----------------------------------------------------------------------------
(* Time and failures *)

\* Seven days after its creation an invitation expires.
Expire(c) ==
    /\ invitations[c].status # "none" /\ ~invitations[c].expired
    /\ invitations' = [invitations EXCEPT ![c].expired = TRUE]
    /\ UNCHANGED <<families, members, req, counters, history>>

Fault == faults < MaxFaults /\ faults' = faults + 1

StatementFails(r) ==
    /\ req[r].at \in Running
    /\ Fault
    /\ Refuse(r)
    /\ UNCHANGED <<database, asked, history>>

Crash ==
    /\ Fault
    /\ req' = [r \in Requests |-> IF req[r].at \in Running
                                  THEN [req[r] EXCEPT !.at = "refused"] ELSE req[r]]
    /\ UNCHANGED <<database, asked, history>>

-----------------------------------------------------------------------------
Serve(r) ==
    \/ Create(r) \/ Update(r) \/ AddMember(r) \/ RemoveMember(r)
    \/ Invite(r) \/ AcceptInvitation(r) \/ RevokeInvitation(r)
    \/ Get(r) \/ ListMy(r) \/ ListInvitations(r) \/ ListMembers(r)

Next ==
    \/ \E r \in Requests : \/ Serve(r) \/ StatementFails(r) \/ Finish(r)
                           \/ \E u \in Users : Receive(r, u)
    \/ \E c \in Codes : Expire(c)
    \/ Crash

Spec == Init /\ [][Next]_vars

-----------------------------------------------------------------------------
(* Properties *)

\* Every field holds a value the service can produce.
TypeOK ==
    /\ families \in [Families -> Family]
    /\ members \in [Families -> [Users -> Member]]
    /\ invitations \in [Codes -> Invitation]
    /\ req \in [Requests -> Request]
    /\ asked \in Nat /\ faults \in Nat
    /\ trusted \subseteq Families \X Users /\ joined \subseteq Families \X Users

\* A family that ListMyFamilies shows can be opened: its owner has a row among
\* the members, although the two are inserted by two statements and several
\* requests insert and delete such rows.  Only a statement that fails breaks it.
ListedCanBeOpened ==
    faults = 0 => \A u \in Users : \A f \in ListByUser(u) :
        IsMember(f, u) \/ \E r \in Requests : At(r, "Create", "AddMember")
                                              /\ req[r].family = f

\* As long as no statement fails, a request answered with an error has changed
\* nothing; the exception is a Create whose owner has meanwhile been inserted
\* by another request, and is a member all the same.
RefusedUnchanged ==
    faults = 0 => \A r \in Requests :
        req[r].at = "refused" /\ req[r].wrote =>
            req[r].op = "Create" /\ IsMember(req[r].family, req[r].user)

\* An invitation marked accepted has admitted its addressee, also when
\* requests fail half way.
AcceptedJoined ==
    \A c \in Codes : invitations[c].status = "accepted" =>
        <<invitations[c].family, invitations[c].to>> \in joined

Promise == INSTANCE Membership WITH owner <- [f \in Families |-> families[f].owner],
                                    member <- members

\* Whatever requests overlap and whatever fails, the service implements the
\* rules of Membership: who enters a family was vouched for by somebody who has
\* administered it, and its owner stays.
MembershipKept == Promise!Spec
=============================================================================
