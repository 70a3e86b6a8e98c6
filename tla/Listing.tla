------------------------------- MODULE Listing -------------------------------
(***************************************************************************)
(* What ListTransactions and GetDashboard answer: the rows of a filter in  *)
(* order, by pages of two statements each, and the monthly totals.  A      *)
(* client follows the page tokens while other requests insert, update and  *)
(* delete rows; Books has who may do that.                                 *)
(*                                                                         *)
(* A transaction is named by its rank in the order of created_at, months   *)
(* have DaysPerMonth days, and page numbers stay below 2^31.               *)
(***************************************************************************)
EXTENDS Integers, Sequences, FiniteSets, SequencesExt, FiniteSetsExt

CONSTANTS
    Users,
    Families,
    None,           \* no family
    Dates,          \* days, as numbers
    Today,
    DaysPerMonth,
    AmountOf,       \* the amount of the n-th transaction
    Filters,        \* the filters clients use
    PageSizes,      \* the page sizes they ask for
    DefaultSize,    \* the size of a page nobody asked for, 20 in the code
    MaxRows,        \* bound: transactions ever inserted
    MaxChanges      \* bound: changes of the table

Types == {"income", "expense"}

ASSUME ConstantsAssumption ==
    /\ Today \in Nat /\ Dates \subseteq 0 .. Today
    /\ {DaysPerMonth, DefaultSize} \subseteq Nat \ {0}
    /\ AmountOf \in [1 .. MaxRows -> Nat]
    /\ Filters \subseteq [family : Families \cup {None}, type : Types \cup {"any"},
                          from : Int]
    /\ PageSizes \subseteq Int /\ {MaxRows, MaxChanges} \subseteq Nat

VARIABLES
    rows,      \* the table, oldest transaction first
    walk,      \* the client that follows the pages of a list
    changes    \* changes of the table so far

vars == <<rows, walk, changes>>

Row == [live : BOOLEAN, creator : Users, family : Families \cup {None}, type : Types,
        date : Dates]

-----------------------------------------------------------------------------
(* TransactionRepo.List *)

Matches(table, filter) ==
    {n \in DOMAIN table : /\ table[n].live
                          /\ filter.family \in {None, table[n].family}
                          /\ filter.type \in {"any", table[n].type}
                          /\ table[n].date >= filter.from}

\* The elements of a finite set in a total order: the i-th has i - 1 before it.
Sorted(S, before) ==
    [i \in 1 .. Cardinality(S) |->
        CHOOSE x \in S : Cardinality({y \in S : <<y, x>> \in before}) = i - 1]

\* Faulty variant of Listed: ordered by date alone, and the rows of one day as
\* the table happens to hold them.
ListedByDate(table, filter) ==
    Sorted(Matches(table, filter),
           {p \in (1 .. Len(table)) \X (1 .. Len(table)) :
               \/ table[p[1]].date > table[p[2]].date
               \/ table[p[1]].date = table[p[2]].date
                  /\ (IF changes % 2 = 0 THEN p[1] > p[2] ELSE p[1] < p[2])})

\* ORDER BY date DESC, created_at DESC.
Ahead(table) ==
    {p \in (1 .. Len(table)) \X (1 .. Len(table)) :
        \/ table[p[1]].date > table[p[2]].date
        \/ table[p[1]].date = table[p[2]].date /\ p[1] > p[2]}

Listed(table, filter) == Sorted(Matches(table, filter), Ahead(table))

Count(table, filter) == Cardinality(Matches(table, filter))

RowLimit(size) == IF size <= 0 THEN DefaultSize ELSE size

Page(table, filter, size, offset) ==
    LET start == IF offset < 0 THEN 0 ELSE offset
        list  == Listed(table, filter)
    IN  SubSeq(list, start + 1, Min({start + RowLimit(size), Len(list)}))

\* Faulty variant of NextPageToken: by one too eager.
NextPageTokenAlways(offset, len, total) == IF offset + len <= total THEN offset + len ELSE 0

\* Faulty variant of NextPageToken: a page further, whatever the page held.
NextPageTokenFixed(offset, len, total) ==
    IF offset + len < total THEN offset + DefaultSize ELSE 0

\* The handler's token for the next page, 0 for no more.
NextPageToken(offset, len, total) == IF offset + len < total THEN offset + len ELSE 0

-----------------------------------------------------------------------------
(* The walk of a client, one statement of the server at a time *)

NoWalk == [at |-> "idle", filter |-> CHOOSE f \in Filters : TRUE, size |-> 0, offset |-> 0,
           total |-> 0, got |-> <<>>, start |-> <<>>,
           grew |-> FALSE, shrank |-> FALSE, torn |-> FALSE]

Init ==
    /\ rows = <<>>
    /\ walk = NoWalk
    /\ changes = 0

Begin ==
    /\ walk.at \in {"idle", "done"}
    /\ \E filter \in Filters, size \in PageSizes :
          walk' = [NoWalk EXCEPT !.at = "count", !.filter = filter, !.size = size,
                                 !.start = Listed(rows, filter)]
    /\ UNCHANGED <<rows, changes>>

CountRows ==
    /\ walk.at = "count"
    /\ walk' = [walk EXCEPT !.at = "select", !.total = Count(rows, walk.filter)]
    /\ UNCHANGED <<rows, changes>>

\* The data, the handler's token, and the client's next request.
SelectRows ==
    LET page == Page(rows, walk.filter, walk.size, walk.offset)
        next == NextPageToken(walk.offset, Len(page), walk.total) IN
    /\ walk.at = "select"
    /\ walk' = [walk EXCEPT !.got = @ \o page, !.offset = next,
                            !.at = IF next = 0 THEN "done" ELSE "count"]
    /\ UNCHANGED <<rows, changes>>

-----------------------------------------------------------------------------
(* The other requests *)

\* History: how the list being walked has changed, and whether between the two
\* statements of a page.
Noticed(table) ==
    LET before == Matches(rows, walk.filter)
        after  == Matches(table, walk.filter)
        moved  == \E p \in (before \cap after) \X (before \cap after) :
                     p \in Ahead(rows) <=> p \notin Ahead(table) IN
    IF walk.at \in {"count", "select"}
    THEN [walk EXCEPT !.grew   = @ \/ ~(after \subseteq before) \/ moved,
                      !.shrank = @ \/ ~(before \subseteq after) \/ moved,
                      !.torn   = @ \/ (walk.at = "select" /\ (before # after \/ moved))]
    ELSE walk

Change(table) ==
    /\ changes < MaxChanges
    /\ rows' = table
    /\ walk' = Noticed(table)
    /\ changes' = changes + 1

Insert ==
    /\ Len(rows) < MaxRows
    /\ \E u \in Users, f \in Families \cup {None}, type \in Types, d \in Dates :
          Change(Append(rows, [live |-> TRUE, creator |-> u, family |-> f, type |-> type,
                               date |-> d]))

Update(n) ==
    /\ rows[n].live
    /\ \E type \in Types, d \in Dates :
          Change([rows EXCEPT ![n].type = type, ![n].date = d])

SoftDelete(n) ==
    /\ rows[n].live
    /\ Change([rows EXCEPT ![n].live = FALSE])

Next ==
    \/ Begin \/ CountRows \/ SelectRows
    \/ Insert
    \/ \E n \in DOMAIN rows : Update(n) \/ SoftDelete(n)

\* The client goes on as long as there is a next page, and is answered.
Spec == Init /\ [][Next]_vars /\ WF_vars(CountRows) /\ WF_vars(SelectRows)

-----------------------------------------------------------------------------
(* GetDashboard *)

Month(d) == d \div DaysPerMonth
Months(asked) == IF asked <= 0 \/ asked > 12 THEN 6 ELSE asked
CutOff(asked) == Today - Months(asked) * DaysPerMonth

\* The caller's own rows, personal or of the family asked for.
Counted(table, u, f, asked) ==
    {n \in DOMAIN table : /\ table[n].creator = u /\ table[n].live
                          /\ table[n].date >= CutOff(asked)
                          /\ table[n].family \in {None, f}}

Amounts[S \in SUBSET (1 .. MaxRows)] ==
    IF S = {} THEN 0 ELSE LET n == CHOOSE n \in S : TRUE IN AmountOf[n] + Amounts[S \ {n}]

\* The latest first.
Descending(months) == Sorted(months, {p \in months \X months : p[1] > p[2]})

\* Faulty variant of GetMonthlyTotals: as many groups as months are asked for.
LatestTotals(table, u, f, asked) ==
    LET counted == Counted(table, u, f, asked)
        months  == Descending({Month(table[n].date) : n \in counted})
        Of(m, type) == Amounts[{n \in counted : Month(table[n].date) = m
                                                /\ table[n].type = type}] IN
    [i \in 1 .. Min({Len(months), Months(asked)}) |->
        [month |-> months[i], income |-> Of(months[i], "income"),
         expense |-> Of(months[i], "expense")]]

\* One group per month that has rows.
GetMonthlyTotals(table, u, f, asked) ==
    LET counted == Counted(table, u, f, asked)
        months  == Descending({Month(table[n].date) : n \in counted})
        Of(m, type) == Amounts[{n \in counted : Month(table[n].date) = m
                                                /\ table[n].type = type}] IN
    [i \in DOMAIN months |->
        [month |-> months[i], income |-> Of(months[i], "income"),
         expense |-> Of(months[i], "expense")]]

\* Added up one month after the other.
Total(list) ==
    LET sum[i \in 0 .. Len(list)] == IF i = 0 THEN 0 ELSE sum[i - 1] + list[i]
    IN  sum[Len(list)]

GetDashboard(table, u, f, asked) ==
    LET monthly == GetMonthlyTotals(table, u, f, asked) IN
    [income  |-> Total([i \in DOMAIN monthly |-> monthly[i].income]),
     expense |-> Total([i \in DOMAIN monthly |-> monthly[i].expense]),
     monthly |-> monthly,
     recent  |-> Page(table, [family |-> f, type |-> "any", from |-> 0], 5, 0)]

-----------------------------------------------------------------------------
(* Properties *)

Done == walk.at = "done"

\* Following the tokens through a list that does not change yields it exactly,
\* in order and each row once, whatever else happens to the table.
QuietWalkExact == Done /\ ~walk.grew /\ ~walk.shrank => walk.got = walk.start

\* A list that only grows loses no row that was there when the walk began,
\* provided it never grows between the two statements of one page.
GrowingMissesNothing ==
    Done /\ ~walk.shrank /\ ~walk.torn => ToSet(walk.start) \subseteq ToSet(walk.got)

\* A list that only shrinks never shows a row twice.
ShrinkingRepeatsNothing ==
    ~walk.grew => \A i, j \in DOMAIN walk.got : walk.got[i] = walk.got[j] => i = j

\* A walk ends, once the table stops changing: no page hands out the token of
\* its own offset for ever.
WalkEnds == walk.at = "count" ~> Done

\* The totals of a dashboard are those of its months, the months are distinct,
\* and together they count every row of the window once.
TotalsAddUp ==
    walk.at = "idle" => \A u \in Users, f \in Families \cup {None}, asked \in {0, 1, 2, 13} :
        LET d   == GetDashboard(rows, u, f, asked)
            All(type) == {n \in Counted(rows, u, f, asked) : rows[n].type = type} IN
        /\ d.income = Amounts[All("income")] /\ d.expense = Amounts[All("expense")]
        /\ \A i, j \in DOMAIN d.monthly : i < j => d.monthly[i].month > d.monthly[j].month
=============================================================================
