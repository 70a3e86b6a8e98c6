---------------------------- MODULE ListingProofs ----------------------------
(***************************************************************************)
(* Theorems about Listing, for tables of any length and any change of them *)
(* between two statements: what a client gets that walks the pages, and    *)
(* what the totals of a dashboard count.                                   *)
(***************************************************************************)
EXTENDS Listing, FiniteSetTheorems, SequenceTheorems, TLAPS

-----------------------------------------------------------------------------
(* Least elements *)

\* Of a family of subsets of a finite set, one contains no other.
LEMMA MinimalSubset ==
    ASSUME NEW S, IsFiniteSet(S), NEW F \in SUBSET (SUBSET S), F # {}
    PROVE  \E A \in F : \A B \in F : B \subseteq A => B = A
<1>1. F \subseteq FiniteSubsetsOf(S)
  BY FS_FiniteSubsetsOfFinite
<1>2. PICK A \in F : \A B \in F : <<B, A>> \notin StrictSubsetOrdering(S)
  BY <1>1, FS_StrictSubsetOrderingWellFounded, WFMin
<1>3. QED
  BY <1>2 DEF StrictSubsetOrdering

\* A set of natural numbers that is not empty has a least element.
LEMMA LeastNat ==
    ASSUME NEW T \in SUBSET Nat, T # {}
    PROVE  \E k \in T : \A l \in T : k <= l
<1>1. PICK n \in T : TRUE
  OBVIOUS
<1> DEFINE F == {0 .. k : k \in {l \in T : l <= n}}
<1>2. F \in SUBSET (SUBSET (0 .. n))
  OBVIOUS
<1>3. IsFiniteSet(0 .. n) /\ 0 .. n \in F
  <2>1. n \in {l \in T : l <= n}
    OBVIOUS
  <2>2. IsFiniteSet(0 .. n)
    <3>1. 0 \in Int /\ n \in Int
      OBVIOUS
    <3>2. QED
      BY ONLY <3>1, FS_Interval
  <2>3. QED
    BY <2>1, <2>2
<1>4. \E A \in F : \A B \in F : B \subseteq A => B = A
  <2> DEFINE S == 0 .. n
  <2>1. F \in SUBSET (SUBSET S) /\ IsFiniteSet(S) /\ F # {}
    BY <1>2, <1>3
  <2> HIDE DEF F, S
  <2>2. QED
    BY <2>1, MinimalSubset
<1>5. PICK A \in F : \A B \in F : B \subseteq A => B = A
  BY <1>4
<1>6. PICK k \in T : k <= n /\ A = 0 .. k
  OBVIOUS
<1>7. ASSUME NEW l \in T, l < k PROVE FALSE
  <2>1. 0 .. l \in F /\ 0 .. l \subseteq A
    BY <1>6, <1>7
  <2>2. 0 .. l = 0 .. k
    BY <1>5, <1>6, <2>1
  <2>3. k \in 0 .. k /\ k \notin 0 .. l
    BY <1>7
  <2>4. QED
    BY <2>2, <2>3
<1>8. QED
  BY <1>6, <1>7

-----------------------------------------------------------------------------
(* Sorted *)

\* R orders S strictly, and any two elements of it.
Orders(R, S) ==
    /\ \A x \in S : <<x, x>> \notin R
    /\ \A x, y, z \in S : <<x, y>> \in R /\ <<y, z>> \in R => <<x, z>> \in R
    /\ \A x, y \in S : x = y \/ <<x, y>> \in R \/ <<y, x>> \in R

Before(S, R, x) == {y \in S : <<y, x>> \in R}
Rank(S, R, x)   == Cardinality(Before(S, R, x))

LEMMA RankOrder ==
    ASSUME NEW S, IsFiniteSet(S), NEW R, Orders(R, S)
    PROVE  /\ \A x \in S : Rank(S, R, x) \in 0 .. Cardinality(S) - 1
           /\ \A x, y \in S : <<x, y>> \in R => Rank(S, R, x) < Rank(S, R, y)
<1>1. \A x : Before(S, R, x) \in SUBSET S
  BY DEF Before
<1>2. \A x : /\ IsFiniteSet(Before(S, R, x))
            /\ Rank(S, R, x) \in Nat /\ Rank(S, R, x) <= Cardinality(S)
  BY <1>1, FS_Subset, FS_CardinalityType DEF Rank
<1>3. Cardinality(S) \in Nat
  BY FS_CardinalityType
<1>4. ASSUME NEW x \in S PROVE Rank(S, R, x) # Cardinality(S)
  <2>1. x \notin Before(S, R, x)
    BY DEF Orders, Before
  <2>2. Rank(S, R, x) = Cardinality(S) => Before(S, R, x) = S
    BY <1>1, FS_Subset DEF Rank
  <2>3. QED
    BY <2>1, <2>2
<1>5. ASSUME NEW x \in S, NEW y \in S, <<x, y>> \in R PROVE Rank(S, R, x) < Rank(S, R, y)
  <2>1. Before(S, R, x) \in SUBSET Before(S, R, y)
    BY <1>5 DEF Orders, Before
  <2>2. x \in Before(S, R, y) /\ x \notin Before(S, R, x)
    BY <1>5 DEF Orders, Before
  <2>3. /\ Rank(S, R, x) <= Rank(S, R, y)
        /\ Rank(S, R, x) = Rank(S, R, y) => Before(S, R, x) = Before(S, R, y)
    BY <1>2, <2>1, FS_Subset DEF Rank
  <2>4. QED
    BY <1>2, <2>2, <2>3
<1>6. QED
  BY <1>2, <1>3, <1>4, <1>5

\* Sorted lists every element of S once, at the place its rank says.
LEMMA SortedFacts ==
    ASSUME NEW S, IsFiniteSet(S), NEW R, Orders(R, S)
    PROVE  /\ Sorted(S, R) \in Seq(S) /\ Len(Sorted(S, R)) = Cardinality(S)
           /\ DOMAIN Sorted(S, R) = 1 .. Cardinality(S) /\ Cardinality(S) \in Nat
           /\ \A i \in 1 .. Cardinality(S) :
                 Sorted(S, R)[i] \in S /\ Rank(S, R, Sorted(S, R)[i]) = i - 1
           /\ \A x \in S : /\ Rank(S, R, x) \in 0 .. Cardinality(S) - 1
                           /\ Sorted(S, R)[Rank(S, R, x) + 1] = x
<1> DEFINE n == Cardinality(S)
           f == [x \in S |-> Rank(S, R, x) + 1]
<1>1. n \in Nat
  BY FS_CardinalityType
<1>2. \A x \in S : Rank(S, R, x) \in 0 .. n - 1
  BY RankOrder
<1>3. ASSUME NEW x \in S, NEW y \in S, Rank(S, R, x) = Rank(S, R, y) PROVE x = y
  <2>1. ~(Rank(S, R, x) < Rank(S, R, y)) /\ ~(Rank(S, R, y) < Rank(S, R, x))
    BY <1>2, <1>3
  <2>2. QED
    BY <2>1, RankOrder DEF Orders
<1>4. f \in Injection(S, 1 .. n)
  BY <1>1, <1>2, <1>3 DEF Injection, IsInjective
<1>5. IsFiniteSet(1 .. n) /\ Cardinality(1 .. n) = n
  BY <1>1, FS_Interval
<1>6. f \in Surjection(S, 1 .. n)
  <2> HIDE DEF f, n
  <2> QED
    BY <1>4, <1>5, FS_Injection DEF n
<1>7. ASSUME NEW i \in 1 .. n PROVE \E x \in S : Rank(S, R, x) = i - 1
  <2>1. PICK x \in S : f[x] = i
    BY <1>6 DEF Surjection
  <2>2. Rank(S, R, x) + 1 = i /\ Rank(S, R, x) \in Nat
    BY <1>1, <1>2, <2>1
  <2>3. QED
    BY <2>2
<1>8. Sorted(S, R) = [i \in 1 .. n |-> CHOOSE x \in S : Rank(S, R, x) = i - 1]
  BY DEF Sorted, Rank, Before
<1>9. \A i \in 1 .. n : Sorted(S, R)[i] \in S /\ Rank(S, R, Sorted(S, R)[i]) = i - 1
  BY <1>7, <1>8
<1>10. Sorted(S, R) \in Seq(S) /\ Len(Sorted(S, R)) = n /\ DOMAIN Sorted(S, R) = 1 .. n
  BY <1>1, <1>8, <1>9
<1>11. ASSUME NEW x \in S PROVE Sorted(S, R)[Rank(S, R, x) + 1] = x
  <2>1. Rank(S, R, x) + 1 \in 1 .. n /\ (Rank(S, R, x) + 1) - 1 = Rank(S, R, x)
    BY <1>1, <1>2
  <2>2. QED
    BY <1>3, <1>9, <2>1
<1>12. QED
  BY <1>1, <1>2, <1>9, <1>10, <1>11

\* A later place in the list is a later place in the order.
LEMMA SortedOrder ==
    ASSUME NEW S, IsFiniteSet(S), NEW R, Orders(R, S), NEW i \in 1 .. Cardinality(S),
           NEW j \in 1 .. Cardinality(S), i < j
    PROVE  <<Sorted(S, R)[i], Sorted(S, R)[j]>> \in R
<1> DEFINE x == Sorted(S, R)[i]
           y == Sorted(S, R)[j]
<1>1. x \in S /\ y \in S /\ Rank(S, R, x) = i - 1 /\ Rank(S, R, y) = j - 1
  BY SortedFacts
<1>2. Cardinality(S) \in Nat
  BY FS_CardinalityType
<1>3. ~(Rank(S, R, y) < Rank(S, R, x)) /\ x # y
  BY <1>1, <1>2
<1>4. QED
  BY <1>1, <1>3, RankOrder DEF Orders

\* Elements that join a list push the others back, never forward.
LEMMA RankGrows ==
    ASSUME NEW S, NEW T, IsFiniteSet(T), S \subseteq T, NEW Q, NEW R,
           \A x, y \in S : <<x, y>> \in Q <=> <<x, y>> \in R, NEW x \in S
    PROVE  Rank(S, Q, x) <= Rank(T, R, x)
<1>1. Before(S, Q, x) \in SUBSET Before(T, R, x) /\ Before(T, R, x) \in SUBSET T
  BY DEF Before
<1>2. QED
  BY <1>1, FS_Subset DEF Rank

LEMMA SameSorted ==
    ASSUME NEW S, IsFiniteSet(S), NEW Q, NEW R, Orders(Q, S), Orders(R, S),
           \A x, y \in S : <<x, y>> \in Q <=> <<x, y>> \in R
    PROVE  Sorted(S, Q) = Sorted(S, R)
<1>1. \A x \in S : Rank(S, Q, x) = Rank(S, R, x)
  <2>1. \A x \in S : Before(S, Q, x) = Before(S, R, x)
    BY DEF Before
  <2>2. QED
    BY <2>1 DEF Rank
<1>2. ASSUME NEW i \in 1 .. Cardinality(S) PROVE Sorted(S, Q)[i] = Sorted(S, R)[i]
  <2>1. Sorted(S, Q)[i] \in S /\ Rank(S, R, Sorted(S, Q)[i]) = i - 1
    BY <1>1, SortedFacts
  <2>2. Rank(S, R, Sorted(S, Q)[i]) + 1 = i
    BY <2>1
  <2>3. Sorted(S, R)[Rank(S, R, Sorted(S, Q)[i]) + 1] = Sorted(S, Q)[i]
    BY <2>1, SortedFacts
  <2>4. QED
    BY <2>2, <2>3
<1> DEFINE Item(O, i) == CHOOSE x \in S : Cardinality({y \in S : <<y, x>> \in O}) = i - 1
<1>3. /\ Sorted(S, Q) = [i \in 1 .. Cardinality(S) |-> Item(Q, i)]
      /\ Sorted(S, R) = [i \in 1 .. Cardinality(S) |-> Item(R, i)]
  BY DEF Sorted
<1> HIDE DEF Item
<1>4. \A i \in 1 .. Cardinality(S) : Item(Q, i) = Item(R, i)
  BY <1>2, <1>3
<1>5. QED
  BY <1>3, <1>4

-----------------------------------------------------------------------------
(* Lists and pages *)

Table(t) == t \in Seq(Row) /\ Len(t) <= MaxRows

Place(t, filter, n) == Rank(Matches(t, filter), Ahead(t), n)

LEMMA SeqWider == ASSUME NEW S, NEW T, S \subseteq T, NEW s \in Seq(S) PROVE s \in Seq(T)
OBVIOUS

LEMMA DateType ==
    ASSUME NEW t, Table(t), NEW n \in 1 .. Len(t)
    PROVE  t[n] \in Row /\ t[n].date \in Nat
<1>1. t \in Seq(Row) /\ Len(t) \in Nat
  BY DEF Table
<1>2. t[n] \in Row
  BY <1>1
<1>3. t[n].date \in Dates
  BY <1>2 DEF Row
<1>4. Dates \subseteq 0 .. Today /\ Today \in Nat
  BY ConstantsAssumption
<1>5. \A d \in 0 .. Today : d \in Nat
  BY <1>4
<1>6. t[n].date \in 0 .. Today
  BY <1>3, <1>4, Zenon
<1>7. QED
  BY <1>2, <1>5, <1>6

LEMMA MatchFacts ==
    ASSUME NEW t, Table(t), NEW filter
    PROVE  /\ Matches(t, filter) \in SUBSET (1 .. Len(t)) /\ Len(t) \in Nat
           /\ IsFiniteSet(Matches(t, filter))
           /\ Orders(Ahead(t), Matches(t, filter))
<1>1. Len(t) \in Nat /\ DOMAIN t = 1 .. Len(t)
  BY DEF Table
<1>2. Matches(t, filter) \in SUBSET (1 .. Len(t))
  BY <1>1 DEF Matches
<1>3. IsFiniteSet(Matches(t, filter))
  <2>1. IsFiniteSet(1 .. Len(t))
    BY <1>1, FS_Interval
  <2>2. QED
    BY <1>2, <2>1, FS_Subset
<1>4. \A m, n \in 1 .. Len(t) :
          <<m, n>> \in Ahead(t) <=> \/ t[m].date > t[n].date
                                    \/ t[m].date = t[n].date /\ m > n
  BY DEF Ahead
<1>5. Orders(Ahead(t), 1 .. Len(t))
  <2>1. \A n \in 1 .. Len(t) : n \in Nat /\ t[n].date \in Nat
    BY <1>1, DateType
  <2> DEFINE d(n) == t[n].date
  <2>2. \A n \in 1 .. Len(t) : n \in Nat /\ d(n) \in Nat
    BY <2>1
  <2>3. \A m, n \in 1 .. Len(t) :
            <<m, n>> \in Ahead(t) <=> d(m) > d(n) \/ (d(m) = d(n) /\ m > n)
    BY <1>4
  <2> HIDE DEF d
  <2>4. \A n \in 1 .. Len(t) : <<n, n>> \notin Ahead(t)
    BY <2>2, <2>3
  <2>5. \A l, m, n \in 1 .. Len(t) :
            <<l, m>> \in Ahead(t) /\ <<m, n>> \in Ahead(t) => <<l, n>> \in Ahead(t)
    BY <2>2, <2>3
  <2>6. \A m, n \in 1 .. Len(t) : m = n \/ <<m, n>> \in Ahead(t) \/ <<n, m>> \in Ahead(t)
    <3>1. ASSUME NEW m \in 1 .. Len(t), NEW n \in 1 .. Len(t)
          PROVE  m = n \/ <<m, n>> \in Ahead(t) \/ <<n, m>> \in Ahead(t)
      <4>1. m \in Nat /\ n \in Nat /\ d(m) \in Nat /\ d(n) \in Nat
        BY <2>2
      <4>2. m = n \/ m > n \/ n > m
        BY ONLY <4>1
      <4>3. d(m) = d(n) \/ d(m) > d(n) \/ d(n) > d(m)
        BY ONLY <4>1
      <4>4. QED
        BY <2>3, <4>2, <4>3
    <3>2. QED
      BY <3>1
  <2>7. QED
    BY <2>4, <2>5, <2>6 DEF Orders
<1>6. Orders(Ahead(t), Matches(t, filter))
  BY <1>2, <1>5 DEF Orders
<1>7. QED
  BY <1>1, <1>2, <1>3, <1>6

LEMMA ListFacts ==
    ASSUME NEW t, Table(t), NEW filter
    PROVE  /\ Listed(t, filter) \in Seq(Nat) /\ Len(Listed(t, filter)) = Count(t, filter)
           /\ DOMAIN Listed(t, filter) = 1 .. Count(t, filter) /\ Count(t, filter) \in Nat
           /\ \A i \in 1 .. Count(t, filter) :
                 /\ Listed(t, filter)[i] \in Matches(t, filter)
                 /\ Place(t, filter, Listed(t, filter)[i]) = i - 1
           /\ \A n \in Matches(t, filter) :
                 /\ Place(t, filter, n) \in 0 .. Count(t, filter) - 1
                 /\ Listed(t, filter)[Place(t, filter, n) + 1] = n
<1> DEFINE S == Matches(t, filter)
           R == Ahead(t)
<1>1. IsFiniteSet(S) /\ Orders(R, S) /\ S \subseteq Nat
  BY MatchFacts
<1>2. Listed(t, filter) = Sorted(S, R) /\ Count(t, filter) = Cardinality(S)
  BY DEF Listed, Count
<1>3. \A n : Place(t, filter, n) = Rank(S, R, n)
  BY DEF Place
<1> HIDE DEF S, R
<1>4. Sorted(S, R) \in Seq(S) /\ Sorted(S, R) \in Seq(Nat)
  <2>1. Sorted(S, R) \in Seq(S)
    BY <1>1, SortedFacts
  <2>2. QED
    BY <1>1, <2>1, SeqWider
<1>5. /\ DOMAIN Sorted(S, R) = 1 .. Cardinality(S) /\ Cardinality(S) \in Nat
      /\ Len(Sorted(S, R)) = Cardinality(S)
      /\ \A i \in 1 .. Cardinality(S) :
            Sorted(S, R)[i] \in S /\ Rank(S, R, Sorted(S, R)[i]) = i - 1
      /\ \A n \in S : /\ Rank(S, R, n) \in 0 .. Cardinality(S) - 1
                      /\ Sorted(S, R)[Rank(S, R, n) + 1] = n
  BY <1>1, SortedFacts
<1>6. QED
  BY <1>2, <1>3, <1>4, <1>5 DEF S

LEMMA ListSet ==
    ASSUME NEW t, Table(t), NEW filter PROVE ToSet(Listed(t, filter)) = Matches(t, filter)
<1>1. ASSUME NEW n \in Matches(t, filter)
      PROVE  \E i \in 1 .. Count(t, filter) : Listed(t, filter)[i] = n
  <2>1. Place(t, filter, n) + 1 \in 1 .. Count(t, filter)
    BY ListFacts
  <2>2. QED
    BY <2>1, ListFacts
<1>2. /\ DOMAIN Listed(t, filter) = 1 .. Count(t, filter)
      /\ \A i \in 1 .. Count(t, filter) : Listed(t, filter)[i] \in Matches(t, filter)
  BY ListFacts
<1>3. QED
  BY <1>1, <1>2 DEF ToSet

LEMMA MinOfTwo ==
    ASSUME NEW a \in Nat, NEW b \in Nat
    PROVE  Min({a, b}) = IF a <= b THEN a ELSE b
BY DEF Min

\* A page is a stretch of the list, and empty only behind its end.
PartFrom(offset, page, list) ==
    /\ page \in Seq(Nat) /\ Len(page) \in Nat
    /\ Len(page) = 0 => Len(list) <= offset
    /\ Len(page) # 0 => offset + Len(page) <= Len(list)
    /\ \A i \in 1 .. Len(page) : page[i] = list[offset + i]

LEMMA PageFacts ==
    ASSUME NEW t, Table(t), NEW filter, NEW size \in Int, NEW offset \in Nat
    PROVE  PartFrom(offset, Page(t, filter, size, offset), Listed(t, filter))
<1> DEFINE page  == Page(t, filter, size, offset)
           list  == Listed(t, filter)
           limit == RowLimit(size)
           upTo  == IF offset + limit <= Len(list) THEN offset + limit ELSE Len(list)
<1>1. list \in Seq(Nat) /\ Len(list) \in Nat /\ DOMAIN list = 1 .. Len(list)
  BY ListFacts
<1>2. limit \in Nat /\ limit > 0
  BY ConstantsAssumption DEF RowLimit
<1>3. page = SubSeq(list, offset + 1, upTo)
  <2>1. Min({offset + limit, Len(list)}) = upTo
    <3>1. offset + limit \in Nat /\ Len(list) \in Nat
      BY <1>1, <1>2
    <3> HIDE DEF limit, list
    <3>2. QED
      BY <3>1, MinOfTwo
  <2>2. page = SubSeq(list, offset + 1, Min({offset + limit, Len(list)}))
    <3>1. (IF offset < 0 THEN 0 ELSE offset) = offset
      OBVIOUS
    <3>2. QED
      BY <3>1 DEF Page
  <2>3. QED
    BY <2>1, <2>2
<1> HIDE DEF page, list, limit
<1>4. upTo \in Nat /\ upTo <= Len(list) /\ (upTo <= offset => Len(list) <= offset)
  BY <1>1, <1>2
<1> HIDE DEF upTo
<1>5. CASE upTo <= offset
  <2>1. page = << >>
    <3>1. offset + 1 \in Int /\ upTo \in Int /\ upTo < offset + 1
      BY <1>4, <1>5
    <3>2. QED
      BY <1>3, <3>1, SubSeqEmpty
  <2>2. page \in Seq(Nat) /\ Len(page) = 0
    BY <2>1
  <2>3. /\ Len(page) \in Nat /\ Len(list) <= offset
        /\ \A i \in 1 .. Len(page) : page[i] = list[offset + i]
    BY <1>4, <1>5, <2>2
  <2>4. QED
    BY Zenon, <2>2, <2>3 DEF PartFrom, page, list
<1>6. CASE offset < upTo
  <2> DEFINE m == offset + 1
  <2>1. m \in Int /\ upTo \in Int /\ m <= upTo /\ \A i \in m .. upTo : list[i] \in Nat
    BY <1>1, <1>4, <1>6
  <2> HIDE DEF m
  <2>2. /\ SubSeq(list, m, upTo) \in Seq(Nat)
        /\ Len(SubSeq(list, m, upTo)) = IF m <= upTo THEN upTo - m + 1 ELSE 0
        /\ \A i \in 1 .. upTo - m + 1 : SubSeq(list, m, upTo)[i] = list[m + i - 1]
    BY <2>1, SubSeqProperties
  <2>3. \A i \in Nat : m + i - 1 = offset + i
    BY DEF m
  <2>4. /\ page \in Seq(Nat) /\ Len(page) = upTo - offset
        /\ \A i \in 1 .. upTo - offset : page[i] = list[offset + i]
    <3>1. upTo - m + 1 = upTo - offset /\ upTo - offset \in Nat
      BY <1>4, <1>6 DEF m
    <3>2. Len(page) = upTo - offset /\ page \in Seq(Nat)
      BY <1>3, <2>1, <2>2, <3>1 DEF m
    <3>3. ASSUME NEW i \in 1 .. upTo - offset PROVE page[i] = list[offset + i]
      <4>1. page[i] = list[m + i - 1]
        BY <1>3, <2>2, <3>1 DEF m
      <4>2. QED
        BY <2>3, <3>1, <4>1
    <3>4. QED
      BY <3>2, <3>3
  <2>5. Len(page) \in Nat /\ Len(page) # 0 /\ offset + Len(page) = upTo
    BY <1>4, <1>6, <2>4
  <2>6. /\ Len(page) = 0 => Len(list) <= offset
        /\ Len(page) # 0 => offset + Len(page) <= Len(list)
        /\ \A i \in 1 .. Len(page) : page[i] = list[offset + i]
    BY <1>4, <2>4, <2>5
  <2>7. QED
    BY Zenon, <2>4, <2>5, <2>6 DEF PartFrom, page, list
<1>7. QED
  BY <1>4, <1>5, <1>6

\* What a walk notices, and what stays as it was when it does not.
LEMMA Unmoved ==
    ASSUME NEW t, Table(t), NEW u, Table(u), NEW filter,
           \A p \in (Matches(t, filter) \cap Matches(u, filter))
                        \X (Matches(t, filter) \cap Matches(u, filter)) :
               p \in Ahead(t) <=> p \in Ahead(u)
    PROVE  /\ Matches(t, filter) \subseteq Matches(u, filter) =>
                 \A n \in Matches(t, filter) : Place(t, filter, n) <= Place(u, filter, n)
           /\ Matches(u, filter) \subseteq Matches(t, filter) =>
                 \A n \in Matches(u, filter) : Place(u, filter, n) <= Place(t, filter, n)
           /\ Matches(t, filter) = Matches(u, filter) => Listed(t, filter) = Listed(u, filter)
<1> DEFINE S == Matches(t, filter)
           T == Matches(u, filter)
<1>1. IsFiniteSet(S) /\ IsFiniteSet(T) /\ Orders(Ahead(t), S) /\ Orders(Ahead(u), T)
  BY MatchFacts
<1>2. \A x, y \in S \cap T : <<x, y>> \in Ahead(t) <=> <<x, y>> \in Ahead(u)
  OBVIOUS
<1> HIDE DEF S, T
<1>3. ASSUME S \subseteq T, NEW n \in S PROVE Rank(S, Ahead(t), n) <= Rank(T, Ahead(u), n)
  BY <1>1, <1>2, <1>3, RankGrows
<1>4. ASSUME T \subseteq S, NEW n \in T PROVE Rank(T, Ahead(u), n) <= Rank(S, Ahead(t), n)
  <2>1. \A x, y \in T : <<x, y>> \in Ahead(u) <=> <<x, y>> \in Ahead(t)
    BY <1>2, <1>4
  <2>2. QED
    BY <1>1, <1>4, <2>1, RankGrows
<1>5. ASSUME S = T PROVE Sorted(S, Ahead(t)) = Sorted(S, Ahead(u))
  BY <1>1, <1>2, <1>5, SameSorted
<1>6. QED
  BY <1>3, <1>4, <1>5 DEF S, T, Place, Listed

-----------------------------------------------------------------------------
(* The walk *)

SomeFilter == CHOOSE f \in Filters : TRUE
Walk == [at : {"idle", "count", "select", "done"},
         filter : {SomeFilter} \cup Filters, size : {0} \cup PageSizes,
         offset : Nat, total : Nat, got : Seq(Nat), start : Seq(Nat),
         grew : BOOLEAN, shrank : BOOLEAN, torn : BOOLEAN]

TypeOK == Table(rows) /\ changes \in Nat /\ walk \in Walk

Going   == walk.at \in {"count", "select"}
List    == Listed(rows, walk.filter)
Rows    == Matches(rows, walk.filter)
Behind  == {n \in Rows : Place(rows, walk.filter, n) < walk.offset}

\* The total a token is computed from, as long as it is not out of date.
CountInv == walk.at = "select" /\ ~walk.torn => walk.total = Len(List)

\* What the client has is the first part of the list.
QuietInv ==
    ~walk.grew /\ ~walk.shrank =>
        /\ ~walk.torn
        /\ Going => /\ List = walk.start /\ walk.offset <= Len(walk.start)
                    /\ walk.got = SubSeq(walk.start, 1, walk.offset)
        /\ Done => walk.got = walk.start

\* A row of the first list is still in the list, and fetched if the offset is
\* behind it.
GrowInv ==
    ~walk.shrank =>
        /\ Going => ToSet(walk.start) \subseteq Rows
        /\ ~walk.torn => /\ Going => ToSet(walk.start) \cap Behind \subseteq ToSet(walk.got)
                         /\ Done => ToSet(walk.start) \subseteq ToSet(walk.got)

\* No row is fetched twice, and what is fetched and still listed is before the
\* offset.
ShrinkInv ==
    ~walk.grew =>
        /\ \A i, j \in DOMAIN walk.got : walk.got[i] = walk.got[j] => i = j
        /\ Going => ToSet(walk.got) \cap Rows \subseteq Behind

WalkInv == CountInv /\ QuietInv /\ GrowInv /\ ShrinkInv

LEMMA InitWalk == Init => TypeOK /\ WalkInv
<1> SUFFICES ASSUME Init PROVE TypeOK /\ WalkInv
  OBVIOUS
<1>1. NoWalk = [at |-> "idle", filter |-> SomeFilter, size |-> 0, offset |-> 0, total |-> 0,
                got |-> << >>, start |-> << >>,
                 grew |-> FALSE, shrank |-> FALSE, torn |-> FALSE]
  BY DEF NoWalk, SomeFilter
<1>2. SomeFilter \in {SomeFilter} \cup Filters
  OBVIOUS
<1>3. walk \in Walk
  BY <1>1, <1>2 DEF Init, Walk
<1>4. Table(rows) /\ changes \in Nat
  BY ConstantsAssumption DEF Init, Table
<1>5. WalkInv
  BY <1>1 DEF Init, WalkInv, CountInv, QuietInv, GrowInv, ShrinkInv, Going, Done
<1>6. QED
  BY <1>3, <1>4, <1>5 DEF TypeOK

\* A walk begins with nothing fetched.
LEMMA BeginWalk == ASSUME TypeOK, Begin PROVE TypeOK' /\ WalkInv'
<1>1. PICK filter \in Filters, size \in PageSizes :
         walk' = [NoWalk EXCEPT !.at = "count", !.filter = filter, !.size = size,
                                !.start = Listed(rows, filter)]
  BY DEF Begin
<1>2. UNCHANGED <<rows, changes>> /\ Table(rows) /\ changes \in Nat
  BY DEF Begin, TypeOK
<1>3. Listed(rows, filter) \in Seq(Nat) /\ ToSet(Listed(rows, filter)) = Matches(rows, filter)
      /\ Len(Listed(rows, filter)) \in Nat
  BY <1>2, ListFacts, ListSet
<1>4. walk' = [at |-> "count", filter |-> filter, size |-> size, offset |-> 0, total |-> 0,
               got |-> << >>, start |-> Listed(rows, filter), grew |-> FALSE,
               shrank |-> FALSE, torn |-> FALSE]
  BY <1>1 DEF NoWalk
<1>5. TypeOK'
  BY <1>2, <1>3, <1>4 DEF TypeOK, Table, Walk
<1>6. /\ walk'.at = "count" /\ walk'.filter = filter /\ walk'.offset = 0 /\ walk'.got = << >>
      /\ walk'.start = Listed(rows, filter) /\ walk'.torn = FALSE
  BY <1>4
<1>7. SubSeq(walk'.start, 1, 0) = << >>
  BY SubSeqEmpty
<1>8. QuietInv'
  BY <1>2, <1>3, <1>6, <1>7 DEF QuietInv, Going, Done, List
<1>9. GrowInv'
  <2>1. Behind' = {}
    <3>1. \A n \in Matches(rows, filter) : Place(rows, filter, n) \in Nat
      BY <1>2, ListFacts
    <3>2. QED
      BY <1>2, <1>6, <3>1 DEF Behind, Rows
  <2>2. QED
    BY <1>2, <1>3, <1>6, <2>1 DEF GrowInv, Going, Done, Rows
<1>10. ShrinkInv' /\ CountInv'
  BY <1>6 DEF ShrinkInv, CountInv, ToSet
<1>11. QED
  BY <1>5, <1>8, <1>9, <1>10 DEF WalkInv

LEMMA CountWalk == ASSUME TypeOK, WalkInv, CountRows PROVE TypeOK' /\ WalkInv'
<1>1. /\ walk.at = "count" /\ UNCHANGED <<rows, changes>>
      /\ walk' = [walk EXCEPT !.at = "select", !.total = Count(rows, walk.filter)]
  BY DEF CountRows
<1>2. Count(rows, walk.filter) \in Nat /\ Len(List) = Count(rows, walk.filter)
  BY ListFacts DEF TypeOK, List
<1>3. TypeOK'
  BY <1>1, <1>2 DEF TypeOK, Table, Walk
<1>4. /\ walk'.at = "select" /\ walk'.total = Count(rows, walk.filter)
      /\ walk'.filter = walk.filter /\ walk'.offset = walk.offset /\ walk'.got = walk.got
      /\ walk'.start = walk.start /\ walk'.grew = walk.grew /\ walk'.shrank = walk.shrank
      /\ walk'.torn = walk.torn
  BY <1>1 DEF TypeOK, Walk
<1>5. List' = List /\ Rows' = Rows /\ Behind' = Behind
  BY <1>1, <1>4 DEF List, Rows, Behind
<1>6. Going /\ Going' /\ ~Done'
  BY <1>1, <1>4 DEF Going, Done
<1>7. CountInv'
  BY <1>2, <1>4, <1>5 DEF CountInv
<1>8. QuietInv' /\ GrowInv' /\ ShrinkInv'
  BY <1>4, <1>5, <1>6 DEF WalkInv, QuietInv, GrowInv, ShrinkInv
<1>9. QED
  BY <1>3, <1>7, <1>8 DEF WalkInv

\* Another request changes the table.
LEMMA ChangeWalk ==
    ASSUME TypeOK, WalkInv, NEW t, Table(t), Change(t) PROVE TypeOK' /\ WalkInv'
<1> DEFINE A == Matches(t, walk.filter)
           moved == \E p \in (Rows \cap A) \X (Rows \cap A) :
                       p \in Ahead(rows) <=> p \notin Ahead(t)
<1>1. rows' = t /\ walk' = Noticed(t) /\ changes' = changes + 1 /\ Table(rows)
  BY DEF Change, TypeOK
<1>2. CASE ~Going
  <2>1. walk' = walk
    BY <1>1, <1>2 DEF Noticed, Going
  <2>2. TypeOK'
    BY <1>1, <2>1 DEF TypeOK, Table, Walk
  <2>3. QED
    BY <1>2, <2>1, <2>2 DEF WalkInv, CountInv, QuietInv, GrowInv, ShrinkInv, Going, Done
<1>3. CASE Going
  <2>1. walk' = [walk EXCEPT !.grew   = @ \/ ~(A \subseteq Rows) \/ moved,
                             !.shrank = @ \/ ~(Rows \subseteq A) \/ moved,
                             !.torn   = @ \/ (walk.at = "select" /\ (Rows # A \/ moved))]
    BY <1>1, <1>3, Zenon DEF Noticed, Going, Rows
  <2> HIDE DEF moved, A
  <2>2. /\ walk'.at = walk.at /\ walk'.filter = walk.filter /\ walk'.offset = walk.offset
        /\ walk'.total = walk.total /\ walk'.got = walk.got /\ walk'.start = walk.start
        /\ walk'.grew = (walk.grew \/ ~(A \subseteq Rows) \/ moved)
        /\ walk'.shrank = (walk.shrank \/ ~(Rows \subseteq A) \/ moved)
        /\ walk'.torn = (walk.torn \/ (walk.at = "select" /\ (Rows # A \/ moved)))
    BY <2>1 DEF TypeOK, Walk
  <2>3. TypeOK'
    <3> DEFINE grew   == walk.grew \/ ~(A \subseteq Rows) \/ moved
               shrank == walk.shrank \/ ~(Rows \subseteq A) \/ moved
               torn   == walk.torn \/ (walk.at = "select" /\ (Rows # A \/ moved))
    <3>1. grew \in BOOLEAN /\ shrank \in BOOLEAN /\ torn \in BOOLEAN
      OBVIOUS
    <3>2. walk' = [walk EXCEPT !.grew = grew, !.shrank = shrank, !.torn = torn]
      BY <2>1 DEF TypeOK, Walk
    <3> HIDE DEF grew, shrank, torn
    <3>3. walk' \in Walk
      BY <3>1, <3>2 DEF TypeOK, Walk
    <3>4. QED
      BY <1>1, <3>3 DEF TypeOK, Table
  <2>4. /\ ~walk'.grew => ~walk.grew /\ A \subseteq Rows /\ ~moved
        /\ ~walk'.shrank => ~walk.shrank /\ Rows \subseteq A /\ ~moved
        /\ ~walk'.torn => ~walk.torn /\ (walk.at = "select" => Rows = A /\ ~moved)
        /\ walk'.torn => walk.torn \/ Rows # A \/ moved
    BY <2>2
  <2>5. /\ List' = Listed(t, walk.filter) /\ Rows' = A /\ Going'
        /\ Behind' = {n \in A : Place(t, walk.filter, n) < walk.offset}
        /\ ~Done /\ ~Done'
    BY <1>1, <1>3, <2>2 DEF List, Rows, Behind, Going, A, Done
  <2>6. /\ ~moved /\ Rows \subseteq A =>
              \A n \in Rows : Place(rows, walk.filter, n) <= Place(t, walk.filter, n)
        /\ ~moved /\ A \subseteq Rows =>
              \A n \in A : Place(t, walk.filter, n) <= Place(rows, walk.filter, n)
        /\ ~moved /\ Rows = A => List' = List
    <3>1. ~moved => \A p \in (Rows \cap A) \X (Rows \cap A) :
                       p \in Ahead(rows) <=> p \in Ahead(t)
      BY DEF moved
    <3>2. QED
      BY <1>1, <2>5, <3>1, Unmoved DEF A, Rows, List
  <2>7. /\ \A n \in Rows : Place(rows, walk.filter, n) \in Nat
        /\ \A n \in A : Place(t, walk.filter, n) \in Nat
        /\ walk.offset \in Nat
    BY <1>1, ListFacts DEF A, Rows, TypeOK, Walk
  <2>8. CountInv'
    BY <2>2, <2>4, <2>6 DEF WalkInv, CountInv
  <2>9. QuietInv'
    <3>1. ASSUME ~walk'.grew, ~walk'.shrank
          PROVE  ~walk.grew /\ ~walk.shrank /\ Rows = A /\ ~moved
      BY <2>4, <3>1
    <3>2. QED
      BY <1>3, <2>2, <2>4, <2>5, <2>6, <3>1 DEF WalkInv, QuietInv
  <2>10. GrowInv'
    <3>1. ASSUME ~walk'.shrank, NEW n \in ToSet(walk.start), n \in Behind'
          PROVE  n \in Behind
      <4>1. n \in Rows /\ Place(rows, walk.filter, n) <= Place(t, walk.filter, n)
        BY <1>3, <2>4, <2>6, <3>1 DEF WalkInv, GrowInv
      <4>2. n \in A /\ Place(t, walk.filter, n) < walk.offset
        BY <2>5, <3>1
      <4>3. QED
        BY <2>7, <4>1, <4>2 DEF Behind
    <3>2. QED
      BY <1>3, <2>2, <2>4, <2>5, <3>1 DEF WalkInv, GrowInv
  <2>11. ShrinkInv'
    <3>1. ASSUME ~walk'.grew, NEW n \in ToSet(walk.got), n \in Rows'
          PROVE  n \in Behind'
      <4>1. n \in A /\ n \in Rows
        BY <2>4, <2>5, <3>1
      <4>2. Place(rows, walk.filter, n) < walk.offset
        BY <1>3, <2>4, <3>1, <4>1 DEF WalkInv, ShrinkInv, Behind
      <4>3. Place(t, walk.filter, n) <= Place(rows, walk.filter, n)
        BY <2>4, <2>6, <3>1, <4>1
      <4>4. QED
        BY <2>5, <2>7, <4>1, <4>2, <4>3
    <3>2. QED
      BY <2>2, <2>4, <3>1 DEF WalkInv, ShrinkInv
  <2>12. QED
    BY <2>3, <2>8, <2>9, <2>10, <2>11 DEF WalkInv
<1>4. QED
  BY <1>2, <1>3

\* A page is fetched: what the client has then, and where the next one begins.
LEMMA FetchFacts ==
    ASSUME TypeOK, WalkInv, SelectRows
    PROVE  \E len \in Nat :
              /\ len = 0 => Len(List) <= walk.offset
              /\ len # 0 => walk.offset + len <= Len(List)
              /\ walk'.got \in Seq(Nat) /\ Len(walk'.got) = Len(walk.got) + len
              /\ \A i \in 1 .. Len(walk.got) : walk'.got[i] = walk.got[i]
              /\ \A i \in 1 .. len : walk'.got[Len(walk.got) + i] = List[walk.offset + i]
              /\ Going' => walk'.at = "count" /\ walk'.offset = walk.offset + len
              /\ Done' => walk'.offset = 0 /\ (~walk.torn => Len(List) <= walk.offset + len)
              /\ Going' \/ Done'
              /\ UNCHANGED <<rows, changes>>
              /\ TypeOK'
              /\ walk'.filter = walk.filter /\ walk'.start = walk.start
              /\ walk'.grew = walk.grew /\ walk'.shrank = walk.shrank /\ walk'.torn = walk.torn
<1> DEFINE page == Page(rows, walk.filter, walk.size, walk.offset)
           len  == Len(page)
           next == NextPageToken(walk.offset, len, walk.total)
<1>1. /\ walk.at = "select" /\ UNCHANGED <<rows, changes>>
      /\ walk' = [walk EXCEPT !.got = walk.got \o page, !.offset = next,
                              !.at = IF next = 0 THEN "done" ELSE "count"]
  BY DEF SelectRows
<1>2. /\ walk.offset \in Nat /\ walk.total \in Nat /\ walk.got \in Seq(Nat)
      /\ walk.size \in Int /\ Table(rows)
  <2>1. {0} \cup PageSizes \subseteq Int
    BY ConstantsAssumption
  <2>2. walk.size \in {0} \cup PageSizes
    BY DEF TypeOK, Walk
  <2>3. QED
    BY <2>1, <2>2 DEF TypeOK, Walk
<1>3. /\ page \in Seq(Nat) /\ len \in Nat
      /\ len = 0 => Len(List) <= walk.offset
      /\ len # 0 => walk.offset + len <= Len(List)
      /\ \A i \in 1 .. len : page[i] = List[walk.offset + i]
  <2>1. walk.size \in Int /\ walk.offset \in Nat /\ Table(rows)
    BY <1>2
  <2>2. PartFrom(walk.offset, page, List)
    BY <2>1, PageFacts DEF List
  <2>3. QED
    BY <2>2 DEF PartFrom
<1>4. Len(List) \in Nat
  BY <1>2, ListFacts DEF List
<1>5. next = IF walk.offset + len < walk.total THEN walk.offset + len ELSE 0
  BY DEF NextPageToken
<1> HIDE DEF page, len, next
<1>6. /\ walk'.got = walk.got \o page /\ walk'.offset = next
      /\ walk'.at = (IF next = 0 THEN "done" ELSE "count")
      /\ walk'.filter = walk.filter /\ walk'.start = walk.start
      /\ walk'.grew = walk.grew /\ walk'.shrank = walk.shrank /\ walk'.torn = walk.torn
  BY <1>1 DEF TypeOK, Walk
<1>7. /\ walk'.got \in Seq(Nat) /\ Len(walk'.got) = Len(walk.got) + len
      /\ \A i \in 1 .. Len(walk.got) : walk'.got[i] = walk.got[i]
      /\ \A i \in 1 .. len : walk'.got[Len(walk.got) + i] = page[i]
  BY <1>2, <1>3, <1>6 DEF len
<1>8. next \in Nat
  BY <1>2, <1>3, <1>5
<1>9. TypeOK'
  <2>1. walk' \in Walk
    BY <1>1, <1>6, <1>7, <1>8 DEF TypeOK, Walk
  <2>2. QED
    BY <1>1, <2>1 DEF TypeOK, Table
<1>10. /\ Going' <=> next # 0
       /\ Done' <=> next = 0
  BY <1>6 DEF Going, Done
<1>11. ~walk.torn => walk.total = Len(List)
  BY <1>1 DEF WalkInv, CountInv
<1>12. next = 0 /\ ~walk.torn => Len(List) <= walk.offset + len
  BY <1>2, <1>3, <1>4, <1>5, <1>11
<1>13. next # 0 => next = walk.offset + len
  BY <1>5
<1>14. /\ Going' => walk'.at = "count" /\ walk'.offset = walk.offset + len
       /\ Done' => walk'.offset = 0 /\ (~walk.torn => Len(List) <= walk.offset + len)
       /\ Going' \/ Done'
  BY <1>6, <1>10, <1>12, <1>13
<1>15. \A i \in 1 .. len : walk'.got[Len(walk.got) + i] = List[walk.offset + i]
  BY <1>3, <1>7
<1>16. len \in Nat
  BY <1>3
<1> WITNESS len \in Nat
<1>17. QED
  BY <1>1, <1>3, <1>6, <1>7, <1>9, <1>14, <1>15

LEMMA SelectWalk == ASSUME TypeOK, WalkInv, SelectRows PROVE TypeOK' /\ WalkInv'
<1>0. PICK from \in Nat, had \in Nat : from = walk.offset /\ had = Len(walk.got)
  BY DEF TypeOK, Walk
<1>1. PICK len \in Nat :
         /\ len = 0 => Len(List) <= from
         /\ len # 0 => from + len <= Len(List)
         /\ walk'.got \in Seq(Nat) /\ Len(walk'.got) = had + len
         /\ \A i \in 1 .. had : walk'.got[i] = walk.got[i]
         /\ \A i \in 1 .. len : walk'.got[had + i] = List[from + i]
         /\ Going' => walk'.at = "count" /\ walk'.offset = from + len
         /\ Done' => walk'.offset = 0 /\ (~walk.torn => Len(List) <= from + len)
         /\ Going' \/ Done'
         /\ UNCHANGED <<rows, changes>>
         /\ TypeOK'
         /\ walk'.filter = walk.filter /\ walk'.start = walk.start
         /\ walk'.grew = walk.grew /\ walk'.shrank = walk.shrank /\ walk'.torn = walk.torn
  BY <1>0, FetchFacts
<1>2. /\ from \in Nat /\ had \in Nat /\ from = walk.offset
      /\ walk.got \in Seq(Nat) /\ DOMAIN walk.got = 1 .. had /\ walk.start \in Seq(Nat)
      /\ Table(rows) /\ Going
  BY <1>0 DEF TypeOK, Walk, SelectRows, Going
<1>3. /\ List \in Seq(Nat) /\ Len(List) \in Nat
      /\ \A i \in 1 .. Len(List) : List[i] \in Rows /\ Place(rows, walk.filter, List[i]) = i - 1
      /\ \A n \in Rows : /\ Place(rows, walk.filter, n) \in 0 .. Len(List) - 1
                         /\ List[Place(rows, walk.filter, n) + 1] = n
  BY <1>2, ListFacts DEF List, Rows
<1>4. /\ List' = List /\ Rows' = Rows
      /\ \A n : Place(rows, walk.filter, n)' = Place(rows, walk.filter, n)
  BY <1>1 DEF List, Rows
<1>5. /\ \A i \in 1 .. had : walk.got[i] \in ToSet(walk.got)
      /\ DOMAIN walk'.got = 1 .. had + len
  <2>1. walk'.got \in Seq(Nat) /\ Len(walk'.got) = had + len
    BY <1>1
  <2>2. DOMAIN walk'.got = 1 .. had + len
    BY <2>1
  <2>3. QED
    BY <1>2, <2>2 DEF ToSet
<1>6. /\ len \in Nat
      /\ len = 0 => Len(List) <= from
      /\ len # 0 => from + len <= Len(List)
      /\ Done' /\ ~walk.torn => Len(List) <= from + len
  BY <1>1
<1>7. CountInv'
  BY <1>1 DEF CountInv, Going, Done
<1>8. ASSUME ~walk.grew, ~walk.shrank PROVE QuietInv'
  <2>1. /\ List = walk.start /\ from <= Len(walk.start) /\ ~walk.torn
        /\ walk.got = SubSeq(walk.start, 1, from)
    BY <1>2, <1>8 DEF WalkInv, QuietInv
  <2>2. \A i \in 1 .. from : walk.start[i] \in Nat
    BY <1>2, <2>1
  <2>3. had = from /\ \A i \in 1 .. from : walk.got[i] = walk.start[i]
    BY <1>0, <1>2, <2>1, <2>2, SubSeqProperties
  <2>4. from + len <= Len(walk.start)
    BY <1>1, <1>2, <2>1
  <2>5. \A i \in 1 .. from + len : walk'.got[i] = walk.start[i]
    <3>1. ASSUME NEW i \in 1 .. from + len, ~(i <= from) PROVE walk'.got[i] = walk.start[i]
      <4>1. i - from \in 1 .. len /\ had + (i - from) = i /\ from + (i - from) = i
        BY <1>2, <2>3, <3>1
      <4>2. walk'.got[had + (i - from)] = List[from + (i - from)]
        BY <1>1, <4>1
      <4>3. QED
        BY <2>1, <4>1, <4>2
    <3>2. ASSUME NEW i \in 1 .. from + len, i <= from PROVE walk'.got[i] = walk.start[i]
      BY <1>1, <1>2, <2>3, <3>2
    <3>3. QED
      BY <3>1, <3>2
  <2>6. walk'.got = SubSeq(walk.start, 1, from + len)
    <3> DEFINE to == from + len
    <3>1. to \in Nat /\ to <= Len(walk.start) /\ \A i \in 1 .. to : walk.start[i] \in Nat
      <4>1. Len(walk.start) \in Nat /\ \A i \in 1 .. Len(walk.start) : walk.start[i] \in Nat
        BY <1>2
      <4>2. to \in Nat /\ to <= Len(walk.start)
        BY <1>2, <2>4
      <4> HIDE DEF to
      <4>3. QED
        BY ONLY <4>1, <4>2
    <3>2. /\ SubSeq(walk.start, 1, to) \in Seq(Nat) /\ Len(SubSeq(walk.start, 1, to)) = to
          /\ \A i \in 1 .. to : SubSeq(walk.start, 1, to)[i] = walk.start[i]
      BY <3>1, SubSeqProperties
    <3>3. Len(walk'.got) = to /\ walk'.got \in Seq(Nat)
      BY <1>1, <2>3
    <3> HIDE DEF to
    <3>4. \A i \in 1 .. to : walk'.got[i] = walk.start[i]
      BY <2>5 DEF to
    <3>5. walk'.got = SubSeq(walk.start, 1, to)
      BY <3>1, <3>2, <3>3, <3>4
    <3>6. QED
      BY <3>5 DEF to
  <2>7. Done' => walk'.got = walk.start
    <3>1. SUFFICES ASSUME Done' PROVE walk'.got = walk.start
      OBVIOUS
    <3>2. from + len = Len(walk.start)
      <4>1. Len(List) <= from + len
        BY <1>6, <2>1, <3>1
      <4>2. Len(walk.start) \in Nat /\ Len(walk.start) <= from + len
        BY <1>3, <2>1, <4>1
      <4>3. QED
        BY <1>6, <2>4, <4>2
    <3>3. QED
      BY <1>2, <2>6, <3>2, SubSeqFull
  <2>8. QED
    BY <1>1, <1>4, <2>1, <2>4, <2>6, <2>7 DEF QuietInv
<1>9. ASSUME NEW n \in Rows, Place(rows, walk.filter, n) < from + len,
             Place(rows, walk.filter, n) < from => n \in ToSet(walk.got)
      PROVE  n \in ToSet(walk'.got)
  <2> DEFINE k == Place(rows, walk.filter, n)
  <2>1. CASE k < from
    <3>1. PICK i \in 1 .. had : walk.got[i] = n
      BY <1>2, <1>9, <2>1 DEF ToSet
    <3>2. i \in 1 .. had + len
      BY <1>2
    <3>3. walk'.got[i] = n
      BY <1>1, <3>1
    <3>4. QED
      BY <1>5, <3>2, <3>3 DEF ToSet
  <2>2. CASE ~(k < from)
    <3>1. k \in Nat /\ List[k + 1] = n
      BY <1>3
    <3>2. /\ (k + 1) - from \in 1 .. len /\ from + ((k + 1) - from) = k + 1
          /\ had + ((k + 1) - from) \in 1 .. had + len
      <4>1. /\ k \in Nat /\ from \in Nat /\ had \in Nat /\ len \in Nat
            /\ k < from + len /\ ~(k < from)
        BY <1>2, <1>6, <1>9, <2>2, <3>1
      <4> HIDE DEF k
      <4>2. QED
        BY ONLY <4>1
    <3>3. walk'.got[had + ((k + 1) - from)] = n
      BY <1>1, <3>1, <3>2
    <3>4. QED
      BY <1>5, <3>2, <3>3 DEF ToSet
  <2>3. QED
    BY <2>1, <2>2
<1>10. ASSUME ~walk.shrank PROVE GrowInv'
  <2>1. ToSet(walk.start) \subseteq Rows
        /\ (~walk.torn => ToSet(walk.start) \cap Behind \subseteq ToSet(walk.got))
    BY <1>2, <1>10 DEF WalkInv, GrowInv
  <2>2. ASSUME ~walk.torn, NEW n \in ToSet(walk.start), Place(rows, walk.filter, n) < from + len
        PROVE  n \in ToSet(walk'.got)
    BY <1>2, <1>9, <2>1, <2>2 DEF Behind
  <2>3. ASSUME ~walk.torn, Done' PROVE ToSet(walk.start) \subseteq ToSet(walk'.got)
    <3>1. ASSUME NEW n \in ToSet(walk.start) PROVE Place(rows, walk.filter, n) < from + len
      <4>1. Place(rows, walk.filter, n) \in 0 .. Len(List) - 1 /\ Len(List) <= from + len
        BY <1>1, <1>3, <2>1, <2>3
      <4>2. QED
        BY <1>2, <1>3, <4>1
    <3>2. QED
      BY <2>2, <2>3, <3>1
  <2>4. ASSUME ~walk.torn, Going' PROVE ToSet(walk.start) \cap Behind' \subseteq ToSet(walk'.got)
    <3>1. Behind' = {n \in Rows : Place(rows, walk.filter, n) < from + len}
      BY <1>1, <1>4, <2>4 DEF Behind
    <3>2. QED
      BY <2>2, <2>4, <3>1
  <2>5. QED
    BY <1>1, <1>4, <2>1, <2>3, <2>4 DEF GrowInv
<1>11. ASSUME ~walk.grew PROVE ShrinkInv'
  <2>1. /\ \A i, j \in 1 .. had : walk.got[i] = walk.got[j] => i = j
        /\ \A n \in ToSet(walk.got) \cap Rows : Place(rows, walk.filter, n) < from
    <3>1. ShrinkInv
      BY DEF WalkInv
    <3>2. \A i, j \in DOMAIN walk.got : walk.got[i] = walk.got[j] => i = j
      BY <1>11, <3>1 DEF ShrinkInv
    <3>3. ToSet(walk.got) \cap Rows \subseteq Behind
      BY <1>2, <1>11, <3>1 DEF ShrinkInv
    <3>4. QED
      BY <1>2, <3>2, <3>3 DEF Behind
  <2>2. ASSUME NEW i \in 1 .. len
        PROVE  /\ walk'.got[had + i] \in Rows
               /\ Place(rows, walk.filter, walk'.got[had + i]) = from + i - 1
    <3>1. from + i \in 1 .. Len(List) /\ (from + i) - 1 = from + i - 1
      <4>1. from \in Nat /\ Len(List) \in Nat /\ i \in 1 .. len
        BY <1>2, <1>3
      <4>2. len \in Nat /\ from + len <= Len(List)
        BY <1>6, <4>1
      <4>3. QED
        BY ONLY <4>1, <4>2
    <3>2. walk'.got[had + i] = List[from + i]
      BY <1>1
    <3>3. QED
      BY <1>3, <3>1, <3>2
  <2>3. ASSUME NEW i \in 1 .. had + len, NEW j \in 1 .. had + len, walk'.got[i] = walk'.got[j],
               i < j
        PROVE  FALSE
    <3>1. CASE j <= had
      BY <1>1, <1>2, <2>1, <2>3, <3>1
    <3>2. CASE had < j
      <4>1. j - had \in 1 .. len /\ had + (j - had) = j
        BY <1>2, <3>2
      <4>2. walk'.got[j] \in Rows /\ Place(rows, walk.filter, walk'.got[j]) = from + (j - had) - 1
        BY <2>2, <4>1
      <4>3. CASE i <= had
        <5>1. walk'.got[i] = walk.got[i] /\ walk.got[i] \in ToSet(walk.got)
          BY <1>1, <1>5, <4>3
        <5>2. Place(rows, walk.filter, walk'.got[j]) < from
          BY <2>1, <2>3, <4>2, <5>1
        <5>3. QED
          BY <1>2, <4>1, <4>2, <5>2
      <4>4. CASE had < i
        <5>1. i - had \in 1 .. len /\ had + (i - had) = i
          BY <1>2, <4>4
        <5>2. Place(rows, walk.filter, walk'.got[i]) = from + (i - had) - 1
          BY <2>2, <5>1
        <5>3. QED
          BY <1>2, <2>3, <4>1, <4>2, <5>1, <5>2
      <4>5. QED
        BY <1>2, <4>3, <4>4
    <3>3. QED
      BY <1>2, <3>1, <3>2
  <2>4. \A i, j \in DOMAIN walk'.got : walk'.got[i] = walk'.got[j] => i = j
    <3>1. SUFFICES ASSUME NEW i \in 1 .. had + len, NEW j \in 1 .. had + len,
                          walk'.got[i] = walk'.got[j], i # j
                   PROVE  FALSE
      BY <1>5
    <3>2. i < j \/ j < i
      BY <1>2, <3>1
    <3>3. QED
      BY <2>3, <3>1, <3>2
  <2>5. ASSUME Going', NEW n \in ToSet(walk'.got), n \in Rows
        PROVE  Place(rows, walk.filter, n) < from + len
    <3>1. PICK i \in 1 .. had + len : walk'.got[i] = n
      BY <1>5, <2>5 DEF ToSet
    <3>2. CASE i <= had
      <4>1. n \in ToSet(walk.got)
        BY <1>1, <1>5, <3>1, <3>2
      <4>2. Place(rows, walk.filter, n) < from /\ Place(rows, walk.filter, n) \in Nat
        BY <1>3, <2>1, <2>5, <4>1
      <4>3. QED
        BY <1>2, <4>2
    <3>3. CASE had < i
      <4>1. i - had \in 1 .. len /\ had + (i - had) = i
        BY <1>2, <3>3
      <4>2. Place(rows, walk.filter, n) = from + (i - had) - 1
        BY <2>2, <3>1, <4>1
      <4>3. QED
        BY <1>2, <4>1, <4>2
    <3>4. QED
      BY <1>2, <3>2, <3>3
  <2>6. Going' => Behind' = {n \in Rows : Place(rows, walk.filter, n) < from + len}
    BY <1>1, <1>4 DEF Behind
  <2>7. QED
    BY <1>1, <1>4, <2>4, <2>5, <2>6 DEF ShrinkInv
<1>12. QED
  BY <1>1, <1>7, <1>8, <1>10, <1>11 DEF WalkInv, QuietInv, GrowInv, ShrinkInv

\* The table stays a table, whoever changes it.
LEMMA NextWalk == TypeOK /\ WalkInv /\ [Next]_vars => TypeOK' /\ WalkInv'
<1> SUFFICES ASSUME TypeOK, WalkInv, [Next]_vars PROVE TypeOK' /\ WalkInv'
  OBVIOUS
<1>1. rows \in Seq(Row) /\ Len(rows) \in Nat /\ Len(rows) <= MaxRows /\ DOMAIN rows = 1 .. Len(rows)
  BY DEF TypeOK, Table
<1>2. ASSUME Insert PROVE TypeOK' /\ WalkInv'
  <2>1. PICK u \in Users, f \in Families \cup {None}, type \in Types, d \in Dates :
            Change(Append(rows, [live |-> TRUE, creator |-> u, family |-> f, type |-> type,
                                 date |-> d]))
    BY <1>2 DEF Insert
  <2> DEFINE row == [live |-> TRUE, creator |-> u, family |-> f, type |-> type, date |-> d]
  <2>2. row \in Row
    BY DEF Row
  <2>3. Len(rows) < MaxRows /\ MaxRows \in Nat
    BY <1>2, ConstantsAssumption DEF Insert
  <2> HIDE DEF row
  <2>4. Table(Append(rows, row))
    BY <1>1, <2>2, <2>3 DEF Table
  <2>5. QED
    BY <2>1, <2>4, ChangeWalk DEF row
<1>3. ASSUME NEW n \in DOMAIN rows, Update(n) PROVE TypeOK' /\ WalkInv'
  <2>1. PICK type \in Types, d \in Dates : Change([rows EXCEPT ![n].type = type, ![n].date = d])
    BY <1>3 DEF Update
  <2> DEFINE row == [rows[n] EXCEPT !.type = type, !.date = d]
             t   == [rows EXCEPT ![n].type = type, ![n].date = d]
  <2>2. rows[n] \in Row
    BY <1>1
  <2>3. row \in Row
    BY <2>2 DEF Row
  <2>4. t = [rows EXCEPT ![n] = row]
    BY <1>1
  <2> HIDE DEF row, t
  <2>5. t \in Seq(Row) /\ Len(t) = Len(rows)
    BY <1>1, <2>3, <2>4
  <2>6. Table(t)
    BY <1>1, <2>5 DEF Table
  <2>7. QED
    BY <2>1, <2>6, ChangeWalk DEF t
<1>4. ASSUME NEW n \in DOMAIN rows, SoftDelete(n) PROVE TypeOK' /\ WalkInv'
  <2> DEFINE row == [rows[n] EXCEPT !.live = FALSE]
             t   == [rows EXCEPT ![n].live = FALSE]
  <2>1. Change(t)
    BY <1>4 DEF SoftDelete
  <2>2. rows[n] \in Row
    BY <1>1
  <2>3. row \in Row
    BY <2>2 DEF Row
  <2>4. t = [rows EXCEPT ![n] = row]
    BY <1>1
  <2> HIDE DEF row, t
  <2>5. t \in Seq(Row) /\ Len(t) = Len(rows)
    BY <1>1, <2>3, <2>4
  <2>6. Table(t)
    BY <1>1, <2>5 DEF Table
  <2>7. QED
    BY <2>1, <2>6, ChangeWalk
<1>5. CASE UNCHANGED vars
  BY <1>5 DEF vars, TypeOK, Table, WalkInv, CountInv, QuietInv, GrowInv, ShrinkInv, Going, Done,
              List, Rows, Behind
<1>6. QED
  BY <1>2, <1>3, <1>4, <1>5, BeginWalk, CountWalk, SelectWalk DEF Next

LEMMA Invariance == Spec => [](TypeOK /\ WalkInv)
<1>1. QED
  BY InitWalk, NextWalk, PTL DEF Spec

\* Tables and walks are well typed, for tables of any length.
THEOREM TypeCorrect == Spec => []TypeOK
BY Invariance, PTL

\* A list that is as it was when the walk began has been fetched exactly, in order
\* and each row once, however many other rows have come, gone or moved.
THEOREM QuietWalks == Spec => []QuietWalkExact
<1>1. TypeOK /\ WalkInv => QuietWalkExact
  BY DEF WalkInv, QuietInv, QuietWalkExact
<1>2. QED
  BY <1>1, Invariance, PTL

\* What was in a list that only grows is fetched, unless it grows between the two
\* statements of a page.
THEOREM GrowingWalks == Spec => []GrowingMissesNothing
<1>1. TypeOK /\ WalkInv => GrowingMissesNothing
  BY DEF WalkInv, GrowInv, GrowingMissesNothing
<1>2. QED
  BY <1>1, Invariance, PTL

\* No row of a list that only shrinks is fetched twice.
THEOREM ShrinkingWalks == Spec => []ShrinkingRepeatsNothing
<1>1. TypeOK /\ WalkInv => ShrinkingRepeatsNothing
  BY DEF WalkInv, ShrinkInv, ShrinkingRepeatsNothing
<1>2. QED
  BY <1>1, Invariance, PTL

\* What ends a walk of a list that no longer shrinks: a page ends it or brings it
\* nearer to the total, so no page hands out the token it was asked with.
PageAdvances ==
    SelectRows /\ walk.total <= Count(rows, walk.filter) =>
        Done' \/ (walk.offset < walk'.offset /\ walk'.offset < walk.total)

LEMMA SelectAdvances == ASSUME TypeOK PROVE PageAdvances
<1> SUFFICES ASSUME SelectRows, walk.total <= Count(rows, walk.filter)
             PROVE  Done' \/ (walk.offset < walk'.offset /\ walk'.offset < walk.total)
  BY DEF PageAdvances
<1> DEFINE len  == Len(Page(rows, walk.filter, walk.size, walk.offset))
           next == NextPageToken(walk.offset, len, walk.total)
<1>1. /\ walk'.offset = next /\ walk'.at = (IF next = 0 THEN "done" ELSE "count")
      /\ next = IF walk.offset + len < walk.total THEN walk.offset + len ELSE 0
  BY DEF SelectRows, TypeOK, Walk, NextPageToken
<1>2. /\ walk.offset \in Nat /\ walk.total \in Nat /\ walk.size \in Int /\ Table(rows)
  <2>1. {0} \cup PageSizes \subseteq Int
    BY ConstantsAssumption
  <2>2. QED
    BY <2>1 DEF TypeOK, Walk
<1>3. len \in Nat /\ (len = 0 => Len(List) <= walk.offset)
  <2>1. PartFrom(walk.offset, Page(rows, walk.filter, walk.size, walk.offset), List)
    BY <1>2, PageFacts DEF List
  <2>2. QED
    BY <2>1 DEF PartFrom
<1>4. Len(List) = Count(rows, walk.filter) /\ Len(List) \in Nat
  BY <1>2, ListFacts DEF List
<1> HIDE DEF len, next
<1>5. QED
  BY <1>1, <1>2, <1>3, <1>4 DEF Done

\* Every page of a walk that still finds as many rows as were counted advances.
THEOREM PagesAdvance == Spec => [][PageAdvances]_vars
<1>1. TypeOK /\ [Next]_vars => [PageAdvances]_vars
  BY SelectAdvances
<1>2. QED
  BY <1>1, Invariance, PTL DEF Spec

-----------------------------------------------------------------------------
(* Sums *)

Numbers == 1 .. MaxRows

Picked(S)     == CHOOSE n \in S : TRUE
Added(sum, S) == IF S = {} THEN 0 ELSE AmountOf[Picked(S)] + sum[S \ {Picked(S)}]

\* A function on the sets of at most k transactions that adds up their amounts.
UpTo(k)      == {S \in SUBSET Numbers : Cardinality(S) <= k}
Sums(sum, k) == sum \in [UpTo(k) -> Nat] /\ \A S \in UpTo(k) : sum[S] = Added(sum, S)

LEMMA NumbersFacts ==
    /\ IsFiniteSet(Numbers) /\ Cardinality(Numbers) = MaxRows /\ MaxRows \in Nat
    /\ AmountOf \in [Numbers -> Nat]
    /\ \A S \in SUBSET Numbers : IsFiniteSet(S) /\ Cardinality(S) \in Nat
<1>1. MaxRows \in Nat /\ AmountOf \in [Numbers -> Nat]
  BY ConstantsAssumption DEF Numbers
<1>2. IsFiniteSet(Numbers) /\ Cardinality(Numbers) = MaxRows
  BY <1>1, FS_Interval DEF Numbers
<1>3. QED
  BY <1>1, <1>2, FS_Subset, FS_CardinalityType

LEMMA PickedFacts ==
    ASSUME NEW S \in SUBSET Numbers, S # {}
    PROVE  /\ Picked(S) \in S /\ S \ {Picked(S)} \in SUBSET Numbers
           /\ Cardinality(S \ {Picked(S)}) = Cardinality(S) - 1
<1>1. Picked(S) \in S
  BY DEF Picked
<1>2. QED
  BY <1>1, NumbersFacts, FS_RemoveElement

LEMMA SumsExist == \A k \in Nat : \E sum : Sums(sum, k)
<1> DEFINE T == {k \in Nat : ~ \E sum : Sums(sum, k)}
<1>1. SUFFICES ASSUME T # {} PROVE FALSE
  OBVIOUS
<1>2. PICK k \in T : \A l \in T : k <= l
  BY <1>1, LeastNat
<1>3. k # 0
  <2> DEFINE sum == [S \in UpTo(0) |-> 0]
  <2>1. \A S \in UpTo(0) : S = {}
    BY NumbersFacts, FS_EmptySet DEF UpTo
  <2>2. Sums(sum, 0)
    BY <2>1 DEF Sums, Added
  <2>3. QED
    BY <2>2
<1>4. k \in Nat /\ k - 1 \in Nat /\ k - 1 \notin T
  BY <1>2, <1>3
<1>5. PICK g : Sums(g, k - 1)
  BY <1>4
<1> DEFINE sum == [S \in UpTo(k) |-> Added(g, S)]
<1>6. ASSUME NEW S \in UpTo(k), S # {}
      PROVE  Picked(S) \in Numbers /\ S \ {Picked(S)} \in UpTo(k - 1)
  <2>1. S \in SUBSET Numbers /\ Cardinality(S) <= k /\ Cardinality(S) \in Nat
    BY NumbersFacts DEF UpTo
  <2>2. QED
    BY <1>4, <1>6, <2>1, PickedFacts DEF UpTo
<1>7. sum \in [UpTo(k) -> Nat]
  <2>1. ASSUME NEW S \in UpTo(k) PROVE Added(g, S) \in Nat
    <3>1. CASE S = {}
      BY <3>1 DEF Added
    <3>2. CASE S # {}
      <4>1. AmountOf[Picked(S)] \in Nat /\ g[S \ {Picked(S)}] \in Nat
        BY <1>5, <1>6, <3>2, NumbersFacts DEF Sums
      <4>2. QED
        BY <3>2, <4>1 DEF Added
    <3>3. QED
      BY <3>1, <3>2
  <2>2. QED
    BY <2>1
<1>8. \A S \in UpTo(k - 1) : S \in UpTo(k) /\ sum[S] = g[S]
  <2>1. ASSUME NEW S \in UpTo(k - 1) PROVE S \in UpTo(k)
    BY <1>4, NumbersFacts DEF UpTo
  <2>2. QED
    BY <1>5, <2>1 DEF Sums
<1>9. ASSUME NEW S \in UpTo(k) PROVE sum[S] = Added(sum, S)
  <2>1. sum[S] = Added(g, S)
    OBVIOUS
  <2>2. S # {} => sum[S \ {Picked(S)}] = g[S \ {Picked(S)}]
    BY <1>6, <1>8
  <2> HIDE DEF sum
  <2>3. QED
    BY <2>1, <2>2 DEF Added
<1>10. Sums(sum, k)
  <2> HIDE DEF sum
  <2> QED
    BY <1>7, <1>9 DEF Sums
<1>11. QED
  BY <1>2, <1>10

\* What Amounts computes, one transaction at a time.
LEMMA AmountsStep ==
    /\ Amounts \in [SUBSET Numbers -> Nat]
    /\ \A S \in SUBSET Numbers : Amounts[S] = Added(Amounts, S)
<1>1. UpTo(MaxRows) = SUBSET Numbers
  <2>1. ASSUME NEW S \in SUBSET Numbers PROVE Cardinality(S) <= MaxRows
    BY NumbersFacts, FS_Subset
  <2>2. QED
    BY <2>1 DEF UpTo
<1>2. PICK g : Sums(g, MaxRows)
  BY NumbersFacts, SumsExist
<1>3. g = [S \in SUBSET Numbers |-> Added(g, S)]
  BY <1>1, <1>2 DEF Sums
<1>4. Amounts = CHOOSE h : h = [S \in SUBSET Numbers |-> Added(h, S)]
  BY DEF Amounts, Added, Picked, Numbers
<1>5. Amounts = [S \in SUBSET Numbers |-> Added(Amounts, S)]
  <2> DEFINE Is(h) == h = [S \in SUBSET Numbers |-> Added(h, S)]
  <2>1. Is(g) /\ Amounts = CHOOSE h : Is(h)
    BY <1>3, <1>4
  <2> HIDE DEF Is
  <2>2. Is(Amounts)
    BY <2>1
  <2>3. QED
    BY <2>2 DEF Is
<1>6. ASSUME NEW S \in SUBSET Numbers PROVE Amounts[S] = Added(Amounts, S)
  BY <1>5
<1>7. \A S \in SUBSET Numbers : Amounts[S] \in Nat
  <2> DEFINE F == {S \in SUBSET Numbers : Amounts[S] \notin Nat}
  <2>1. SUFFICES ASSUME F # {} PROVE FALSE
    OBVIOUS
  <2>2. \E X \in F : \A Y \in F : Y \subseteq X => Y = X
    <3>1. F \in SUBSET (SUBSET Numbers)
      OBVIOUS
    <3> HIDE DEF F
    <3>2. QED
      BY <2>1, <3>1, NumbersFacts, MinimalSubset
  <2>3. PICK S \in F : \A B \in F : B \subseteq S => B = S
    BY <2>2
  <2>4. S # {}
    BY <1>6, <2>2 DEF Added
  <2>5. Picked(S) \in S /\ S \ {Picked(S)} \in SUBSET Numbers
    BY <2>3, <2>4, PickedFacts
  <2>6. Amounts[S \ {Picked(S)}] \in Nat
    BY <2>3, <2>5
  <2>7. AmountOf[Picked(S)] \in Nat
    BY <2>3, <2>5, NumbersFacts
  <2>8. QED
    BY <1>6, <2>3, <2>4, <2>6, <2>7 DEF Added
<1>8. DOMAIN Amounts = SUBSET Numbers
  BY <1>5
<1>9. QED
  BY <1>5, <1>6, <1>7, <1>8

\* The order in which amounts are added does not matter.
LEMMA AmountsAdd ==
    ASSUME NEW S \in SUBSET Numbers, NEW n \in Numbers, n \notin S
    PROVE  Amounts[S \cup {n}] = AmountOf[n] + Amounts[S]
<1> DEFINE Adds(A, m) == Amounts[A \cup {m}] = AmountOf[m] + Amounts[A]
           F == {A \in SUBSET Numbers : \E m \in Numbers : m \notin A /\ ~Adds(A, m)}
<1>1. SUFFICES ASSUME F # {} PROVE FALSE
  OBVIOUS
<1>2. \E X \in F : \A Y \in F : Y \subseteq X => Y = X
  <2>1. F \in SUBSET (SUBSET Numbers)
    OBVIOUS
  <2> HIDE DEF F
  <2>2. QED
    BY <1>1, <2>1, NumbersFacts, MinimalSubset
<1>3. PICK A \in F : \A B \in F : B \subseteq A => B = A
  BY <1>2
<1>4. PICK m \in Numbers : m \notin A /\ ~Adds(A, m)
  BY <1>3
<1> DEFINE k == Picked(A \cup {m})
<1>5. /\ A \cup {m} \in SUBSET Numbers /\ A \cup {m} # {} /\ A \in SUBSET Numbers
  BY <1>3
<1>6. /\ k \in A \cup {m}
      /\ Amounts[A \cup {m}] = AmountOf[k] + Amounts[(A \cup {m}) \ {k}]
  BY <1>5, AmountsStep, PickedFacts DEF Added
<1> HIDE DEF k
<1>7. k # m
  <2>1. (A \cup {m}) \ {m} = A
    BY <1>4
  <2>2. QED
    BY <1>4, <1>6, <2>1
<1>8. k \in A
  BY <1>6, <1>7
<1> DEFINE B == A \ {k}
<1>9. /\ B \in SUBSET Numbers /\ B \subseteq A /\ B # A
      /\ (A \cup {m}) \ {k} = B \cup {m} /\ B \cup {k} = A
      /\ m \notin B /\ k \notin B /\ k \in Numbers
  BY <1>4, <1>5, <1>7, <1>8
<1> HIDE DEF B
<1>10. Adds(B, m) /\ Adds(B, k)
  <2>1. B \notin F
    BY <1>3, <1>9
  <2>2. QED
    BY <1>4, <1>9, <2>1
<1>11. AmountOf[k] \in Nat /\ AmountOf[m] \in Nat /\ Amounts[B] \in Nat
  BY <1>4, <1>9, NumbersFacts, AmountsStep
<1>12. Amounts[A] = AmountOf[k] + Amounts[B]
  BY <1>9, <1>10
<1>13. Amounts[A \cup {m}] = AmountOf[k] + (AmountOf[m] + Amounts[B])
  BY <1>6, <1>9, <1>10
<1>14. QED
  BY <1>4, <1>11, <1>12, <1>13

LEMMA AmountsUnion ==
    ASSUME NEW S \in SUBSET Numbers, NEW T \in SUBSET Numbers, S \cap T = {}
    PROVE  Amounts[S \cup T] = Amounts[S] + Amounts[T]
<1> DEFINE F == {B \in SUBSET Numbers : S \cap B = {} /\ Amounts[S \cup B] # Amounts[S] + Amounts[B]}
<1>1. SUFFICES ASSUME F # {} PROVE FALSE
  OBVIOUS
<1>2. \E X \in F : \A Y \in F : Y \subseteq X => Y = X
  <2>1. F \in SUBSET (SUBSET Numbers)
    OBVIOUS
  <2> HIDE DEF F
  <2>2. QED
    BY <1>1, <2>1, NumbersFacts, MinimalSubset
<1>3. PICK B \in F : \A C \in F : C \subseteq B => C = B
  BY <1>2
<1>4. B \in SUBSET Numbers /\ S \cap B = {} /\ Amounts[S \cup B] # Amounts[S] + Amounts[B]
  BY <1>3
<1>5. Amounts[S] \in Nat /\ Amounts[{}] = 0
  BY AmountsStep DEF Added
<1>6. B # {}
  <2>1. S \cup {} = S /\ Amounts[S] + 0 = Amounts[S]
    BY <1>5
  <2>2. QED
    BY <1>4, <1>5, <2>1
<1>7. PICK n \in B : TRUE
  BY <1>6
<1> DEFINE C == B \ {n}
<1>8. /\ C \in SUBSET Numbers /\ n \in Numbers /\ n \notin C /\ n \notin S \cup C
      /\ S \cap C = {} /\ C \subseteq B /\ C # B
      /\ S \cup B = (S \cup C) \cup {n} /\ B = C \cup {n} /\ S \cup C \in SUBSET Numbers
  BY <1>4, <1>7
<1> HIDE DEF C
<1>9. Amounts[S \cup C] = Amounts[S] + Amounts[C]
  BY <1>3, <1>8
<1>10. /\ Amounts[S \cup B] = AmountOf[n] + Amounts[S \cup C]
      /\ Amounts[B] = AmountOf[n] + Amounts[C]
  BY <1>8, AmountsAdd
<1>11. Amounts[C] \in Nat /\ AmountOf[n] \in Nat
  BY <1>8, NumbersFacts, AmountsStep
<1>12. QED
  BY <1>4, <1>5, <1>9, <1>10, <1>11

IsList(list, len) == len \in Nat /\ DOMAIN list = 1 .. len /\ Len(list) = len

\* G grows from 0 by one element of the list after the other.
Running(G, list, len) ==
    G \in [0 .. len -> Nat] /\ G[0] = 0 /\ \A i \in 1 .. len : G[i] = G[i - 1] + list[i]

LEMMA TotalIs ==
    ASSUME NEW len, NEW list, IsList(list, len), NEW G, Running(G, list, len)
    PROVE  Total(list) = G[len]
<1> USE DEF IsList, Running
<1> DEFINE Step(h) == [i \in 0 .. len |-> IF i = 0 THEN 0 ELSE h[i - 1] + list[i]]
           Is(h)    == h = Step(h)
           sum      == CHOOSE h : Is(h)
<1>1. G = Step(G)
  OBVIOUS
<1>2. Is(sum)
  <2>1. Is(G)
    BY <1>1
  <2> HIDE DEF Is
  <2>2. QED
    BY <2>1
<1>3. Total(list) = sum[len]
  BY DEF Total
<1> HIDE DEF sum
<1>4. sum[0] = 0 /\ \A i \in 1 .. len : sum[i] = sum[i - 1] + list[i]
  <2>1. ASSUME NEW i \in 0 .. len PROVE sum[i] = IF i = 0 THEN 0 ELSE sum[i - 1] + list[i]
    BY <1>2
  <2>2. QED
    BY <2>1
<1>5. \A i \in 0 .. len : sum[i] = G[i]
  <2> DEFINE T == {i \in 0 .. len : sum[i] # G[i]}
  <2>1. SUFFICES ASSUME T # {} PROVE FALSE
    OBVIOUS
  <2>2. T \in SUBSET Nat
    OBVIOUS
  <2>3. PICK i \in T : \A j \in T : i <= j
    BY <2>1, <2>2, LeastNat
  <2>4. i \in 1 .. len /\ i - 1 \in 0 .. len /\ i - 1 \notin T
    BY <1>4, <2>3
  <2>5. sum[i - 1] = G[i - 1]
    BY <2>4
  <2>6. QED
    BY <1>4, <2>3, <2>4, <2>5
<1>6. QED
  BY <1>3, <1>5

\* The transactions of a set, grouped by a key each of them has.
Keys(C, key)      == {key[n] : n \in C}
Group(C, key, m)  == {n \in C : key[n] = m}

\* The keys of a set, each in one place.
Places(C, key, keys, len) ==
    /\ \A i, j \in 1 .. len : keys[i] = keys[j] => i = j
    /\ \A n \in C : \E i \in 1 .. len : key[n] = keys[i]

AmountsOf(list, C, key, keys) ==
    \A i \in DOMAIN list : list[i] = Amounts[Group(C, key, keys[i])]

\* Groups that share no transaction add up to all of them.
LEMMA GroupsAdd ==
    ASSUME NEW C \in SUBSET Numbers, NEW key, NEW len, NEW months, Places(C, key, months, len),
           NEW list, IsList(list, len), AmountsOf(list, C, key, months)
    PROVE  Total(list) = Amounts[C]
<1> DEFINE One(i)   == Group(C, key, months[i])
           First(i) == {n \in C : \E j \in 1 .. i : key[n] = months[j]}
           G        == [i \in 0 .. len |-> Amounts[First(i)]]
<1>1. len \in Nat /\ DOMAIN list = 1 .. len
  BY DEF IsList
<1>2. First(0) = {} /\ First(len) = C /\ \A i : First(i) \in SUBSET Numbers
  BY <1>1 DEF Places
<1>3. \A i : One(i) \in SUBSET Numbers
  BY DEF Group
<1>4. ASSUME NEW i \in 1 .. len
      PROVE  First(i) = First(i - 1) \cup One(i) /\ First(i - 1) \cap One(i) = {}
  <2>1. i - 1 \in Nat /\ \A j : j \in 1 .. i <=> j \in 1 .. i - 1 \/ j = i
    BY <1>1
  <2>2. \A j \in 1 .. i - 1 : j \in 1 .. len /\ j # i
    BY <1>1
  <2>3. QED
    BY <2>1, <2>2 DEF Group, Places
<1>5. \A i \in 1 .. len : list[i] = Amounts[One(i)]
  BY <1>1 DEF AmountsOf
<1> HIDE DEF One, First
<1>6. \A i \in 0 .. len : G[i] = Amounts[First(i)]
  OBVIOUS
<1>7. G \in [0 .. len -> Nat]
  BY <1>2, AmountsStep
<1> HIDE DEF G
<1>8. G[0] = 0 /\ G[len] = Amounts[C]
  <2>1. Amounts[{}] = 0
    BY AmountsStep DEF Added
  <2>2. 0 \in 0 .. len /\ len \in 0 .. len
    BY <1>1
  <2>3. QED
    BY <1>2, <1>6, <2>1, <2>2
<1>9. ASSUME NEW i \in 1 .. len PROVE G[i] = G[i - 1] + list[i]
  <2>1. i \in 0 .. len /\ i - 1 \in 0 .. len
    BY <1>1
  <2>2. Amounts[First(i)] = Amounts[First(i - 1)] + Amounts[One(i)]
    BY <1>2, <1>3, <1>4, AmountsUnion
  <2>3. QED
    BY <1>5, <1>6, <2>1, <2>2
<1>10. Running(G, list, len) /\ IsList(list, len)
  BY <1>7, <1>8, <1>9 DEF Running, IsList
<1>11. QED
  BY <1>8, <1>10, TotalIs

\* The months of a list of rows, each once and the latest first.
LEMMA MonthsFacts ==
    ASSUME NEW C \in SUBSET Numbers, NEW key \in [C -> Nat], NEW M, M = Keys(C, key)
    PROVE  /\ Cardinality(M) \in Nat
           /\ Len(Descending(M)) = Cardinality(M)
           /\ DOMAIN Descending(M) = 1 .. Cardinality(M)
           /\ \A i, j \in 1 .. Cardinality(M) : i < j => Descending(M)[i] > Descending(M)[j]
           /\ \A i, j \in 1 .. Cardinality(M) : Descending(M)[i] = Descending(M)[j] => i = j
           /\ \A n \in C : \E i \in 1 .. Cardinality(M) : key[n] = Descending(M)[i]
<1> DEFINE R   == {p \in M \X M : p[1] > p[2]}
           s   == Sorted(M, R)
           len == Cardinality(M)
<1>1. IsFiniteSet(C)
  BY NumbersFacts
<1>2. key \in Surjection(C, M)
  BY DEF Surjection, Keys
<1>3. IsFiniteSet(M) /\ len \in Nat
  BY <1>1, <1>2, FS_Surjection, FS_CardinalityType
<1>4. M \in SUBSET Nat
  BY DEF Keys
<1>5. \A x, y \in M : <<x, y>> \in R <=> x > y
  OBVIOUS
<1>6. Descending(M) = s
  BY DEF Descending
<1> HIDE DEF R
<1>7. Orders(R, M)
  BY <1>4, <1>5 DEF Orders
<1>8. /\ DOMAIN s = 1 .. len /\ Len(s) = len
      /\ \A i \in 1 .. len : s[i] \in M
      /\ \A x \in M : Rank(M, R, x) \in 0 .. len - 1 /\ s[Rank(M, R, x) + 1] = x
  BY <1>3, <1>7, SortedFacts
<1>9. \A i, j \in 1 .. len : i < j => <<s[i], s[j]>> \in R
  BY <1>3, <1>7, SortedOrder
<1> HIDE DEF s, len
<1>10. \A i, j \in 1 .. len : i < j => s[i] > s[j]
  BY <1>5, <1>8, <1>9
<1>11. ASSUME NEW i \in 1 .. len, NEW j \in 1 .. len, s[i] = s[j] PROVE i = j
  <2>1. s[i] \in Nat /\ s[j] \in Nat
    BY <1>4, <1>8
  <2>2. ~(i < j) /\ ~(j < i)
    BY <1>10, <1>11, <2>1
  <2>3. QED
    BY <1>3, <2>2
<1>12. ASSUME NEW n \in C PROVE \E i \in 1 .. len : key[n] = s[i]
  <2>1. key[n] \in M
    BY DEF Keys
  <2>2. Rank(M, R, key[n]) + 1 \in 1 .. len
    BY <1>3, <1>8, <2>1
  <2>3. QED
    BY <1>8, <2>1, <2>2
<1>13. QED
  BY <1>3, <1>6, <1>8, <1>10, <1>11, <1>12 DEF len

-----------------------------------------------------------------------------
(* Dashboards *)

OfType(table, C, type) == {n \in C : table[n].type = type}

\* The amounts of one type, month by month, add up to those of all counted rows.
LEMMA TypeAddsUp ==
    ASSUME NEW t, NEW C \in SUBSET Numbers, NEW key \in [C -> Nat], NEW M, M = Keys(C, key),
           NEW type, NEW list, IsList(list, Cardinality(M)),
           AmountsOf(list, OfType(t, C, type), key, Descending(M))
    PROVE  Total(list) = Amounts[OfType(t, C, type)]
<1>1. OfType(t, C, type) \in SUBSET Numbers /\ OfType(t, C, type) \subseteq C
  BY DEF OfType
<1>2. Places(C, key, Descending(M), Cardinality(M))
  BY MonthsFacts DEF Places
<1>3. Places(OfType(t, C, type), key, Descending(M), Cardinality(M))
  BY <1>2 DEF Places, OfType
<1>4. QED
  BY <1>1, <1>3, GroupsAdd

LEMMA CountedFacts ==
    ASSUME NEW t, Table(t), NEW u, NEW f, NEW asked
    PROVE  /\ Counted(t, u, f, asked) \in SUBSET Numbers
           /\ \A n \in Counted(t, u, f, asked) : Month(t[n].date) \in Nat
<1> DEFINE C == Counted(t, u, f, asked)
<1>1. Len(t) \in Nat /\ Len(t) <= MaxRows /\ DOMAIN t = 1 .. Len(t)
  BY DEF Table
<1>2. C \subseteq 1 .. Len(t)
  BY <1>1 DEF Counted
<1>3. C \in SUBSET Numbers
  BY <1>1, <1>2, NumbersFacts DEF Numbers
<1>4. DaysPerMonth \in Nat \ {0}
  BY ConstantsAssumption
<1>5. \A d \in Nat : Month(d) \in Nat
  BY <1>4 DEF Month
<1>6. \A n \in C : t[n].date \in Nat
  BY <1>2, DateType
<1>7. QED
  BY <1>3, <1>5, <1>6

\* GetMonthlyTotals, group by group.
LEMMA MonthlyFacts ==
    ASSUME NEW t, NEW u, NEW f, NEW asked, NEW C, C = Counted(t, u, f, asked),
           NEW key, key = [n \in C |-> Month(t[n].date)],
           NEW months, months = Descending(Keys(C, key)),
           NEW monthly, monthly = GetMonthlyTotals(t, u, f, asked)
    PROVE  /\ DOMAIN monthly = DOMAIN months
           /\ \A i \in DOMAIN months :
                 /\ monthly[i].month = months[i]
                 /\ monthly[i].income = Amounts[Group(OfType(t, C, "income"), key, months[i])]
                 /\ monthly[i].expense
                       = Amounts[Group(OfType(t, C, "expense"), key, months[i])]
<1> DEFINE MonthSet == {Month(t[n].date) : n \in C}
           Of(m, type) == Amounts[{n \in C : Month(t[n].date) = m /\ t[n].type = type}]
<1>1. MonthSet = Keys(C, key)
  BY DEF Keys
<1>2. months = Descending(MonthSet)
  BY <1>1
<1>3. monthly = [i \in DOMAIN Descending(MonthSet) |->
                   [month |-> Descending(MonthSet)[i],
                    income |-> Of(Descending(MonthSet)[i], "income"),
                    expense |-> Of(Descending(MonthSet)[i], "expense")]]
  BY Zenon DEF GetMonthlyTotals
<1>4. \A m, type : Of(m, type) = Amounts[Group(OfType(t, C, type), key, m)]
  <2>1. ASSUME NEW m, NEW type
        PROVE  {n \in C : Month(t[n].date) = m /\ t[n].type = type}
                  = Group(OfType(t, C, type), key, m)
    BY DEF Group, OfType
  <2>2. QED
    BY <2>1
<1> HIDE DEF Of, MonthSet
<1>5. DOMAIN monthly = DOMAIN months
  BY <1>2, <1>3
<1>6. ASSUME NEW i \in DOMAIN months
      PROVE  monthly[i] = [month |-> months[i], income |-> Of(months[i], "income"),
                           expense |-> Of(months[i], "expense")]
  BY <1>2, <1>3
<1>7. QED
  BY <1>4, <1>5, <1>6

LEMMA DashboardAddsUp ==
    ASSUME NEW t, Table(t), NEW u, NEW f, NEW asked
    PROVE  LET d   == GetDashboard(t, u, f, asked)
               All(type) == {n \in Counted(t, u, f, asked) : t[n].type = type} IN
           /\ d.income = Amounts[All("income")] /\ d.expense = Amounts[All("expense")]
           /\ \A i, j \in DOMAIN d.monthly : i < j => d.monthly[i].month > d.monthly[j].month
<1>1. PICK C : C = Counted(t, u, f, asked)
  OBVIOUS
<1>2. PICK key : key = [n \in C |-> Month(t[n].date)]
  OBVIOUS
<1>3. PICK M : M = Keys(C, key)
  OBVIOUS
<1>4. PICK months : months = Descending(M)
  OBVIOUS
<1>5. PICK monthly : monthly = GetMonthlyTotals(t, u, f, asked)
  OBVIOUS
<1>6. PICK income : income = [i \in DOMAIN monthly |-> monthly[i].income]
  OBVIOUS
<1>7. PICK expense : expense = [i \in DOMAIN monthly |-> monthly[i].expense]
  OBVIOUS
<1>8. C \in SUBSET Numbers /\ key \in [C -> Nat]
  BY <1>1, <1>2, CountedFacts
<1>9. /\ DOMAIN monthly = DOMAIN months
      /\ \A i \in DOMAIN months :
            /\ monthly[i].month = months[i]
            /\ monthly[i].income = Amounts[Group(OfType(t, C, "income"), key, months[i])]
            /\ monthly[i].expense = Amounts[Group(OfType(t, C, "expense"), key, months[i])]
  BY <1>1, <1>2, <1>3, <1>4, <1>5, MonthlyFacts
<1>10. /\ Cardinality(M) \in Nat /\ DOMAIN months = 1 .. Cardinality(M)
       /\ \A i, j \in 1 .. Cardinality(M) : i < j => months[i] > months[j]
  BY <1>3, <1>4, <1>8, MonthsFacts
<1>11. DOMAIN income = DOMAIN months /\ DOMAIN expense = DOMAIN months
  BY <1>6, <1>7, <1>9
<1>12. IsList(income, Cardinality(M)) /\ IsList(expense, Cardinality(M))
  BY <1>10, <1>11 DEF IsList
<1>13. /\ AmountsOf(income, OfType(t, C, "income"), key, months)
       /\ AmountsOf(expense, OfType(t, C, "expense"), key, months)
  BY <1>6, <1>7, <1>9 DEF AmountsOf
<1>14. Total(income) = Amounts[OfType(t, C, "income")]
  BY <1>3, <1>4, <1>8, <1>12, <1>13, TypeAddsUp
<1>15. Total(expense) = Amounts[OfType(t, C, "expense")]
  BY <1>3, <1>4, <1>8, <1>12, <1>13, TypeAddsUp
<1>16. \A i, j \in DOMAIN monthly : i < j => monthly[i].month > monthly[j].month
  BY <1>9, <1>10
<1>17. /\ GetDashboard(t, u, f, asked).income = Total(income)
       /\ GetDashboard(t, u, f, asked).expense = Total(expense)
       /\ GetDashboard(t, u, f, asked).monthly = monthly
  BY <1>5, <1>6, <1>7 DEF GetDashboard
<1>18. \A type : OfType(t, C, type) = {n \in Counted(t, u, f, asked) : t[n].type = type}
  BY <1>1 DEF OfType
<1>19. QED
  BY <1>14, <1>15, <1>16, <1>17, <1>18

\* The totals of a dashboard count every row of the window once, and its months are
\* distinct, the latest first.
THEOREM DashboardsAddUp == Spec => []TotalsAddUp
<1>1. TypeOK => TotalsAddUp
  BY DashboardAddsUp DEF TotalsAddUp, TypeOK
<1>2. QED
  BY <1>1, Invariance, PTL
=============================================================================
