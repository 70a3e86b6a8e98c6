----------------------------- MODULE MCListing -----------------------------
EXTENDS Listing

\* Powers of two: a sum tells which transactions it counts.
DistinctAmounts == [n \in 1 .. MaxRows |-> 2 ^ (n - 1)]

\* Updates let rows enter and leave this list.
SomeFilters == {[family |-> None, type |-> "expense", from |-> 0]}
=============================================================================
