SPECIFICATION Spec
CONSTANTS
  Users = {u1}
  Families = {f1}
  None = None
  Dates = {1, 3}
  Today = 3
  DaysPerMonth = 2
  AmountOf <- DistinctAmounts
  Filters <- SomeFilters
  PageSizes = {0, 1}
  DefaultSize = 2
  MaxRows = 3
  MaxChanges = 4
INVARIANT QuietWalkExact
INVARIANT GrowingMissesNothing
INVARIANT ShrinkingRepeatsNothing
INVARIANT TotalsAddUp
PROPERTY WalkEnds
