SPECIFICATION Spec
CONSTANTS
  Requests = {r1, r2}
  Users = {u1, u2}
  Families = {f1}
  Categories = {c0, c1}
  Seeded = {c0}
  Transactions = {t1}
  None = None
  MaxAsked = 4
SYMMETRY Symmetric
INVARIANT TypeOK
INVARIANT ReferencesKept
INVARIANT AnsweredEntitled
INVARIANT DeletedOnce
PROPERTY RowsKept
CHECK_DEADLOCK FALSE
