SPECIFICATION Spec
CONSTANTS
  r1 = r1
  r2 = r2
  d1 = d1
  d2 = d2
  u1 = u1
  t1 = t1
  c1 = c1
  Requests = {r1}
  Devices = {d1}
  Users = {u1}
  UserOf <- OneUser
  Transactions = {t1}
  Categories = {c1}
  CategoryOf <- OneCategory
  Edited = {t1}
  NoRow = NoRow
  MaxInFlight = 1
  MaxSkew = 0
  MaxTime = 2
  MaxChanges = 2
  MaxLog = 3
  MaxFaults = 0
SYMMETRY Permuted
INVARIANT ConflictsAnswered
