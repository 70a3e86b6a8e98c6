SPECIFICATION Spec
CONSTANTS
  Requests = {r1}
  Users = {u1, u2}
  Families = {f1, f2}
  Codes = {c1}
  Names = {n1, n2}
  None = None
  MaxInFlight = 1
  MaxAsked = 6
  MaxFaults = 0
SYMMETRY Symmetric
PROPERTY LedgerImplemented
CHECK_DEADLOCK FALSE
