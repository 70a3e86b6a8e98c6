SPECIFICATION Spec
CONSTANTS
  Requests = {r1, r2}
  Users = {u1, u2, u3}
  Families = {f1}
  Codes = {c1}
  Names = {n1}
  None = None
  MaxInFlight = 2
  MaxAsked = 4
  MaxFaults = 1
SYMMETRY Symmetric
INVARIANT TypeOK
INVARIANT ListedCanBeOpened
INVARIANT RefusedUnchanged
INVARIANT AcceptedJoined
PROPERTY MembershipKept
CHECK_DEADLOCK FALSE
