CONSTANTS
    Requests = {r1, r2}
    Called <- MCCalled
    Emails = {e1}
    Passwords = {p1, p2}
    ShortPasswords = {p2}
    FileSecret = s1
    Secrets = {s1, s2}
    None = None
    AccessTTL = 1
    RefreshTTL = 2
    PoolSize = 1
    MaxStatements = 2
    MaxCalls = 3
    MaxTime = 1
    MaxStarts = 2
SPECIFICATION Spec
INVARIANT TypeOK
INVARIANT RegisterAnswered
INVARIANT SessionAnswered
PROPERTY RequestsEnd
PROPERTY ShutdownEnds
CHECK_DEADLOCK FALSE
