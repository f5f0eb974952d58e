\* A request that joins a flight started before the logout.
CONSTANTS
    Users = {u1}
    NoUser = NoUser
    Procs = {p1}
    Requests = {q1, q2}
    SecretKey = SecretKey
    SessionTTL = 2
    Second = 1
    CacheKind = "noop"
    Exclusive = FALSE
    Env = {}
    MaxTokens = 1
    MaxTime = 0
SPECIFICATION ValidationSpec
CHECK_DEADLOCK FALSE
INVARIANT LateRequestRefused
