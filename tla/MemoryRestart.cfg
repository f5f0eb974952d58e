\* The in-memory cache over a restart.
CONSTANTS
    Users = {u1}
    NoUser = NoUser
    Procs = {p1, p2}
    SecretKey = SecretKey
    SessionTTL = 2
    Second = 1
    CacheKind = "memory"
    Exclusive = FALSE
    Env = {"crash"}
    MaxTokens = 2
    MaxTime = 0
SPECIFICATION Spec
CHECK_DEADLOCK FALSE
INVARIANT LiveSessionAccepted
