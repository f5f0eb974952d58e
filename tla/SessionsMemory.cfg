\* Two handlers over the in-memory cache: sessions that expire, no restart.
CONSTANTS
    Users = {u1}
    NoUser = NoUser
    Procs = {p1, p2}
    SecretKey = SecretKey
    SessionTTL = 1
    Second = 1
    CacheKind = "memory"
    Exclusive = FALSE
    Env = {"dbError", "deleteUser", "repository"}
    MaxTokens = 3
    MaxTime = 2
SYMMETRY Symmetry
SPECIFICATION Spec
CHECK_DEADLOCK FALSE
INVARIANT LiveSessionAccepted
PROPERTY ImplementsLifecycle
