\* Clients that never run two requests on one session; no failing cache.
CONSTANTS
    Users = {u1}
    NoUser = NoUser
    Procs = {p1, p2}
    SecretKey = SecretKey
    SessionTTL = 2
    Second = 1
    CacheKind = "memcached"
    Exclusive = TRUE
    Env = {"evict", "deleteUser"}
    MaxTokens = 3
    MaxTime = 1
SYMMETRY Symmetry
SPECIFICATION Spec
CHECK_DEADLOCK FALSE
INVARIANT CachedTokenBacked
PROPERTY ReturnedTokenIsLive
