\* Two handlers over memcached: every fault and every interleaving.
CONSTANTS
    Users = {u1}
    NoUser = NoUser
    Procs = {p1, p2}
    SecretKey = SecretKey
    SessionTTL = 1
    Second = 1
    CacheKind = "memcached"
    Exclusive = FALSE
    Env = {"cacheError", "dbError", "crash", "evict", "deleteUser"}
    MaxTokens = 3
    MaxTime = 0
SYMMETRY Symmetry
SPECIFICATION Spec
CHECK_DEADLOCK FALSE
INVARIANTS TypeOK PurgedTokenRefused LiveSessionAccepted
 
