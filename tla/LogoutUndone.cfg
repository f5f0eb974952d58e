\* A refresh and a logout of one session at the same time.
CONSTANTS
    Users = {u1}
    NoUser = NoUser
    Procs = {p1, p2}
    SecretKey = SecretKey
    SessionTTL = 2
    Second = 1
    CacheKind = "memcached"
    Exclusive = FALSE
    Env = {}
    MaxTokens = 2
    MaxTime = 0
SPECIFICATION Spec
CHECK_DEADLOCK FALSE
PROPERTY SoftDeleteIsPermanent
