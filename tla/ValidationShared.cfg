\* Requests that share flights, in front of memcached, with expiry.
CONSTANTS
    Users = {u1, u2}
    NoUser = NoUser
    Procs = {p1}
    Requests = {q1, q2}
    SecretKey = SecretKey
    SessionTTL = 1
    Second = 1
    CacheKind = "memcached"
    Exclusive = FALSE
    Env = {"crash", "deleteUser", "repository"}
    MaxTokens = 2
    MaxTime = 2
SPECIFICATION ValidationSpec
SYMMETRY Symmetry
CHECK_DEADLOCK FALSE
INVARIANTS  AcceptedAsOwner AnsweredAsOwner LateFlightRefuses
