----------------------------- MODULE SessionCache ------------------------------
(***************************************************************************)
(* The three ISessionCache implementations: memcached (cache/session.go),  *)
(* in-process memory (cache/memory.go) and no-op (cache/noop.go; a nil     *)
(* memcached client behaves the same).                                     *)
(*                                                                         *)
(* A cache is a set of entries, at most one per (key, token hash).  The    *)
(* memcached cache uses the two keys "session:<h>" and "token_valid:<h>";  *)
(* the in-memory map is modelled with the first.  `until` is when the      *)
(* entry stops answering: the memcached expiration, or the cached          *)
(* session's ExpiresAt.                                                    *)
(***************************************************************************)
EXTENDS Integers

CacheKinds == {"memcached", "memory", "noop"}
CacheKeys == {"session", "token_valid"}

CacheEntry(User, Hash, Time) ==
    [key: CacheKeys, tokenHash: Hash, userID: User, until: Time]

\* Mutant of Lookup: the key is built without the token hash.
Lookup_AnyToken(cache, key, tokenHash) == {e \in cache : e.key = key}

\* The entries stored under one key.
Lookup(cache, key, tokenHash) ==
    {e \in cache : e.key = key /\ e.tokenHash = tokenHash}

\* memcached Delete; a miss is not an error.
CacheDelete(cache, key, tokenHash) ==
    {e \in cache : ~(e.key = key /\ e.tokenHash = tokenHash)}

\* memcached Set, and the map assignment of the in-memory cache.
CacheSet(cache, key, tokenHash, userID, until) ==
    CacheDelete(cache, key, tokenHash)
      \cup {[key |-> key, tokenHash |-> tokenHash, userID |-> userID, until |-> until]}

\* memcached drops an entry once its expiration has come.
CacheExpire(cache, now) == {e \in cache : e.until > now}

\* int32(ttl.Seconds()), at least 1: whole seconds, in clock units.
CacheTTL(ttl, second) ==
    second * (IF ttl \div second <= 0 THEN 1 ELSE ttl \div second)

\* Mutants of IsTokenValid: a memcached miss is an answer; the in-memory expiry
\* comparison is the wrong way round.
MemcachedIsTokenValid_MissIsAnswer(cache, tokenHash) ==
    [err |-> FALSE, users |-> {e.userID : e \in Lookup(cache, "token_valid", tokenHash)}]
MemoryIsTokenValid_Inverted(cache, tokenHash, now) ==
    [err |-> FALSE,
     users |-> {e.userID : e \in {s \in Lookup(cache, "session", tokenHash) :
                                    s.until < now}}]

\* IsTokenValid: `users` is {} for "not valid"; with `err` the caller asks the
\* database.  Only memcached and no-op report a miss as an error.
MemcachedIsTokenValid(cache, tokenHash) ==
    LET hit == Lookup(cache, "token_valid", tokenHash)
    IN  [err |-> hit = {}, users |-> {e.userID : e \in hit}]

MemoryIsTokenValid(cache, tokenHash, now) ==
    [err |-> FALSE,
     users |-> {e.userID : e \in {s \in Lookup(cache, "session", tokenHash) :
                                    ~(s.until < now)}}]

NoopIsTokenValid == [err |-> TRUE, users |-> {}]

CacheIsTokenValid(kind, cache, tokenHash, now) ==
    CASE kind = "memcached" -> MemcachedIsTokenValid(cache, tokenHash)
      [] kind = "memory"    -> MemoryIsTokenValid(cache, tokenHash, now)
      [] kind = "noop"      -> NoopIsTokenValid
================================================================================
