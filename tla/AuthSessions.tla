----------------------------- MODULE AuthSessions ------------------------------
(***************************************************************************)
(* The session half of service/auth.go: createSession, RefreshSession and  *)
(* Logout, run by concurrent request handlers against one database and one *)
(* session cache, together with the cleanup worker's session sweep,        *)
(* DeleteUser's cascade, direct use of the exported repository, cache      *)
(* eviction, failing calls and process restarts.                           *)
(*                                                                         *)
(* A step of a handler is one round trip (an SQL statement or a cache      *)
(* command) with the local computation next to it; between two round trips *)
(* every other handler may run.  A handler keeps what it read.             *)
(*                                                                         *)
(* An error before a handler's first write changes nothing, so the steps   *)
(* that return "invalid token", "not found" or "session expired" are       *)
(* stuttering steps and do not appear.  A write that reports an error may  *)
(* have been applied: the reply, or the connection, was lost.  (For the    *)
(* INSERT the two cases differ only in a row whose token nobody knows.)    *)
(***************************************************************************)
EXTENDS SessionRepository, SessionCache

CONSTANTS
    Users,        \* user ids
    NoUser,       \* absence of a user id
    Procs,        \* request handlers that may run at the same time
    SecretKey,    \* AuthServiceConfig.SecretKey
    SessionTTL,   \* AuthServiceConfig.SessionTTL, in clock units
    Second,       \* clock units in a second
    CacheKind,    \* which ISessionCache is plugged in
    Exclusive,    \* TRUE: clients never run two requests on one session at once
    Env,          \* which of Environment the model lets happen
    MaxTokens,    \* bound on generated tokens
    MaxTime       \* bound on the clock

Environment == {"cacheError", "dbError", "crash", "evict", "deleteUser", "repository"}

ASSUME UserAssumption == NoUser \notin Users
ASSUME TimeAssumption == /\ SessionTTL \in Nat \ {0}
                         /\ Second \in Nat \ {0}
                         /\ MaxTime \in Nat
ASSUME TokenAssumption == MaxTokens \in Nat
ASSUME KindAssumption == CacheKind \in CacheKinds
ASSUME ChoiceAssumption == Exclusive \in BOOLEAN /\ Env \subseteq Environment

VARIABLES
    now,        \* the clock
    users,      \* ids in the users table
    sessions,   \* the sessions table
    sessionSeq, \* last id drawn from the sessions sequence
    tokenSeq,   \* how many tokens GenerateToken has returned
    cache,      \* the session cache
    proc,       \* the request handlers
    held,       \* tokens that clients have received
    owner,      \* history: the user each token was generated for
    purged      \* history: tokens whose InvalidateSessionToken returned nil

storeVars == <<users, sessions, sessionSeq>>
vars == <<now, users, sessions, sessionSeq, tokenSeq, cache, proc,
          held, owner, purged>>

-------------------------------------------------------------------------------
(* Tokens are 32 random bytes, so pairwise distinct: the n-th generated      *)
(* token is n, and 0 stands for no token.                                    *)
Tokens == 1..MaxTokens

\* hashToken: an injective digest of the token and the secret.
hashToken(token) == <<"sha256", token, SecretKey>>
TokenHashes == {hashToken(t) : t \in Tokens}

\* Where a handler stands: the round trip it makes next.
InvalidatePCs == {"delSession1", "delValid1", "delSession2", "delValid2"}
SetPCs == {"setSession", "setValid"}
PCs == {"idle", "insert", "update", "softDelete"} \cup InvalidatePCs \cup SetPCs

\* A handler's locals: the presented token, the token it generated, and the
\* domain.Session it built or read.
Handler == [pc: PCs, token: Tokens \cup {0}, newToken: Tokens \cup {0}, id: Nat,
            userID: Users \cup {NoUser}, expiresAt: Nat]

Idle == [pc |-> "idle", token |-> 0, newToken |-> 0, id |-> 0,
         userID |-> NoUser, expiresAt |-> 0]

Rows == SessionRow(Nat \ {0}, Users, TokenHashes, Nat)
Entries == CacheEntry(Users, TokenHashes, Nat)

TypeOK ==
    /\ now \in Nat
    /\ users \subseteq Users
    /\ sessions \subseteq Rows
    /\ sessionSeq \in Nat
    /\ tokenSeq \in 0..MaxTokens
    /\ cache \subseteq Entries
    /\ proc \in [Procs -> Handler]
    /\ held \subseteq Tokens
    /\ owner \in [Tokens -> Users \cup {NoUser}]
    /\ purged \subseteq Tokens

Init ==
    /\ now = 0
    /\ users = Users
    /\ sessions = {}
    /\ sessionSeq = 0
    /\ tokenSeq = 0
    /\ cache = {}
    /\ proc = [p \in Procs |-> Idle]
    /\ held = {}
    /\ owner = [t \in Tokens |-> NoUser]
    /\ purged = {}

-------------------------------------------------------------------------------
(* What ValidateSession would answer now: the cache first, the database when *)
(* the cache reports an error, and then GetUser, which needs the user row.   *)
Vouched(t) ==
    LET answer == CacheIsTokenValid(CacheKind, cache, hashToken(t), now)
    IN  IF answer.err THEN IsTokenValid(sessions, hashToken(t), now)
                      ELSE answer.users

AcceptedAs(t) == Vouched(t) \cap users
Accepts(t) == AcceptedAs(t) # {}

-------------------------------------------------------------------------------
Goto(p, pc) == proc' = [proc EXCEPT ![p].pc = pc]
Abort(p) == proc' = [proc EXCEPT ![p] = Idle]

\* The handler returns its new token to the client.
ReturnToken(p) ==
    /\ Abort(p)
    /\ held' = held \cup {proc[p].newToken}

\* GenerateToken(32) on behalf of user u.
GenerateToken(u) ==
    /\ tokenSeq < MaxTokens
    /\ tokenSeq' = tokenSeq + 1
    /\ owner' = [owner EXCEPT ![tokenSeq + 1] = u]

-------------------------------------------------------------------------------
(* createSession, called by Login, VerifyOTP and ExchangeOAuthCode with the  *)
(* id of a user row they have read.                                          *)
CreateSession(p, u) ==
    /\ proc[p].pc = "idle"
    /\ u \in users
    /\ GenerateToken(u)
    /\ proc' = [proc EXCEPT ![p] = [Idle EXCEPT !.pc = "insert",
                                                !.newToken = tokenSeq + 1,
                                                !.userID = u,
                                                !.expiresAt = now + SessionTTL]]
    /\ UNCHANGED <<now, storeVars, cache, held, purged>>

\* sessionRepo.Create: the foreign key refuses a user deleted meanwhile.
InsertSession(p) ==
    LET h == proc[p] IN
    /\ h.pc = "insert"
    /\ \/ /\ h.userID \in users
          /\ sessionSeq' = sessionSeq + 1
          /\ sessions' = Create(sessions, sessionSeq + 1, h.userID,
                                hashToken(h.newToken), h.expiresAt)
          /\ proc' = [proc EXCEPT ![p].pc = "setSession", ![p].id = sessionSeq + 1]
       \/ /\ h.userID \notin users \/ "dbError" \in Env
          /\ Abort(p)
          /\ UNCHANGED <<sessions, sessionSeq>>
    /\ UNCHANGED <<now, users, tokenSeq, cache, held, owner, purged>>

-------------------------------------------------------------------------------
(* Cache.SetSession, the last call of createSession and RefreshSession; its  *)
(* error is ignored and the token is returned either way.                    *)
SetSession(p) ==
    LET h == proc[p]
        hash == hashToken(h.newToken) IN
    /\ h.pc = "setSession"
    /\ \/ /\ CacheKind = "memcached"
          /\ cache' = CacheSet(cache, "session", hash, h.userID,
                               now + CacheTTL(SessionTTL, Second))
          /\ Goto(p, "setValid")
          /\ UNCHANGED held
       \/ /\ CacheKind = "memcached" /\ "cacheError" \in Env
          /\ ReturnToken(p)
          /\ UNCHANGED cache
       \/ /\ CacheKind = "memory"
          /\ cache' = CacheSet(cache, "session", hash, h.userID, h.expiresAt)
          /\ ReturnToken(p)
       \/ /\ CacheKind = "noop"
          /\ ReturnToken(p)
          /\ UNCHANGED cache
    /\ UNCHANGED <<now, storeVars, tokenSeq, owner, purged>>

SetTokenValid(p) ==
    LET h == proc[p] IN
    /\ h.pc = "setValid"
    /\ \/ cache' = CacheSet(cache, "token_valid", hashToken(h.newToken), h.userID,
                            now + CacheTTL(SessionTTL, Second))
       \/ "cacheError" \in Env /\ UNCHANGED cache
    /\ ReturnToken(p)
    /\ UNCHANGED <<now, storeVars, tokenSeq, owner, purged>>

-------------------------------------------------------------------------------
(* The first statement of RefreshSession and Logout: the live row of a token *)
(* the client holds, and the check that it has not expired.                  *)
ReadSession(p, t, r) ==
    /\ proc[p].pc = "idle"
    /\ t \in held
    /\ r \in GetByTokenHash(sessions, hashToken(t))
    /\ ~(now > r.expiresAt)
    /\ Exclusive => \A q \in Procs : proc[q].id # r.id

RefreshSession(p, t) == \E r \in sessions :
    /\ ReadSession(p, t, r)
    /\ GenerateToken(r.userID)
    /\ proc' = [proc EXCEPT ![p] = [pc |-> "update", token |-> t,
                                    newToken |-> tokenSeq + 1, id |-> r.id,
                                    userID |-> r.userID,
                                    expiresAt |-> now + SessionTTL]]
    /\ UNCHANGED <<now, storeVars, cache, held, purged>>

\* Mutants of RefreshedSession: the row is written back with the presented
\* token, or from a struct whose user id was never filled in.
RefreshedSession_OldToken(h) ==
    [id |-> h.id, userID |-> h.userID, tokenHash |-> hashToken(h.token),
     expiresAt |-> h.expiresAt, deleted |-> FALSE]
RefreshedSession_NoUser(h) ==
    [id |-> h.id, userID |-> NoUser, tokenHash |-> hashToken(h.newToken),
     expiresAt |-> h.expiresAt, deleted |-> FALSE]

\* The session a refresh writes back: the row it read, deleted_at NULL
\* included, with the new token and expiry.
RefreshedSession(h) ==
    [id |-> h.id, userID |-> h.userID, tokenHash |-> hashToken(h.newToken),
     expiresAt |-> h.expiresAt, deleted |-> FALSE]

\* sessionRepo.Update.
UpdateSession(p) ==
    LET h == proc[p] IN
    /\ h.pc = "update"
    /\ \/ /\ sessions' = Update(sessions, RefreshedSession(h))
          /\ Goto(p, "delSession1")
       \/ /\ "dbError" \in Env
          /\ sessions' \in {sessions, Update(sessions, RefreshedSession(h))}
          /\ Abort(p)
    /\ UNCHANGED <<now, users, sessionSeq, tokenSeq, cache, held, owner, purged>>

Logout(p, t) == \E r \in sessions :
    /\ ReadSession(p, t, r)
    /\ proc' = [proc EXCEPT ![p] = [Idle EXCEPT !.pc = "softDelete", !.token = t,
                                                !.id = r.id, !.userID = r.userID]]
    /\ UNCHANGED <<now, storeVars, tokenSeq, cache, held, owner, purged>>

\* sessionRepo.SoftDelete, by the id that was read.
SoftDeleteSession(p) ==
    /\ proc[p].pc = "softDelete"
    /\ \/ /\ sessions' = SoftDelete(sessions, proc[p].id)
          /\ Goto(p, "delSession1")
       \/ /\ "dbError" \in Env
          /\ sessions' \in {sessions, SoftDelete(sessions, proc[p].id)}
          /\ Abort(p)
    /\ UNCHANGED <<now, users, sessionSeq, tokenSeq, cache, held, owner, purged>>

-------------------------------------------------------------------------------
(* Cache.InvalidateSessionToken.  With memcached: both keys, a pause of      *)
(* 25 ms, both keys again; the first failure ends it.  Its error is ignored: *)
(* a refresh goes on to SetSession, a logout returns success.                *)
KeyOf_SessionOnly(pc) == "session"   \* mutant: "token_valid:" is never deleted

KeyOf(pc) == IF pc \in {"delSession1", "delSession2"} THEN "session" ELSE "token_valid"

NextPC(pc) == CASE pc = "delSession1" -> "delValid1"
                [] pc = "delValid1"   -> "delSession2"
                [] pc = "delSession2" -> "delValid2"

AfterInvalidate(p) ==
    \/ proc[p].newToken # 0 /\ Goto(p, "setSession")
    \/ proc[p].newToken = 0 /\ Abort(p)

InvalidateMemcached(p) ==
    LET h == proc[p] IN
    /\ CacheKind = "memcached"
    /\ h.pc \in InvalidatePCs
    /\ \/ /\ cache' = CacheDelete(cache, KeyOf(h.pc), hashToken(h.token))
          /\ \/ /\ h.pc # "delValid2"
                /\ Goto(p, NextPC(h.pc))
                /\ UNCHANGED purged
             \/ /\ h.pc = "delValid2"
                /\ purged' = purged \cup {h.token}
                /\ AfterInvalidate(p)
       \/ /\ "cacheError" \in Env
          /\ AfterInvalidate(p)
          /\ UNCHANGED <<cache, purged>>
    /\ UNCHANGED <<now, storeVars, tokenSeq, held, owner>>

\* One locked map deletion, or nothing at all.
InvalidateLocal(p) ==
    LET h == proc[p] IN
    /\ CacheKind # "memcached"
    /\ h.pc = "delSession1"
    /\ cache' = CacheDelete(cache, "session", hashToken(h.token))
    /\ purged' = purged \cup {h.token}
    /\ AfterInvalidate(p)
    /\ UNCHANGED <<now, storeVars, tokenSeq, held, owner>>

-------------------------------------------------------------------------------
(* The rest of the system and the environment.                               *)

\* CleanupWorker.cleanup, its sessions statement.
CleanupSessions ==
    /\ sessions' = DeleteExpiredAndSoftDeleted(sessions, now)
    /\ sessions' # sessions
    /\ UNCHANGED <<now, users, sessionSeq, tokenSeq, cache, proc, held, owner, purged>>

\* DeleteUser: the row goes, its sessions go with it, the cache is not told.
DeleteUser(u) ==
    /\ "deleteUser" \in Env
    /\ u \in users
    /\ users' = users \ {u}
    /\ sessions' = CascadeDeleteUser(sessions, u)
    /\ UNCHANGED <<now, sessionSeq, tokenSeq, cache, proc, held, owner, purged>>

\* The exported repository methods no service operation calls.
RepositoryCall ==
    /\ "repository" \in Env
    /\ \/ \E r \in sessions : sessions' = Delete(sessions, r.id)
       \/ \E u \in users : sessions' = SoftDeleteByUserID(sessions, u)
    /\ UNCHANGED <<now, users, sessionSeq, tokenSeq, cache, proc, held, owner, purged>>

\* The process restarts: its handlers and its in-process cache are gone.
Restart ==
    /\ "crash" \in Env
    /\ proc' = [p \in Procs |-> Idle]
    /\ cache' = IF CacheKind = "memory" THEN {} ELSE cache
    /\ UNCHANGED <<now, storeVars, tokenSeq, held, owner, purged>>

\* memcached makes room.
Evict(e) ==
    /\ "evict" \in Env /\ CacheKind = "memcached"
    /\ cache' = cache \ {e}
    /\ UNCHANGED <<now, storeVars, tokenSeq, proc, held, owner, purged>>

Tick ==
    /\ now < MaxTime
    /\ now' = now + 1
    /\ cache' = IF CacheKind = "memcached" THEN CacheExpire(cache, now + 1) ELSE cache
    /\ UNCHANGED <<storeVars, tokenSeq, proc, held, owner, purged>>

HandlerStep(p) ==
    \/ \E u \in Users : CreateSession(p, u)
    \/ InsertSession(p)
    \/ SetSession(p)
    \/ SetTokenValid(p)
    \/ \E t \in held : RefreshSession(p, t)
    \/ UpdateSession(p)
    \/ \E t \in held : Logout(p, t)
    \/ SoftDeleteSession(p)
    \/ InvalidateMemcached(p)
    \/ InvalidateLocal(p)

\* What happens around the handlers while the process runs.
OtherStep ==
    \/ CleanupSessions
    \/ \E u \in Users : DeleteUser(u)
    \/ RepositoryCall
    \/ \E e \in cache : Evict(e)
    \/ Tick

Next ==
    \/ \E p \in Procs : HandlerStep(p)
    \/ Restart
    \/ OtherStep

Spec == Init /\ [][Next]_vars

-------------------------------------------------------------------------------
(* Properties.                                                               *)

\* No request is ever authenticated as somebody else: whatever races, failures
\* and restarts happened, a token that ValidateSession accepts is accepted as
\* the user it was generated for.
AcceptedAsOwner == \A t \in Tokens : AcceptedAs(t) \subseteq {owner[t]}

\* Logout and RefreshSession revoke the presented token: once
\* InvalidateSessionToken has returned nil, ValidateSession never accepts it
\* again, although another handler may still write to its session row.
PurgedTokenRefused == \A t \in purged : ~Accepts(t)

\* The cache is best-effort: a session that is live in the database is
\* accepted whatever the cache lost, as long as its user exists.
LiveSessionAccepted ==
    \A t \in held : IsTokenValid(sessions, hashToken(t), now) # {} => Accepts(t)

\* When clients take care not to run two requests on one session, no call fails
\* and no session expires under a running handler, the cache vouches only for
\* sessions that the database knows: the row is live, or a handler that has
\* just changed it is about to drop the entry.
BeingDropped(t) == \E p \in Procs :
    proc[p].token = t /\ proc[p].pc \in {"delSession1", "delValid1"}

CachedTokenBacked ==
    \A t \in held : Accepts(t) =>
        \/ \E r \in sessions : r.tokenHash = hashToken(t) /\ ~r.deleted
        \/ BeingDropped(t)

\* What Logout's comment says of the session row: it stays soft-deleted until
\* the worker removes it.
SoftDeleteIsPermanent ==
    [][\A r \in sessions : r.deleted =>
          \A s \in sessions' : s.id = r.id => s.deleted]_vars

\* Under the same care, the token that createSession or RefreshSession hands to a
\* client is at that moment the token of a live row, unless the user was deleted
\* meanwhile.  Two refreshes of one session at the same time break it: the row
\* takes the later token, and the other one is handed out too.
ReturnedTokenIsLive ==
    [][\A t \in held' \ held : \/ IsTokenValid(sessions, hashToken(t), now)' # {}
                               \/ owner[t] \notin users']_vars

\* The promise of TokenLifecycle, with a token's status read off the handlers'
\* replies and off what ValidateSession would answer.
TokenStatus == [t \in Tokens |-> IF t \notin held THEN "unissued"
                                ELSE IF Accepts(t) THEN "accepted" ELSE "refused"]

Lifecycle == INSTANCE TokenLifecycle WITH status <- TokenStatus

\* A token once refused is refused for good, and none is issued twice: the
\* handlers of RefreshSession and Logout, the cache and the worker together
\* implement the life cycle of a token.
ImplementsLifecycle == Lifecycle!Spec
================================================================================
