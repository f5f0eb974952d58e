-------------------------- MODULE AuthSessionsProofs ---------------------------
(***************************************************************************)
(* The safety properties of AuthSessions for any number of users, handlers *)
(* and tokens, any time bound, any cache and any subset of the faults.     *)
(*                                                                         *)
(* The argument.  A generated token belongs to the handler that generated  *)
(* it until the handler returns it (Private), so a row or a cache entry    *)
(* for a token that a client holds is never written again: it can only     *)
(* disappear.  At most one row id carries a token (OneRow), so the         *)
(* UPDATE ... WHERE id of a refresh or a logout, even when it comes late   *)
(* and hits a row that has moved on, leaves no live row with the token it  *)
(* was given (Revoked); deleting the cache entry then ends the token.      *)
(***************************************************************************)
EXTENDS AuthSessions, TLAPS

\* Rows that carry a token, and those of them that are not soft-deleted.
RowsOf(t) == {r \in sessions : r.tokenHash = hashToken(t)}
LiveRowsOf(t) == GetByTokenHash(sessions, hashToken(t))

\* The cache key that CacheIsTokenValid consults.
ValidKey == IF CacheKind = "memcached" THEN "token_valid" ELSE "session"

\* Tokens come from GenerateToken and nowhere else.
Generated ==
    /\ \A t \in held : t <= tokenSeq
    /\ \A t \in Tokens : t > tokenSeq =>
          RowsOf(t) = {} /\ \A k \in CacheKeys : Lookup(cache, k, hashToken(t)) = {}
    /\ \A p \in Procs : proc[p].token <= tokenSeq /\ proc[p].newToken <= tokenSeq

\* A handler works on a token its client holds and keeps the one it generated
\* to itself.
Private ==
    /\ \A p \in Procs : proc[p].token # 0 => proc[p].token \in held
    /\ \A p \in Procs : proc[p].newToken # 0 =>
          /\ proc[p].newToken \notin held
          /\ \A q \in Procs : proc[q].newToken = proc[p].newToken => q = p

\* What a handler has in hand at each point of its way.
WellFormed(h) ==
    /\ h.pc \in {"insert", "update"} \cup SetPCs => h.newToken # 0
    /\ h.pc \in {"update", "softDelete"} \cup InvalidatePCs => h.token # 0
    /\ h.pc \in {"idle", "insert"} => h.token = 0
    /\ h.newToken # 0 => h.userID \in Users
    /\ h.pc = "update" => h.id # 0

Shape == \A p \in Procs : WellFormed(proc[p])

\* Rows, cache entries and handlers name the user a token was generated for.
Owned ==
    /\ \A t \in Tokens : \A r \in RowsOf(t) : r.userID = owner[t]
    /\ \A t \in Tokens : \A e \in cache : e.tokenHash = hashToken(t) => e.userID = owner[t]
    /\ \A p \in Procs : proc[p].newToken # 0 => proc[p].userID = owner[proc[p].newToken]

\* A token is in rows of one id only; a handler that has not written yet finds
\* no row with its new token, and no other row with the token it was given.
OneRow ==
    /\ \A r, s \in sessions : r.tokenHash = s.tokenHash => r.id = s.id
    /\ \A p \in Procs : proc[p].pc \in {"insert", "update"} => RowsOf(proc[p].newToken) = {}
    /\ \A p \in Procs : proc[p].pc \in {"update", "softDelete"} =>
          \A r \in RowsOf(proc[p].token) : r.id = proc[p].id

\* After its UPDATE a handler's token is in no live row.
Revoked ==
    \A p \in Procs : proc[p].pc \in InvalidatePCs \cup SetPCs /\ proc[p].token # 0
                       => LiveRowsOf(proc[p].token) = {}

\* A purged token is in no live row and has no entry the cache would answer from.
Purged ==
    /\ purged \subseteq held
    /\ \A t \in purged : LiveRowsOf(t) = {} /\ Lookup(cache, ValidKey, hashToken(t)) = {}

\* Foreign key: a row's user exists, and the UPDATE of a refresh keeps it so.
RowUsers ==
    /\ \A r \in sessions : r.userID \in users /\ r.id <= sessionSeq
    /\ \A r, s \in sessions : r.id = s.id => r.userID = s.userID
    /\ \A p \in Procs : proc[p].pc = "update" =>
          /\ proc[p].id <= sessionSeq
          /\ \A r \in sessions : r.id = proc[p].id => r.userID = proc[p].userID

IInv == /\ TypeOK
        /\ Generated
        /\ Private
        /\ Shape
        /\ Owned
        /\ OneRow
        /\ Revoked
        /\ Purged
        /\ RowUsers

-------------------------------------------------------------------------------
(* The statements of the repository and the cache keep their tables typed.   *)

\* The hash of a token is a token hash.
LEMMA HashType == \A t \in Tokens : hashToken(t) \in TokenHashes
  BY DEF TokenHashes

\* hashToken tells any two tokens apart.
LEMMA HashInjective == \A t, u \in Tokens : hashToken(t) = hashToken(u) => t = u
  BY DEF hashToken

\* Every statement on the sessions table yields a table of well-typed rows.
LEMMA TableTypes ==
  ASSUME NEW table \in SUBSET Rows
  PROVE  /\ \A id \in Nat \ {0}, u \in Users, h \in TokenHashes, x \in Nat :
               Create(table, id, u, h, x) \subseteq Rows
         /\ \A s \in Rows : Update(table, s) \subseteq Rows
         /\ \A id : SoftDelete(table, id) \subseteq Rows
         /\ \A u : SoftDeleteByUserID(table, u) \subseteq Rows
         /\ \A id : Delete(table, id) \subseteq Rows
         /\ \A u : CascadeDeleteUser(table, u) \subseteq Rows
         /\ \A n : DeleteExpiredAndSoftDeleted(table, n) \subseteq Rows
  <1>1. \A id \in Nat \ {0}, u \in Users, h \in TokenHashes, x \in Nat :
               Create(table, id, u, h, x) \subseteq Rows
    <2>1. \A id \in Nat \ {0}, u \in Users, h \in TokenHashes, x \in Nat :
            [id |-> id, userID |-> u, tokenHash |-> h, expiresAt |-> x, deleted |-> FALSE] \in Rows
      BY DEF Rows, SessionRow
    <2>2. QED
      BY <2>1 DEF Create
  <1>2. \A s \in Rows : Update(table, s) \subseteq Rows
    BY DEF Update
  <1>3. \A r \in Rows : [r EXCEPT !.deleted = TRUE] \in Rows
    BY DEF Rows, SessionRow
  <1>4. \A id : SoftDelete(table, id) \subseteq Rows
    BY <1>3 DEF SoftDelete
  <1>5. \A u : SoftDeleteByUserID(table, u) \subseteq Rows
    BY <1>3 DEF SoftDeleteByUserID
  <1>6. QED
    BY <1>1, <1>2, <1>4, <1>5 DEF Delete, CascadeDeleteUser, DeleteExpiredAndSoftDeleted

\* Every cache command yields a cache of well-typed entries.
LEMMA CacheTypes ==
  ASSUME NEW c \in SUBSET Entries
  PROVE  /\ \A k, h : CacheDelete(c, k, h) \subseteq Entries
         /\ \A k \in CacheKeys, h \in TokenHashes, u \in Users, x \in Nat :
               CacheSet(c, k, h, u, x) \subseteq Entries
         /\ \A n : CacheExpire(c, n) \subseteq Entries
  BY DEF CacheDelete, CacheSet, CacheExpire, Entries, CacheEntry

\* CacheTTL is a length of time.
LEMMA TTLType == CacheTTL(SessionTTL, Second) \in Nat
  <1>1. SessionTTL \div Second \in Nat
    BY TimeAssumption
  <1>2. QED
    BY <1>1, TimeAssumption DEF CacheTTL

-------------------------------------------------------------------------------
(* Type correctness.                                                         *)

\* The locals a handler starts or ends with are well typed.
LEMMA HandlerTypes ==
  /\ Idle \in Handler
  /\ \A h \in Handler, c \in PCs : [h EXCEPT !.pc = c] \in Handler
  BY DEF Idle, Handler, PCs

\* The initial state is well typed.
LEMMA TypeInit == Init => TypeOK
  <1>. SUFFICES ASSUME Init PROVE TypeOK
    OBVIOUS
  <1>1. proc \in [Procs -> Handler]
    BY HandlerTypes DEF Init
  <1>2. QED
    BY <1>1, TokenAssumption DEF Init, TypeOK

\* Generating a token keeps the token counter and the owners typed.
LEMMA GenerateTypes ==
  ASSUME TypeOK, NEW u \in Users, GenerateToken(u)
  PROVE  /\ tokenSeq' \in 0..MaxTokens
         /\ tokenSeq + 1 \in Tokens
         /\ owner' \in [Tokens -> Users \cup {NoUser}]
  BY TokenAssumption DEF TypeOK, GenerateToken, Tokens

\* What one handler does leaves the others' handlers typed and well formed.
LEMMA HandlerUpdate ==
  ASSUME TypeOK, Shape, NEW p \in Procs, NEW h \in Handler, WellFormed(h),
         proc' = [proc EXCEPT ![p] = h]
  PROVE  proc' \in [Procs -> Handler] /\ Shape'
  BY DEF TypeOK, Shape

\* A handler that returns early ends up idle, typed and well formed.
LEMMA AbortShape ==
  ASSUME TypeOK, Shape, NEW p \in Procs, Abort(p)
  PROVE  proc' \in [Procs -> Handler] /\ Shape'
  <1>1. Idle \in Handler /\ WellFormed(Idle)
    BY HandlerTypes DEF WellFormed, Idle, SetPCs, InvalidatePCs
  <1>2. QED
    BY <1>1, HandlerUpdate DEF Abort

\* Moving on to the next round trip keeps a handler typed and well formed.
LEMMA GotoShape ==
  ASSUME TypeOK, Shape, NEW p \in Procs, NEW c \in PCs, Goto(p, c),
         WellFormed([proc[p] EXCEPT !.pc = c])
  PROVE  proc' \in [Procs -> Handler] /\ Shape'
  <1>1. [proc[p] EXCEPT !.pc = c] \in Handler
    BY HandlerTypes DEF TypeOK
  <1>2. proc' = [proc EXCEPT ![p] = [proc[p] EXCEPT !.pc = c]]
    BY DEF Goto, TypeOK
  <1>3. QED
    BY <1>1, <1>2, HandlerUpdate

\* Returning the new token leaves the handler idle and the held tokens typed.
LEMMA ReturnShape ==
  ASSUME TypeOK, Shape, NEW p \in Procs, ReturnToken(p), proc[p].pc \in SetPCs
  PROVE  proc' \in [Procs -> Handler] /\ Shape' /\ held' \subseteq Tokens
  <1>1. proc[p].newToken \in Tokens
    BY DEF TypeOK, Handler, Shape, WellFormed
  <1>2. QED
    BY <1>1, AbortShape DEF TypeOK, ReturnToken

\* Every step keeps the types and the handlers' shape.
LEMMA TypeStep ==
  ASSUME TypeOK, Shape, [Next]_vars
  PROVE  TypeOK' /\ Shape'
  <1>1. ASSUME NEW p \in Procs, NEW u \in Users, CreateSession(p, u)
        PROVE  TypeOK' /\ Shape'
    <2>. DEFINE h == [Idle EXCEPT !.pc = "insert", !.newToken = tokenSeq + 1,
                                  !.userID = u, !.expiresAt = now + SessionTTL]
    <2>1. GenerateToken(u) /\ proc' = [proc EXCEPT ![p] = h]
      BY <1>1 DEF CreateSession
    <2>2. h \in Handler /\ WellFormed(h)
      <3>1. tokenSeq + 1 \in Tokens /\ tokenSeq + 1 # 0 /\ now + SessionTTL \in Nat
        BY <2>1, GenerateTypes, TimeAssumption DEF TypeOK, Tokens
      <3>2. QED
        BY <3>1 DEF Handler, WellFormed, Idle, PCs, SetPCs, InvalidatePCs
    <2>3. proc' \in [Procs -> Handler] /\ Shape'
      BY <2>1, <2>2, HandlerUpdate
    <2>4. QED
      BY <1>1, <2>1, <2>3, GenerateTypes DEF CreateSession, TypeOK, storeVars
  <1>2. ASSUME NEW p \in Procs, InsertSession(p)
        PROVE  TypeOK' /\ Shape'
    <2>. DEFINE h == [proc[p] EXCEPT !.pc = "setSession", !.id = sessionSeq + 1]
    <2>1. CASE Abort(p) /\ UNCHANGED <<sessions, sessionSeq>>
      BY <1>2, <2>1, AbortShape DEF InsertSession, TypeOK
    <2>2. CASE /\ proc[p].userID \in users
               /\ sessionSeq' = sessionSeq + 1
               /\ sessions' = Create(sessions, sessionSeq + 1, proc[p].userID,
                                     hashToken(proc[p].newToken), proc[p].expiresAt)
               /\ proc' = [proc EXCEPT ![p].pc = "setSession", ![p].id = sessionSeq + 1]
      <3>1. proc[p] \in Handler /\ WellFormed(proc[p]) /\ proc[p].pc = "insert"
        BY <1>2 DEF TypeOK, Shape, InsertSession
      <3>2. proc[p].newToken \in Tokens /\ proc[p].userID \in Users /\ proc[p].expiresAt \in Nat
        BY <3>1 DEF Handler, WellFormed
      <3>3. sessions' \subseteq Rows
        BY <2>2, <3>2, HashType, TableTypes DEF TypeOK
      <3>4. h \in Handler /\ WellFormed(h)
        <4>1. sessionSeq + 1 \in Nat /\ "setSession" \in PCs
          BY DEF TypeOK, PCs, SetPCs
        <4>2. h \in Handler
          BY <3>1, <4>1 DEF Handler
        <4>3. /\ h.pc = "setSession" /\ h.newToken = proc[p].newToken
              /\ h.token = proc[p].token /\ h.userID = proc[p].userID
          BY <3>1 DEF Handler
        <4>4. QED
          BY <3>1, <3>2, <4>2, <4>3 DEF WellFormed, SetPCs, InvalidatePCs
      <3>5. proc' = [proc EXCEPT ![p] = h]
        BY <2>2 DEF TypeOK
      <3>6. proc' \in [Procs -> Handler] /\ Shape'
        BY <3>4, <3>5, HandlerUpdate
      <3>7. QED
        BY <1>2, <2>2, <3>3, <3>6 DEF InsertSession, TypeOK
    <2>3. QED
      BY <1>2, <2>1, <2>2 DEF InsertSession
  <1>3. ASSUME NEW p \in Procs, SetSession(p)
        PROVE  TypeOK' /\ Shape'
    <2>1. /\ proc[p].pc = "setSession" /\ proc[p].newToken \in Tokens
          /\ proc[p].userID \in Users /\ proc[p].expiresAt \in Nat
      BY <1>3 DEF SetSession, TypeOK, Shape, Handler, WellFormed, SetPCs
    <2>2. \A x \in Nat : CacheSet(cache, "session", hashToken(proc[p].newToken),
                                  proc[p].userID, x) \subseteq Entries
      BY <2>1, HashType, CacheTypes DEF TypeOK, CacheKeys
    <2>3. cache' \subseteq Entries
      BY <1>3, <2>1, <2>2, TTLType DEF SetSession, TypeOK
    <2>4. CASE Goto(p, "setValid") /\ UNCHANGED held
      <3>1. WellFormed([proc[p] EXCEPT !.pc = "setValid"]) /\ "setValid" \in PCs
        BY <2>1 DEF WellFormed, PCs, SetPCs, InvalidatePCs, TypeOK, Handler, Shape, Tokens
      <3>2. QED
        BY <1>3, <2>3, <2>4, <3>1, GotoShape DEF SetSession, TypeOK, storeVars
    <2>5. CASE ReturnToken(p)
      BY <1>3, <2>1, <2>3, <2>5, ReturnShape DEF SetSession, TypeOK, storeVars, SetPCs
    <2>6. QED
      BY <1>3, <2>4, <2>5 DEF SetSession
  <1>4. ASSUME NEW p \in Procs, SetTokenValid(p)
        PROVE  TypeOK' /\ Shape'
    <2>1. /\ proc[p].pc = "setValid" /\ proc[p].newToken \in Tokens
          /\ proc[p].userID \in Users
      BY <1>4 DEF SetTokenValid, TypeOK, Shape, Handler, WellFormed, SetPCs
    <2>2. \A x \in Nat : CacheSet(cache, "token_valid", hashToken(proc[p].newToken),
                                  proc[p].userID, x) \subseteq Entries
      BY <2>1, HashType, CacheTypes DEF TypeOK, CacheKeys
    <2>3. cache' \subseteq Entries
      BY <1>4, <2>2, TTLType DEF SetTokenValid, TypeOK
    <2>4. QED
      BY <1>4, <2>1, <2>3, ReturnShape DEF SetTokenValid, TypeOK, storeVars, SetPCs
  <1>5. ASSUME NEW p \in Procs, NEW t \in held, RefreshSession(p, t)
        PROVE  TypeOK' /\ Shape'
    <2>1. PICK r \in sessions :
            /\ GenerateToken(r.userID)
            /\ proc' = [proc EXCEPT ![p] = [pc |-> "update", token |-> t,
                                            newToken |-> tokenSeq + 1, id |-> r.id,
                                            userID |-> r.userID,
                                            expiresAt |-> now + SessionTTL]]
      BY <1>5 DEF RefreshSession
    <2>. DEFINE h == [pc |-> "update", token |-> t, newToken |-> tokenSeq + 1,
                      id |-> r.id, userID |-> r.userID, expiresAt |-> now + SessionTTL]
    <2>2. r.userID \in Users /\ r.id \in Nat \ {0} /\ t \in Tokens
      BY DEF TypeOK, Rows, SessionRow
    <2>3. h \in Handler /\ WellFormed(h)
      <3>1. /\ tokenSeq + 1 \in Tokens /\ tokenSeq + 1 # 0 /\ now + SessionTTL \in Nat
            /\ t # 0
        BY <2>1, <2>2, GenerateTypes, TimeAssumption DEF TypeOK, Tokens
      <3>2. QED
        BY <2>2, <3>1 DEF Handler, WellFormed, PCs, SetPCs, InvalidatePCs
    <2>4. proc' \in [Procs -> Handler] /\ Shape'
      BY <2>1, <2>3, HandlerUpdate
    <2>5. QED
      BY <1>5, <2>1, <2>2, <2>4, GenerateTypes DEF RefreshSession, TypeOK, storeVars
  <1>6. ASSUME NEW p \in Procs, UpdateSession(p)
        PROVE  TypeOK' /\ Shape'
    <2>1. /\ proc[p].pc = "update" /\ proc[p].newToken \in Tokens /\ proc[p].token \in Tokens
          /\ proc[p].userID \in Users /\ proc[p].id \in Nat \ {0} /\ proc[p].expiresAt \in Nat
      BY <1>6 DEF UpdateSession, TypeOK, Shape, Handler, WellFormed
    <2>2. RefreshedSession(proc[p]) \in Rows
      BY <2>1, HashType DEF RefreshedSession, Rows, SessionRow
    <2>3. sessions' \subseteq Rows
      <3>1. sessions \subseteq Rows /\ Update(sessions, RefreshedSession(proc[p])) \subseteq Rows
        BY <2>2, TableTypes DEF TypeOK
      <3>2. sessions' \in {sessions, Update(sessions, RefreshedSession(proc[p]))}
        BY <1>6 DEF UpdateSession
      <3>3. QED
        BY <3>1, <3>2
    <2>4. CASE Goto(p, "delSession1")
      <3>1. WellFormed([proc[p] EXCEPT !.pc = "delSession1"]) /\ "delSession1" \in PCs
        BY <2>1 DEF WellFormed, PCs, SetPCs, InvalidatePCs, TypeOK, Handler, Shape, Tokens
      <3>2. QED
        BY <1>6, <2>3, <2>4, <3>1, GotoShape DEF UpdateSession, TypeOK
    <2>5. CASE Abort(p)
      BY <1>6, <2>3, <2>5, AbortShape DEF UpdateSession, TypeOK
    <2>6. QED
      BY <1>6, <2>4, <2>5 DEF UpdateSession
  <1>7. ASSUME NEW p \in Procs, NEW t \in held, Logout(p, t)
        PROVE  TypeOK' /\ Shape'
    <2>1. PICK r \in sessions :
            proc' = [proc EXCEPT ![p] = [Idle EXCEPT !.pc = "softDelete", !.token = t,
                                                     !.id = r.id, !.userID = r.userID]]
      BY <1>7 DEF Logout
    <2>. DEFINE h == [Idle EXCEPT !.pc = "softDelete", !.token = t,
                                  !.id = r.id, !.userID = r.userID]
    <2>2. r.userID \in Users /\ r.id \in Nat \ {0} /\ t \in Tokens
      BY DEF TypeOK, Rows, SessionRow
    <2>3. h \in Handler /\ WellFormed(h)
      <3>1. t # 0
        BY <2>2 DEF Tokens
      <3>2. QED
        BY <2>2, <3>1 DEF Handler, WellFormed, Idle, PCs, SetPCs, InvalidatePCs
    <2>4. proc' \in [Procs -> Handler] /\ Shape'
      BY <2>1, <2>3, HandlerUpdate
    <2>5. QED
      BY <1>7, <2>4 DEF Logout, TypeOK, storeVars
  <1>8. ASSUME NEW p \in Procs, SoftDeleteSession(p)
        PROVE  TypeOK' /\ Shape'
    <2>1. sessions' \subseteq Rows
      <3>1. sessions \subseteq Rows /\ SoftDelete(sessions, proc[p].id) \subseteq Rows
        BY TableTypes DEF TypeOK
      <3>2. sessions' \in {sessions, SoftDelete(sessions, proc[p].id)}
        BY <1>8 DEF SoftDeleteSession
      <3>3. QED
        BY <3>1, <3>2
    <2>2. CASE Goto(p, "delSession1")
      <3>1. WellFormed([proc[p] EXCEPT !.pc = "delSession1"]) /\ "delSession1" \in PCs
        BY <1>8 DEF SoftDeleteSession, WellFormed, PCs, SetPCs, InvalidatePCs, TypeOK, Handler, Shape
      <3>2. QED
        BY <1>8, <2>1, <2>2, <3>1, GotoShape DEF SoftDeleteSession, TypeOK
    <2>3. CASE Abort(p)
      BY <1>8, <2>1, <2>3, AbortShape DEF SoftDeleteSession, TypeOK
    <2>4. QED
      BY <1>8, <2>2, <2>3 DEF SoftDeleteSession
  <1>9. ASSUME NEW p \in Procs, AfterInvalidate(p), proc[p].pc \in InvalidatePCs
        PROVE  proc' \in [Procs -> Handler] /\ Shape'
    <2>1. CASE proc[p].newToken # 0 /\ Goto(p, "setSession")
      <3>1. WellFormed([proc[p] EXCEPT !.pc = "setSession"]) /\ "setSession" \in PCs
        BY <1>9, <2>1 DEF WellFormed, PCs, SetPCs, InvalidatePCs, TypeOK, Handler, Shape
      <3>2. QED
        BY <2>1, <3>1, GotoShape
    <2>2. CASE Abort(p)
      BY <2>2, AbortShape
    <2>3. QED
      BY <1>9, <2>1, <2>2 DEF AfterInvalidate
  <1>10. ASSUME NEW p \in Procs, InvalidateMemcached(p)
         PROVE  TypeOK' /\ Shape'
    <2>1. proc[p].pc \in InvalidatePCs /\ proc[p].token \in Tokens
      BY <1>10 DEF InvalidateMemcached, TypeOK, Shape, Handler, WellFormed
    <2>2. cache' \subseteq Entries
      BY <1>10, CacheTypes DEF InvalidateMemcached, TypeOK
    <2>3. purged' \subseteq Tokens
      BY <1>10, <2>1 DEF InvalidateMemcached, TypeOK
    <2>4. ASSUME proc[p].pc # "delValid2", Goto(p, NextPC(proc[p].pc))
          PROVE  proc' \in [Procs -> Handler] /\ Shape'
      <3>1. /\ NextPC(proc[p].pc) \in PCs
            /\ WellFormed([proc[p] EXCEPT !.pc = NextPC(proc[p].pc)])
        BY <2>1, <2>4 DEF NextPC, WellFormed, PCs, SetPCs, InvalidatePCs, TypeOK, Handler, Shape
      <3>2. QED
        BY <2>4, <3>1, GotoShape
    <2>5. proc' \in [Procs -> Handler] /\ Shape'
      BY <1>9, <1>10, <2>1, <2>4 DEF InvalidateMemcached
    <2>6. QED
      BY <1>10, <2>2, <2>3, <2>5 DEF InvalidateMemcached, TypeOK, storeVars
  <1>11. ASSUME NEW p \in Procs, InvalidateLocal(p)
         PROVE  TypeOK' /\ Shape'
    <2>1. proc[p].pc \in InvalidatePCs /\ proc[p].token \in Tokens
      BY <1>11 DEF InvalidateLocal, TypeOK, Shape, Handler, WellFormed, InvalidatePCs
    <2>2. cache' \subseteq Entries
      BY <1>11, CacheTypes DEF InvalidateLocal, TypeOK
    <2>3. proc' \in [Procs -> Handler] /\ Shape'
      BY <1>9, <1>11, <2>1 DEF InvalidateLocal
    <2>4. QED
      BY <1>11, <2>1, <2>2, <2>3 DEF InvalidateLocal, TypeOK, storeVars
  <1>12. CASE CleanupSessions
    BY <1>12, TableTypes DEF CleanupSessions, TypeOK, Shape
  <1>13. ASSUME NEW u \in Users, DeleteUser(u)
         PROVE  TypeOK' /\ Shape'
    BY <1>13, TableTypes DEF DeleteUser, TypeOK, Shape
  <1>14. CASE RepositoryCall
    BY <1>14, TableTypes DEF RepositoryCall, TypeOK, Shape
  <1>15. CASE Restart
    BY <1>15, HandlerTypes DEF Restart, TypeOK, storeVars, Shape, WellFormed, Idle, SetPCs, InvalidatePCs
  <1>16. ASSUME NEW e \in cache, Evict(e)
         PROVE  TypeOK' /\ Shape'
    BY <1>16 DEF Evict, TypeOK, storeVars, Shape
  <1>17. CASE Tick
    BY <1>17, CacheTypes DEF Tick, TypeOK, storeVars, Shape
  <1>18. CASE UNCHANGED vars
    BY <1>18 DEF vars, TypeOK, Shape
  <1>19. QED
    BY <1>1, <1>2, <1>3, <1>4, <1>5, <1>6, <1>7, <1>8, <1>10, <1>11, <1>12, <1>13,
       <1>14, <1>15, <1>16, <1>17, <1>18 DEF Next, OtherStep, HandlerStep

\* Type correctness, with the shape of the handlers it rests on: whatever
\* interleaves or fails, every row, cache entry and handler of the session
\* service is one the program can hold.
THEOREM TypeCorrect == Spec => [](TypeOK /\ Shape)
  <1>1. Init => TypeOK /\ Shape
    BY TypeInit DEF Init, Shape, WellFormed, Idle, SetPCs, InvalidatePCs
  <1>2. TypeOK /\ Shape /\ [Next]_vars => (TypeOK /\ Shape)'
    BY TypeStep
  <1>3. QED
    BY <1>1, <1>2, PTL DEF Spec

-------------------------------------------------------------------------------
(* Where the rows and the cache entries of the next state come from.         *)

\* Row r is row s, perhaps soft-deleted meanwhile.
Survives(s, r) ==
    /\ r.id = s.id /\ r.tokenHash = s.tokenHash /\ r.userID = s.userID
    /\ r.expiresAt = s.expiresAt
    /\ s.deleted => r.deleted

\* Handler p writes row r: the INSERT of createSession.
Inserts(p, r) ==
    /\ proc[p].pc = "insert" /\ proc'[p].pc \notin {"insert", "update"}
    /\ r.id = sessionSeq + 1 /\ sessionSeq' = sessionSeq + 1
    /\ r.tokenHash = hashToken(proc[p].newToken)
    /\ r.userID = proc[p].userID /\ r.userID \in users
    /\ r.expiresAt = proc[p].expiresAt
    /\ UNCHANGED <<users, held, owner, tokenSeq>>
    /\ \A s \in sessions' : s = r \/ s \in sessions

\* Handler p writes row r: the UPDATE of RefreshSession.
Refreshes(p, r) ==
    /\ proc[p].pc = "update" /\ proc'[p].pc \notin {"insert", "update"}
    /\ r.id = proc[p].id
    /\ r.tokenHash = hashToken(proc[p].newToken)
    /\ r.userID = proc[p].userID /\ r.expiresAt = proc[p].expiresAt
    /\ \E s \in sessions : s.id = r.id
    /\ UNCHANGED <<users, sessionSeq, held, owner, tokenSeq>>

\* Every row of the next table is an old row, an old row soft-deleted, or one that a
\* handler inserts or writes back.
LEMMA RowOrigin ==
  ASSUME TypeOK, Shape, [Next]_vars, NEW r \in sessions'
  PROVE  \/ \E s \in sessions : Survives(s, r)
         \/ \E p \in Procs : Inserts(p, r) \/ Refreshes(p, r)
  <1>1. CASE r \in sessions
    BY <1>1 DEF Survives
  <1>2. ASSUME NEW p \in Procs, InsertSession(p), r \notin sessions
        PROVE  Inserts(p, r)
    <2>1. /\ proc[p].pc = "insert" /\ proc[p].userID \in users
          /\ sessionSeq' = sessionSeq + 1
          /\ sessions' = Create(sessions, sessionSeq + 1, proc[p].userID,
                                hashToken(proc[p].newToken), proc[p].expiresAt)
          /\ proc' = [proc EXCEPT ![p].pc = "setSession", ![p].id = sessionSeq + 1]
          /\ UNCHANGED <<users, held, owner, tokenSeq>>
      BY <1>2 DEF InsertSession
    <2>2. proc'[p].pc = "setSession"
      BY <2>1 DEF TypeOK, Handler
    <2>. DEFINE n == [id |-> sessionSeq + 1, userID |-> proc[p].userID,
                      tokenHash |-> hashToken(proc[p].newToken),
                      expiresAt |-> proc[p].expiresAt, deleted |-> FALSE]
    <2>3. sessions' = sessions \cup {n}
      BY <2>1 DEF Create
    <2>4. r = n
      BY <1>2, <2>3
    <2>5. QED
      BY <2>1, <2>2, <2>3, <2>4 DEF Inserts
  <1>3. ASSUME NEW p \in Procs, UpdateSession(p), r \notin sessions
        PROVE  Refreshes(p, r)
    <2>1. /\ proc[p].pc = "update"
          /\ sessions' = Update(sessions, RefreshedSession(proc[p]))
          /\ UNCHANGED <<users, sessionSeq, held, owner, tokenSeq>>
      BY <1>3 DEF UpdateSession
    <2>2. proc'[p].pc \notin {"insert", "update"}
      BY <1>3 DEF UpdateSession, Goto, Abort, Idle, TypeOK, Handler
    <2>3. r = RefreshedSession(proc[p]) /\ \E s \in sessions : s.id = r.id
      BY <1>3, <2>1 DEF Update, RefreshedSession
    <2>4. QED
      BY <2>1, <2>2, <2>3 DEF Refreshes, RefreshedSession
  <1>4. \A s \in Rows : Survives(s, [s EXCEPT !.deleted = TRUE])
    BY DEF Survives, Rows, SessionRow
  <1>5. ASSUME NEW p \in Procs, SoftDeleteSession(p), r \notin sessions
        PROVE  \E s \in sessions : Survives(s, r)
    <2>1. sessions' = SoftDelete(sessions, proc[p].id)
      BY <1>5 DEF SoftDeleteSession
    <2>2. QED
      BY <1>4, <1>5, <2>1 DEF SoftDelete, TypeOK
  <1>6. ASSUME RepositoryCall, r \notin sessions
        PROVE  \E s \in sessions : Survives(s, r)
    <2>1. PICK u \in users : sessions' = SoftDeleteByUserID(sessions, u)
      BY <1>6 DEF RepositoryCall, Delete
    <2>2. QED
      BY <1>4, <1>6, <2>1 DEF SoftDeleteByUserID, TypeOK
  <1>7. ASSUME r \notin sessions,
               \/ CleanupSessions \/ Restart \/ Tick \/ UNCHANGED vars
               \/ \E u \in Users : DeleteUser(u)
               \/ \E e \in cache : Evict(e)
        PROVE  FALSE
    BY <1>7 DEF CleanupSessions, Restart, Tick, vars, DeleteUser, Evict, storeVars,
                DeleteExpiredAndSoftDeleted, CascadeDeleteUser
  <1>8. ASSUME NEW p \in Procs, r \notin sessions,
               \/ \E u \in Users : CreateSession(p, u)
               \/ SetSession(p) \/ SetTokenValid(p)
               \/ \E t \in held : RefreshSession(p, t)
               \/ \E t \in held : Logout(p, t)
               \/ InvalidateMemcached(p) \/ InvalidateLocal(p)
        PROVE  FALSE
    BY <1>8 DEF CreateSession, SetSession, SetTokenValid, RefreshSession, Logout,
                InvalidateMemcached, InvalidateLocal, storeVars
  <1>9. QED
    BY <1>1, <1>2, <1>3, <1>5, <1>6, <1>7, <1>8 DEF Next, OtherStep, HandlerStep

\* Handler p stores entry e: one of the two Sets of SetSession.
Caches(p, e) ==
    /\ proc[p].pc \in SetPCs
    /\ e.tokenHash = hashToken(proc[p].newToken)
    /\ e.userID = proc[p].userID
    /\ UNCHANGED <<owner, tokenSeq>>

\* Every entry of the next cache is an old one or one that a handler sets for its new
\* token.
LEMMA CacheOrigin ==
  ASSUME TypeOK, [Next]_vars, NEW e \in cache'
  PROVE  e \in cache \/ \E p \in Procs : Caches(p, e)
  <1>1. ASSUME NEW p \in Procs, SetSession(p), e \notin cache
        PROVE  Caches(p, e)
    BY <1>1 DEF SetSession, Caches, CacheSet, CacheDelete, SetPCs
  <1>2. ASSUME NEW p \in Procs, SetTokenValid(p), e \notin cache
        PROVE  Caches(p, e)
    BY <1>2 DEF SetTokenValid, Caches, CacheSet, CacheDelete, SetPCs
  <1>3. ASSUME NEW p \in Procs, e \notin cache,
               InvalidateMemcached(p) \/ InvalidateLocal(p)
        PROVE  FALSE
    BY <1>3 DEF InvalidateMemcached, InvalidateLocal, CacheDelete
  <1>4. ASSUME NEW p \in Procs, e \notin cache,
               \/ \E u \in Users : CreateSession(p, u)
               \/ InsertSession(p) \/ UpdateSession(p) \/ SoftDeleteSession(p)
               \/ \E t \in held : RefreshSession(p, t)
               \/ \E t \in held : Logout(p, t)
        PROVE  FALSE
    BY <1>4 DEF CreateSession, InsertSession, UpdateSession, SoftDeleteSession,
                RefreshSession, Logout
  <1>5. ASSUME e \notin cache,
               \/ CleanupSessions \/ RepositoryCall \/ Restart \/ Tick \/ UNCHANGED vars
               \/ \E u \in Users : DeleteUser(u)
               \/ \E x \in cache : Evict(x)
        PROVE  FALSE
    BY <1>5 DEF CleanupSessions, RepositoryCall, Restart, Tick, vars, DeleteUser, Evict,
                CacheExpire
  <1>6. QED
    BY <1>1, <1>2, <1>3, <1>4, <1>5 DEF Next, OtherStep, HandlerStep

-------------------------------------------------------------------------------
(* What a step does to the handlers: nothing, all of them die, or one of     *)
(* them starts, moves on or ends.                                            *)

counters == <<tokenSeq, owner>>

Quiet == UNCHANGED <<proc, held, purged, counters>>

AllDie == proc' = [p \in Procs |-> Idle] /\ UNCHANGED <<held, purged, counters>>

\* createSession, RefreshSession or Logout begins, as handler h.
Started(p, h) ==
    /\ proc[p].pc = "idle"
    /\ \/ /\ h.pc \in {"insert", "update"}
          /\ h.newToken = tokenSeq + 1
          /\ tokenSeq' = tokenSeq + 1
          /\ owner' = [owner EXCEPT ![tokenSeq + 1] = h.userID]
       \/ /\ h.pc = "softDelete"
          /\ h.newToken = 0
          /\ UNCHANGED counters
    /\ \/ h.pc = "insert" /\ h.token = 0
       \/ /\ h.token \in held
          /\ \E r \in sessions : r.tokenHash = hashToken(h.token) /\ r.id = h.id
                                  /\ r.userID = h.userID
    /\ UNCHANGED <<held, purged, sessions, sessionSeq>>

\* Handler p has made a round trip and goes on as h.
Moved(p, h) ==
    /\ h.token = proc[p].token /\ h.newToken = proc[p].newToken
    /\ h.userID = proc[p].userID /\ h.expiresAt = proc[p].expiresAt
    /\ h.pc \in InvalidatePCs \cup SetPCs
    /\ proc[p].pc \in {"insert", "update", "softDelete"} \cup InvalidatePCs \cup SetPCs
    /\ proc[p].pc = "update" => sessions' = Update(sessions, RefreshedSession(proc[p]))
    /\ proc[p].pc = "softDelete" => sessions' = SoftDelete(sessions, proc[p].id)
    /\ UNCHANGED <<held, counters>>

\* Handler p returns, perhaps with its new token.
Ended(p, h) ==
    /\ h = Idle
    /\ \/ UNCHANGED held
       \/ proc[p].newToken # 0 /\ held' = held \cup {proc[p].newToken}
    /\ UNCHANGED counters

\* A handler's invalidation completes: no entry is left for the token.
Purges(p) ==
    /\ proc[p].pc \in InvalidatePCs
    /\ purged' = purged \cup {proc[p].token}
    /\ Lookup(cache', ValidKey, hashToken(proc[p].token)) = {}
    /\ UNCHANGED <<sessions, held>>

\* How a step may change the handlers, the held tokens and the histories.
LEMMA StepKinds ==
  ASSUME TypeOK, Shape, [Next]_vars
  PROVE  \/ Quiet
         \/ AllDie
         \/ \E p \in Procs, h \in Handler :
              /\ proc' = [proc EXCEPT ![p] = h]
              /\ Started(p, h) \/ Moved(p, h) \/ Ended(p, h)
              /\ UNCHANGED purged \/ Purges(p)
  <1>. DEFINE Kind(p, h) == /\ proc' = [proc EXCEPT ![p] = h]
                            /\ Started(p, h) \/ Moved(p, h) \/ Ended(p, h)
                            /\ UNCHANGED purged \/ Purges(p)
              Good == Quiet \/ AllDie \/ \E p \in Procs, h \in Handler : Kind(p, h)
  <1>0. Idle \in Handler
    BY HandlerTypes
  <1>1. ASSUME NEW p \in Procs, NEW u \in Users, CreateSession(p, u)
        PROVE  Good
    <2>. DEFINE h == [Idle EXCEPT !.pc = "insert", !.newToken = tokenSeq + 1,
                                  !.userID = u, !.expiresAt = now + SessionTTL]
    <2>1. proc' = [proc EXCEPT ![p] = h]
      BY <1>1 DEF CreateSession
    <2>2. h \in Handler
      <3>1. tokenSeq + 1 \in Tokens /\ now + SessionTTL \in Nat
        BY <1>1, GenerateTypes, TimeAssumption DEF CreateSession, TypeOK
      <3>2. QED
        BY <3>1 DEF Handler, Idle, PCs
    <2>3. /\ h.pc = "insert" /\ h.newToken = tokenSeq + 1 /\ h.userID = u /\ h.token = 0
      BY DEF Idle
    <2>4. Started(p, h) /\ UNCHANGED purged
      BY <1>1, <2>3 DEF Started, CreateSession, GenerateToken, storeVars
    <2>5. QED
      BY <2>1, <2>2, <2>4
  <1>2. ASSUME NEW p \in Procs, InsertSession(p)
        PROVE  Good
    <2>. DEFINE h == [proc[p] EXCEPT !.pc = "setSession", !.id = sessionSeq + 1]
    <2>1. CASE Abort(p)
      BY <1>0, <1>2, <2>1 DEF InsertSession, Abort, Ended, counters
    <2>2. CASE proc' = [proc EXCEPT ![p].pc = "setSession", ![p].id = sessionSeq + 1]
      <3>1. proc' = [proc EXCEPT ![p] = h]
        BY <2>2 DEF TypeOK
      <3>2. h \in Handler
        <4>1. sessionSeq + 1 \in Nat /\ "setSession" \in PCs
          BY DEF TypeOK, PCs, SetPCs
        <4>2. QED
          BY <4>1 DEF TypeOK, Handler
      <3>3. /\ h.pc = "setSession" /\ h.token = proc[p].token
            /\ h.newToken = proc[p].newToken /\ h.userID = proc[p].userID
            /\ h.expiresAt = proc[p].expiresAt
        BY DEF TypeOK, Handler
      <3>4. Moved(p, h) /\ UNCHANGED purged
        BY <1>2, <3>3 DEF Moved, InsertSession, SetPCs, counters
      <3>5. QED
        BY <3>1, <3>2, <3>4
    <2>3. QED
      BY <1>2, <2>1, <2>2 DEF InsertSession
  <1>3. ASSUME NEW p \in Procs, NEW c \in InvalidatePCs \cup SetPCs, Goto(p, c)
        PROVE  \E h \in Handler :
                 /\ proc' = [proc EXCEPT ![p] = h]
                 /\ h.pc = c /\ h.token = proc[p].token
                 /\ h.newToken = proc[p].newToken /\ h.userID = proc[p].userID
                 /\ h.expiresAt = proc[p].expiresAt
    <2>. DEFINE h == [proc[p] EXCEPT !.pc = c]
    <2>1. h \in Handler /\ proc' = [proc EXCEPT ![p] = h]
      BY <1>3 DEF TypeOK, Handler, PCs, Goto
    <2>2. /\ h.pc = c /\ h.token = proc[p].token
          /\ h.newToken = proc[p].newToken /\ h.userID = proc[p].userID
          /\ h.expiresAt = proc[p].expiresAt
      BY DEF TypeOK, Handler
    <2>3. QED
      BY <2>1, <2>2
  <1>4. ASSUME NEW p \in Procs, SetSession(p) \/ SetTokenValid(p)
        PROVE  Good
    <2>1. /\ proc[p].newToken # 0 /\ proc[p].pc \in SetPCs
          /\ UNCHANGED <<purged, counters>>
      BY <1>4 DEF SetSession, SetTokenValid, SetPCs, Shape, WellFormed, counters
    <2>2. CASE ReturnToken(p)
      BY <1>0, <2>1, <2>2 DEF ReturnToken, Abort, Ended
    <2>3. CASE Goto(p, "setValid") /\ UNCHANGED held
      <3>1. PICK h \in Handler :
                 /\ proc' = [proc EXCEPT ![p] = h]
                 /\ h.pc = "setValid" /\ h.token = proc[p].token
                 /\ h.newToken = proc[p].newToken /\ h.userID = proc[p].userID
                 /\ h.expiresAt = proc[p].expiresAt
        BY <1>3, <2>3 DEF SetPCs
      <3>2. Moved(p, h)
        BY <2>1, <2>3, <3>1 DEF Moved, SetPCs
      <3>3. QED
        BY <2>1, <3>1, <3>2
    <2>4. QED
      BY <1>4, <2>2, <2>3 DEF SetSession, SetTokenValid
  <1>5. ASSUME NEW p \in Procs, NEW t \in held, RefreshSession(p, t)
        PROVE  Good
    <2>1. PICK r \in sessions :
            /\ ReadSession(p, t, r)
            /\ GenerateToken(r.userID)
            /\ proc' = [proc EXCEPT ![p] = [pc |-> "update", token |-> t,
                                            newToken |-> tokenSeq + 1, id |-> r.id,
                                            userID |-> r.userID,
                                            expiresAt |-> now + SessionTTL]]
            /\ UNCHANGED <<now, storeVars, cache, held, purged>>
      BY <1>5 DEF RefreshSession
    <2>. DEFINE h == [pc |-> "update", token |-> t, newToken |-> tokenSeq + 1,
                      id |-> r.id, userID |-> r.userID, expiresAt |-> now + SessionTTL]
    <2>2. r.userID \in Users /\ r.id \in Nat /\ t \in Tokens
      BY DEF TypeOK, Rows, SessionRow
    <2>3. tokenSeq + 1 \in Tokens /\ now + SessionTTL \in Nat
      BY <2>1, <2>2, GenerateTypes, TimeAssumption DEF TypeOK
    <2>4. h \in Handler
      BY <2>2, <2>3 DEF Handler, PCs
    <2>5. Started(p, h) /\ UNCHANGED purged
      BY <2>1 DEF Started, ReadSession, GetByTokenHash, GenerateToken, storeVars
    <2>6. QED
      BY <2>1, <2>4, <2>5
  <1>6. ASSUME NEW p \in Procs, NEW t \in held, Logout(p, t)
        PROVE  Good
    <2>1. PICK r \in sessions :
            /\ ReadSession(p, t, r)
            /\ proc' = [proc EXCEPT ![p] = [Idle EXCEPT !.pc = "softDelete", !.token = t,
                                                        !.id = r.id, !.userID = r.userID]]
            /\ UNCHANGED <<now, storeVars, tokenSeq, cache, held, owner, purged>>
      BY <1>6 DEF Logout
    <2>. DEFINE h == [Idle EXCEPT !.pc = "softDelete", !.token = t,
                                  !.id = r.id, !.userID = r.userID]
    <2>2. r.userID \in Users /\ r.id \in Nat /\ t \in Tokens
      BY DEF TypeOK, Rows, SessionRow
    <2>3. h \in Handler
      BY <2>2 DEF Handler, Idle, PCs
    <2>4. /\ h.pc = "softDelete" /\ h.token = t /\ h.newToken = 0 /\ h.id = r.id
          /\ h.userID = r.userID
      BY DEF Idle
    <2>5. Started(p, h) /\ UNCHANGED purged
      BY <2>1, <2>4 DEF Started, ReadSession, GetByTokenHash, storeVars, counters
    <2>6. QED
      BY <2>1, <2>3, <2>5
  <1>7. ASSUME NEW p \in Procs, UpdateSession(p) \/ SoftDeleteSession(p)
        PROVE  Good
    <2>1. UNCHANGED <<held, counters, purged>> /\ proc[p].pc \in {"update", "softDelete"}
      BY <1>7 DEF UpdateSession, SoftDeleteSession, counters
    <2>2. CASE Abort(p)
      BY <1>0, <2>1, <2>2 DEF Abort, Ended
    <2>3. CASE ~Abort(p)
      <3>1. /\ Goto(p, "delSession1")
            /\ proc[p].pc = "update" => sessions' = Update(sessions, RefreshedSession(proc[p]))
            /\ proc[p].pc = "softDelete" => sessions' = SoftDelete(sessions, proc[p].id)
        BY <1>7, <2>3 DEF UpdateSession, SoftDeleteSession
      <3>2. PICK h \in Handler :
                 /\ proc' = [proc EXCEPT ![p] = h]
                 /\ h.pc = "delSession1" /\ h.token = proc[p].token
                 /\ h.newToken = proc[p].newToken /\ h.userID = proc[p].userID
                 /\ h.expiresAt = proc[p].expiresAt
        BY <1>3, <3>1 DEF InvalidatePCs
      <3>3. Moved(p, h)
        BY <2>1, <3>1, <3>2 DEF Moved, InvalidatePCs
      <3>4. QED
        BY <2>1, <3>2, <3>3
    <2>4. QED
      BY <2>2, <2>3
  <1>8. ASSUME NEW p \in Procs, InvalidateMemcached(p) \/ InvalidateLocal(p)
        PROVE  Good
    <2>1. UNCHANGED <<sessions, held, counters>> /\ proc[p].pc \in InvalidatePCs
      BY <1>8 DEF InvalidateMemcached, InvalidateLocal, storeVars, counters, InvalidatePCs
    <2>2. UNCHANGED purged \/ Purges(p)
      <3>1. ASSUME CacheDelete(cache, ValidKey, hashToken(proc[p].token)) = cache'
            PROVE  Lookup(cache', ValidKey, hashToken(proc[p].token)) = {}
        BY <3>1 DEF CacheDelete, Lookup
      <3>2. QED
        BY <1>8, <2>1, <3>1 DEF InvalidateMemcached, InvalidateLocal, Purges, ValidKey, KeyOf
    <2>3. CASE Abort(p)
      BY <1>0, <2>1, <2>2, <2>3 DEF Abort, Ended
    <2>4. CASE ~Abort(p)
      <3>1. \E c \in InvalidatePCs \cup SetPCs : Goto(p, c)
        BY <1>8, <2>4 DEF InvalidateMemcached, InvalidateLocal, AfterInvalidate, NextPC,
                          InvalidatePCs, SetPCs
      <3>2. PICK c \in InvalidatePCs \cup SetPCs, h \in Handler :
                 /\ proc' = [proc EXCEPT ![p] = h]
                 /\ h.pc = c /\ h.token = proc[p].token
                 /\ h.newToken = proc[p].newToken /\ h.userID = proc[p].userID
                 /\ h.expiresAt = proc[p].expiresAt
        BY <1>3, <3>1
      <3>3. Moved(p, h)
        BY <2>1, <3>2 DEF Moved, InvalidatePCs
      <3>4. QED
        BY <2>2, <3>2, <3>3
    <2>5. QED
      BY <2>3, <2>4
  <1>9. ASSUME \/ CleanupSessions \/ RepositoryCall \/ Tick \/ UNCHANGED vars
               \/ \E u \in Users : DeleteUser(u)
               \/ \E e \in cache : Evict(e)
        PROVE  Quiet
    BY <1>9 DEF CleanupSessions, RepositoryCall, Tick, vars, DeleteUser, Evict, Quiet, counters
  <1>10. ASSUME Restart PROVE AllDie
    BY <1>10 DEF Restart, AllDie, counters
  <1>11. QED
    BY <1>1, <1>2, <1>4, <1>5, <1>6, <1>7, <1>8, <1>9, <1>10 DEF Next, OtherStep, HandlerStep

-------------------------------------------------------------------------------
(* The inductive invariant.                                                  *)

\* Nobody writes a row or a cache entry for a token that a client holds, or for
\* one that has not been generated.
LEMMA OldToken ==
  ASSUME IInv, [Next]_vars, NEW t \in Tokens, t \in held \/ t > tokenSeq
  PROVE  /\ \A r \in sessions' : r.tokenHash = hashToken(t) => \E s \in sessions : Survives(s, r)
         /\ \A e \in cache' : e.tokenHash = hashToken(t) => e \in cache
  <1>1. ASSUME NEW p \in Procs, proc[p].pc \in {"insert", "update"} \cup SetPCs
        PROVE  hashToken(proc[p].newToken) # hashToken(t)
    <2>1. proc[p].newToken \in Tokens /\ proc[p].newToken <= tokenSeq
          /\ proc[p].newToken \notin held
      BY <1>1 DEF IInv, TypeOK, Handler, Shape, WellFormed, Generated, Private
    <2>2. proc[p].newToken # t
      BY <2>1 DEF Tokens, IInv, TypeOK
    <2>3. QED
      BY <2>1, <2>2, HashInjective
  <1>2. \A r \in sessions' : r.tokenHash = hashToken(t) => \E s \in sessions : Survives(s, r)
    BY <1>1, RowOrigin DEF IInv, Inserts, Refreshes
  <1>3. \A e \in cache' : e.tokenHash = hashToken(t) => e \in cache
    BY <1>1, CacheOrigin DEF IInv, Caches
  <1>4. QED
    BY <1>2, <1>3

\* held and the token counter only grow.
LEMMA Monotone ==
  ASSUME IInv, [Next]_vars
  PROVE  held \subseteq held' /\ tokenSeq' \in Nat /\ tokenSeq <= tokenSeq'
  <1>1. tokenSeq \in Nat
    BY DEF IInv, TypeOK
  <1>2. QED
    BY <1>1, StepKinds DEF IInv, Quiet, AllDie, Started, Moved, Ended, counters

\* Every step preserves Generated: only GenerateToken brings a token into the system.
LEMMA GeneratedStep ==
  ASSUME IInv, [Next]_vars
  PROVE  Generated'
  <1>1. \A t \in held' : t <= tokenSeq'
    <2>1. \A p \in Procs : proc[p].newToken <= tokenSeq /\ proc[p].newToken \in Nat
      BY DEF IInv, Generated, TypeOK, Handler, Tokens
    <2>2. tokenSeq \in Nat /\ tokenSeq' \in Nat /\ tokenSeq <= tokenSeq'
      BY Monotone DEF IInv, TypeOK
    <2>3. \A t \in held' : t \in held \/ \E p \in Procs : t = proc[p].newToken
      BY StepKinds DEF IInv, Quiet, AllDie, Started, Moved, Ended
    <2>4. \A t \in held : t \in Nat /\ t <= tokenSeq
      BY DEF IInv, Generated, TypeOK, Tokens
    <2>5. QED
      BY <2>1, <2>2, <2>3, <2>4
  <1>2. ASSUME NEW t \in Tokens, t > tokenSeq'
        PROVE  RowsOf(t)' = {} /\ \A k \in CacheKeys : Lookup(cache, k, hashToken(t))' = {}
    <2>1. t > tokenSeq
      BY <1>2, Monotone DEF IInv, TypeOK, Tokens
    <2>2. \A r \in sessions : r.tokenHash # hashToken(t)
      BY <2>1 DEF IInv, Generated, RowsOf
    <2>3. \A e \in cache : e.tokenHash # hashToken(t)
      BY <2>1 DEF IInv, Generated, Lookup, TypeOK, Entries, CacheEntry
    <2>4. QED
      BY <2>1, <2>2, <2>3, OldToken DEF RowsOf, Lookup, Survives
  <1>3. ASSUME NEW p \in Procs
        PROVE  proc'[p].token <= tokenSeq' /\ proc'[p].newToken <= tokenSeq'
    <2>1. /\ tokenSeq \in Nat /\ tokenSeq' \in Nat /\ tokenSeq <= tokenSeq'
          /\ \A t \in held : t \in Nat /\ t <= tokenSeq
      BY Monotone DEF IInv, TypeOK, Generated, Tokens
    <2>2. \A q \in Procs : /\ proc[q].token <= tokenSeq /\ proc[q].newToken <= tokenSeq
                           /\ proc[q].token \in Nat /\ proc[q].newToken \in Nat
      BY DEF IInv, Generated, TypeOK, Handler, Tokens
    <2>3. CASE Quiet \/ AllDie
      BY <2>1, <2>2, <2>3 DEF Quiet, AllDie, Idle
    <2>4. ASSUME NEW q \in Procs, NEW h \in Handler, proc' = [proc EXCEPT ![q] = h],
                 Started(q, h) \/ Moved(q, h) \/ Ended(q, h)
          PROVE  proc'[p].token <= tokenSeq' /\ proc'[p].newToken <= tokenSeq'
      <3>1. h.token <= tokenSeq' /\ h.newToken <= tokenSeq'
        BY <2>1, <2>2, <2>4 DEF Started, Moved, Ended, Idle, counters
      <3>2. proc'[p] = IF p = q THEN h ELSE proc[p]
        BY <2>4 DEF IInv, TypeOK
      <3>3. QED
        BY <2>1, <2>2, <3>1, <3>2
    <2>5. QED
      BY <2>3, <2>4, StepKinds DEF IInv
  <1>4. QED
    BY <1>1, <1>2, <1>3 DEF Generated

\* Every step preserves Private: a handler shares its new token only by returning it.
LEMMA PrivateStep ==
  ASSUME IInv, [Next]_vars
  PROVE  Private'
  <1>0. /\ \A t \in held : t <= tokenSeq /\ t \in Nat
        /\ \A p \in Procs : proc[p].newToken <= tokenSeq /\ proc[p].newToken \in Nat
        /\ tokenSeq \in Nat
    BY DEF IInv, Generated, TypeOK, Handler, Tokens
  <1>1. CASE Quiet \/ AllDie
    BY <1>1 DEF IInv, Private, Quiet, AllDie, Idle
  <1>2. ASSUME NEW p \in Procs, NEW h \in Handler, proc' = [proc EXCEPT ![p] = h],
               Started(p, h) \/ Moved(p, h) \/ Ended(p, h)
        PROVE  Private'
    <2>1. \A q \in Procs : proc'[q] = IF q = p THEN h ELSE proc[q]
      BY <1>2 DEF IInv, TypeOK
    <2>2. CASE Started(p, h)
      <3>1. held' = held
        BY <2>2 DEF Started
      <3>2. h.token # 0 => h.token \in held
        BY <2>2 DEF Started
      <3>3. h.newToken # 0 => /\ h.newToken \notin held
                              /\ \A q \in Procs : proc[q].newToken # h.newToken
        BY <1>0, <2>2 DEF Started
      <3>4. QED
        BY <2>1, <3>1, <3>2, <3>3 DEF IInv, Private
    <2>3. CASE Moved(p, h)
      BY <2>1, <2>3 DEF IInv, Private, Moved
    <2>4. CASE Ended(p, h)
      BY <2>1, <2>4 DEF IInv, Private, Ended, Idle
    <2>5. QED
      BY <1>2, <2>2, <2>3, <2>4
  <1>3. QED
    BY <1>1, <1>2, StepKinds DEF IInv

\* Every step preserves Owned: nobody writes a row or an entry for a foreign user.
LEMMA OwnedStep ==
  ASSUME IInv, [Next]_vars
  PROVE  Owned'
  <1>1. \A t \in Tokens : t <= tokenSeq => owner'[t] = owner[t]
    <2>1. owner' = owner \/ \E u : owner' = [owner EXCEPT ![tokenSeq + 1] = u]
      BY StepKinds DEF IInv, Quiet, AllDie, Started, Moved, Ended, counters
    <2>2. tokenSeq \in Nat /\ owner = [t \in Tokens |-> owner[t]]
      BY DEF IInv, TypeOK
    <2>3. \A t \in Tokens : t <= tokenSeq => t # tokenSeq + 1
      BY <2>2 DEF Tokens
    <2>4. QED
      BY <2>1, <2>2, <2>3
  <1>2. \A p \in Procs : proc[p].newToken # 0 =>
          /\ proc[p].newToken \in Tokens /\ proc[p].newToken <= tokenSeq
          /\ proc[p].userID = owner[proc[p].newToken]
    BY DEF IInv, TypeOK, Handler, Generated, Owned
  <1>3. ASSUME NEW t \in Tokens, NEW r \in sessions', r.tokenHash = hashToken(t)
        PROVE  r.userID = owner'[t]
    <2>1. CASE \E s \in sessions : Survives(s, r)
      <3>1. PICK s \in sessions : s.tokenHash = hashToken(t) /\ s.userID = r.userID
        BY <1>3, <2>1 DEF Survives
      <3>2. s.userID = owner[t]
        BY <3>1 DEF IInv, Owned, RowsOf
      <3>3. t <= tokenSeq
        BY <3>1 DEF IInv, Generated, RowsOf, TypeOK, Tokens
      <3>4. QED
        BY <1>1, <3>1, <3>2, <3>3
    <2>2. ASSUME NEW p \in Procs, Inserts(p, r) \/ Refreshes(p, r)
          PROVE  r.userID = owner'[t]
      <3>1. proc[p].newToken # 0 /\ r.tokenHash = hashToken(proc[p].newToken)
            /\ r.userID = proc[p].userID
        BY <2>2 DEF Inserts, Refreshes, IInv, Shape, WellFormed
      <3>2. proc[p].newToken = t
        BY <1>2, <1>3, <3>1, HashInjective
      <3>3. QED
        BY <1>1, <1>2, <3>1, <3>2
    <2>3. QED
      BY <2>1, <2>2, RowOrigin DEF IInv
  <1>4. ASSUME NEW t \in Tokens, NEW e \in cache', e.tokenHash = hashToken(t)
        PROVE  e.userID = owner'[t]
    <2>1. CASE e \in cache
      <3>1. e.userID = owner[t]
        BY <1>4, <2>1 DEF IInv, Owned
      <3>2. t <= tokenSeq
        BY <1>4, <2>1 DEF IInv, Generated, Lookup, TypeOK, Entries, CacheEntry, Tokens
      <3>3. QED
        BY <1>1, <3>1, <3>2
    <2>2. ASSUME NEW p \in Procs, Caches(p, e)
          PROVE  e.userID = owner'[t]
      <3>1. proc[p].newToken # 0 /\ e.tokenHash = hashToken(proc[p].newToken)
            /\ e.userID = proc[p].userID
        BY <2>2 DEF Caches, IInv, Shape, WellFormed
      <3>2. proc[p].newToken = t
        BY <1>2, <1>4, <3>1, HashInjective
      <3>3. QED
        BY <1>1, <1>2, <3>1, <3>2
    <2>3. QED
      BY <2>1, <2>2, CacheOrigin DEF IInv
  <1>5. ASSUME NEW p \in Procs, proc'[p].newToken # 0
        PROVE  proc'[p].userID = owner'[proc'[p].newToken]
    <2>1. CASE Quiet \/ AllDie
      BY <1>1, <1>2, <1>5, <2>1 DEF Quiet, AllDie, Idle
    <2>2. ASSUME NEW q \in Procs, NEW h \in Handler, proc' = [proc EXCEPT ![q] = h],
                 Started(q, h) \/ Moved(q, h) \/ Ended(q, h)
          PROVE  proc'[p].userID = owner'[proc'[p].newToken]
      <3>1. proc'[p] = IF p = q THEN h ELSE proc[p]
        BY <2>2 DEF IInv, TypeOK
      <3>2. CASE p # q
        BY <1>1, <1>2, <1>5, <3>1, <3>2
      <3>3. CASE p = q /\ Started(q, h)
        <4>1. h.newToken \in Tokens /\ h.newToken = tokenSeq + 1
              /\ owner' = [owner EXCEPT ![tokenSeq + 1] = h.userID]
          BY <1>5, <3>1, <3>3, <2>2 DEF Started, Handler
        <4>2. QED
          BY <3>1, <3>3, <4>1 DEF IInv, TypeOK
      <3>4. CASE p = q /\ Moved(q, h)
        BY <1>1, <1>2, <1>5, <3>1, <3>4 DEF Moved
      <3>5. CASE p = q /\ Ended(q, h)
        BY <1>5, <3>1, <3>5 DEF Ended, Idle
      <3>6. QED
        BY <2>2, <3>2, <3>3, <3>4, <3>5
    <2>3. QED
      BY <2>1, <2>2, StepKinds DEF IInv
  <1>6. QED
    BY <1>3, <1>4, <1>5 DEF Owned, RowsOf

\* Every step preserves OneRow: a token never spreads to a second row id.
LEMMA OneRowStep ==
  ASSUME IInv, [Next]_vars
  PROVE  OneRow'
  <1>1. ASSUME NEW p \in Procs, proc[p].pc \in {"insert", "update"}
        PROVE  /\ proc[p].newToken \in Tokens
               /\ \A s \in sessions : s.tokenHash # hashToken(proc[p].newToken)
               /\ \A q \in Procs : proc[q].newToken = proc[p].newToken => q = p
    BY <1>1 DEF IInv, TypeOK, Handler, Shape, WellFormed, OneRow, RowsOf, Private
  \* Two writers in one step are one writer, since their tokens differ.
  <1>2. ASSUME NEW r \in sessions', NEW s \in sessions', r.tokenHash = s.tokenHash
        PROVE  r.id = s.id
    <2>1. ASSUME NEW p \in Procs, Inserts(p, r) \/ Refreshes(p, r),
                 NEW x \in sessions, Survives(x, s)
          PROVE  FALSE
      BY <1>1, <1>2, <2>1 DEF Inserts, Refreshes, Survives
    <2>2. ASSUME NEW p \in Procs, Inserts(p, s) \/ Refreshes(p, s),
                 NEW x \in sessions, Survives(x, r)
          PROVE  FALSE
      BY <1>1, <1>2, <2>2 DEF Inserts, Refreshes, Survives
    <2>3. ASSUME NEW p \in Procs, NEW q \in Procs, Inserts(p, r) \/ Refreshes(p, r),
                 Inserts(q, s) \/ Refreshes(q, s)
          PROVE  r.id = s.id
      <3>1. p = q
        BY <1>1, <1>2, <2>3, HashInjective DEF Inserts, Refreshes
      <3>2. QED
        BY <2>3, <3>1 DEF Inserts, Refreshes
    <2>4. ASSUME NEW x \in sessions, NEW y \in sessions, Survives(x, r), Survives(y, s)
          PROVE  r.id = s.id
      BY <1>2, <2>4 DEF Survives, IInv, OneRow
    <2>5. QED
      BY <2>1, <2>2, <2>3, <2>4, RowOrigin DEF IInv
  <1>3. ASSUME NEW p \in Procs, proc'[p].pc \in {"insert", "update"},
               NEW r \in sessions', r.tokenHash = hashToken(proc'[p].newToken)
        PROVE  FALSE
    <2>1. CASE proc'[p] = proc[p]
      <3>1. ~ \E s \in sessions : Survives(s, r)
        BY <1>1, <1>3, <2>1 DEF Survives
      <3>2. PICK q \in Procs : Inserts(q, r) \/ Refreshes(q, r)
        BY <3>1, RowOrigin DEF IInv
      <3>3. q = p
        BY <1>1, <1>3, <2>1, <3>2, HashInjective DEF Inserts, Refreshes
      <3>4. QED
        BY <1>3, <3>2, <3>3 DEF Inserts, Refreshes
    <2>2. ASSUME NEW h \in Handler, proc'[p] = h, Started(p, h)
          PROVE  FALSE
      <3>1. /\ h.newToken = tokenSeq + 1 /\ sessions' = sessions
            /\ h.newToken \in Tokens /\ h.newToken > tokenSeq
        BY <1>3, <2>2 DEF Started, Handler, IInv, TypeOK
      <3>2. QED
        BY <1>3, <2>2, <3>1 DEF IInv, Generated, RowsOf
    <2>3. ASSUME NEW q \in Procs, NEW h \in Handler, proc' = [proc EXCEPT ![q] = h],
                 Started(q, h) \/ Moved(q, h) \/ Ended(q, h)
          PROVE  FALSE
      <3>1. proc'[p] = IF p = q THEN h ELSE proc[p]
        BY <2>3 DEF IInv, TypeOK
      <3>2. QED
        BY <1>3, <2>1, <2>2, <2>3, <3>1 DEF Moved, Ended, Idle, InvalidatePCs, SetPCs
    <2>4. CASE Quiet \/ AllDie
      BY <1>3, <2>1, <2>4 DEF Quiet, AllDie, Idle
    <2>5. QED
      BY <2>3, <2>4, StepKinds DEF IInv
  <1>4. ASSUME NEW p \in Procs, proc'[p].pc \in {"update", "softDelete"},
               NEW r \in sessions', r.tokenHash = hashToken(proc'[p].token)
        PROVE  r.id = proc'[p].id
    <2>1. CASE proc'[p] = proc[p]
      <3>1. proc[p].token \in held /\ proc[p].token \in Tokens
        BY <1>4, <2>1 DEF IInv, Shape, WellFormed, Private, TypeOK
      <3>2. PICK s \in sessions : Survives(s, r)
        BY <1>4, <2>1, <3>1, OldToken
      <3>3. QED
        BY <1>4, <2>1, <3>2 DEF IInv, OneRow, RowsOf, Survives
    <2>2. ASSUME NEW h \in Handler, proc'[p] = h, Started(p, h)
          PROVE  r.id = proc'[p].id
      <3>1. PICK s \in sessions : s.tokenHash = hashToken(h.token) /\ s.id = h.id
        BY <1>4, <2>2 DEF Started
      <3>2. r \in sessions
        BY <2>2 DEF Started
      <3>3. QED
        BY <1>4, <2>2, <3>1, <3>2 DEF IInv, OneRow
    <2>3. ASSUME NEW q \in Procs, NEW h \in Handler, proc' = [proc EXCEPT ![q] = h],
                 Started(q, h) \/ Moved(q, h) \/ Ended(q, h)
          PROVE  r.id = proc'[p].id
      <3>1. proc'[p] = IF p = q THEN h ELSE proc[p]
        BY <2>3 DEF IInv, TypeOK
      <3>2. QED
        BY <1>4, <2>1, <2>2, <2>3, <3>1 DEF Moved, Ended, Idle, InvalidatePCs, SetPCs
    <2>4. CASE Quiet \/ AllDie
      BY <1>4, <2>1, <2>4 DEF Quiet, AllDie, Idle
    <2>5. QED
      BY <2>3, <2>4, StepKinds DEF IInv
  <1>5. QED
    BY <1>2, <1>3, <1>4 DEF OneRow, RowsOf

\* The UPDATE of a handler, however late, leaves no live row with its token.
LEMMA RevokedStep ==
  ASSUME IInv, [Next]_vars
  PROVE  Revoked'
  <1>1. SUFFICES ASSUME NEW p \in Procs, proc'[p].pc \in InvalidatePCs \cup SetPCs,
                        proc'[p].token # 0, NEW r \in sessions',
                        r.tokenHash = hashToken(proc'[p].token), ~r.deleted
                 PROVE  FALSE
    BY DEF Revoked, LiveRowsOf, GetByTokenHash
  <1>2. ASSUME NEW t \in held, \A s \in sessions : s.tokenHash = hashToken(t) => s.deleted,
               r.tokenHash = hashToken(t)
        PROVE  FALSE
    <2>1. PICK s \in sessions : Survives(s, r)
      BY <1>2, OldToken DEF IInv, TypeOK
    <2>2. QED
      BY <1>1, <1>2, <2>1 DEF Survives
  <1>3. ASSUME proc[p].pc \in InvalidatePCs \cup SetPCs, proc'[p].token = proc[p].token
        PROVE  FALSE
    BY <1>1, <1>2, <1>3 DEF IInv, Revoked, LiveRowsOf, GetByTokenHash, Private
  <1>4. ASSUME NEW h \in Handler, proc'[p] = h, Moved(p, h)
        PROVE  FALSE
    <2>1. CASE proc[p].pc \in InvalidatePCs \cup SetPCs
      BY <1>3, <1>4, <2>1 DEF Moved
    <2>2. CASE proc[p].pc = "insert"
      BY <1>1, <1>4, <2>2 DEF Moved, IInv, Shape, WellFormed
    <2>3. CASE proc[p].pc \in {"update", "softDelete"}
      <3>1. /\ proc[p].token \in Tokens /\ proc[p].token \in held
            /\ r.tokenHash = hashToken(proc[p].token)
        BY <1>1, <1>4, <2>3 DEF Moved, IInv, Private, TypeOK
      <3>2. \A s \in sessions : s.tokenHash = hashToken(proc[p].token) => s.id = proc[p].id
        BY <2>3 DEF IInv, OneRow, RowsOf
      <3>3. CASE proc[p].pc = "softDelete"
        <4>1. PICK s \in sessions :
                r = IF s.id = proc[p].id THEN [s EXCEPT !.deleted = TRUE] ELSE s
          BY <1>4, <3>3 DEF Moved, SoftDelete
        <4>2. s \in Rows
          BY DEF IInv, TypeOK
        <4>3. CASE s.id = proc[p].id
          BY <1>1, <4>1, <4>2, <4>3 DEF Rows, SessionRow
        <4>4. CASE s.id # proc[p].id
          BY <3>1, <3>2, <4>1, <4>4
        <4>5. QED
          BY <4>3, <4>4
      <3>4. CASE proc[p].pc = "update"
        <4>1. PICK s \in sessions :
                r = IF s.id = proc[p].id THEN RefreshedSession(proc[p]) ELSE s
          BY <1>4, <3>4 DEF Moved, Update, RefreshedSession
        <4>2. CASE s.id = proc[p].id
          <5>1. r.tokenHash = hashToken(proc[p].newToken)
            BY <4>1, <4>2 DEF RefreshedSession
          <5>2. proc[p].newToken \in Tokens /\ proc[p].newToken \notin held
            BY <3>4 DEF IInv, TypeOK, Handler, Shape, WellFormed, Private
          <5>3. QED
            BY <3>1, <5>1, <5>2, HashInjective
        <4>3. CASE s.id # proc[p].id
          BY <3>1, <3>2, <4>1, <4>3
        <4>4. QED
          BY <4>2, <4>3
      <3>5. QED
        BY <2>3, <3>3, <3>4
    <2>4. QED
      BY <1>4, <2>1, <2>2, <2>3 DEF Moved
  <1>5. ASSUME NEW q \in Procs, NEW h \in Handler, proc' = [proc EXCEPT ![q] = h],
               Started(q, h) \/ Moved(q, h) \/ Ended(q, h)
        PROVE  FALSE
    <2>1. proc'[p] = IF p = q THEN h ELSE proc[p]
      BY <1>5 DEF IInv, TypeOK
    <2>2. QED
      BY <1>1, <1>3, <1>4, <1>5, <2>1 DEF Started, Ended, Idle, InvalidatePCs, SetPCs
  <1>6. CASE Quiet \/ AllDie
    BY <1>1, <1>3, <1>6 DEF Quiet, AllDie, Idle, InvalidatePCs, SetPCs
  <1>7. QED
    BY <1>5, <1>6, StepKinds DEF IInv

\* Every step preserves Purged: nothing writes a purged token back.
LEMMA PurgedStep ==
  ASSUME IInv, [Next]_vars
  PROVE  Purged'
  <1>1. ASSUME NEW t \in held, LiveRowsOf(t) = {}
        PROVE  LiveRowsOf(t)' = {}
    <2>1. t \in Tokens
      BY DEF IInv, TypeOK
    <2>2. QED
      BY <1>1, <2>1, OldToken DEF LiveRowsOf, GetByTokenHash, Survives
  <1>2. ASSUME NEW t \in held, Lookup(cache, ValidKey, hashToken(t)) = {}
        PROVE  Lookup(cache, ValidKey, hashToken(t))' = {}
    <2>1. t \in Tokens
      BY DEF IInv, TypeOK
    <2>2. QED
      BY <1>2, <2>1, OldToken DEF Lookup, ValidKey
  <1>3. ASSUME NEW t \in purged
        PROVE  t \in held' /\ LiveRowsOf(t)' = {} /\ Lookup(cache, ValidKey, hashToken(t))' = {}
    BY <1>1, <1>2, Monotone DEF IInv, Purged
  <1>4. ASSUME NEW p \in Procs, Purges(p)
        PROVE  /\ proc[p].token \in held'
               /\ LiveRowsOf(proc[p].token) = {}
               /\ sessions' = sessions
    BY <1>4 DEF IInv, Purges, Private, Shape, WellFormed, Revoked
  <1>5. ASSUME NEW p \in Procs, Purges(p)
        PROVE  Purged'
    <2>1. purged' = purged \cup {proc[p].token}
      BY <1>5 DEF Purges
    <2>2. \A t \in {proc[p].token} : LiveRowsOf(t)' = {} /\ Lookup(cache, ValidKey, hashToken(t))' = {}
      BY <1>4, <1>5 DEF Purges, LiveRowsOf, GetByTokenHash, ValidKey, Lookup
    <2>3. QED
      BY <1>3, <1>4, <1>5, <2>1, <2>2 DEF Purged
  <1>6. CASE UNCHANGED purged
    BY <1>3, <1>6 DEF Purged
  <1>7. QED
    BY <1>5, <1>6, StepKinds DEF IInv, Quiet, AllDie

\* The users table changes only by DeleteUser, which takes the rows along; ids
\* are drawn in increasing order.
LEMMA UsersStep ==
  ASSUME TypeOK, [Next]_vars
  PROVE  /\ sessionSeq' \in Nat /\ sessionSeq <= sessionSeq'
         /\ users' = users \/ \A r \in sessions' : r \in sessions /\ (r.userID \in users
                                                                      => r.userID \in users')
  <1>1. sessionSeq \in Nat
    BY DEF TypeOK
  <1>2. ASSUME NEW u \in Users, DeleteUser(u)
        PROVE  /\ sessionSeq' = sessionSeq
               /\ \A r \in sessions' : r \in sessions /\ (r.userID \in users => r.userID \in users')
    BY <1>2 DEF DeleteUser, CascadeDeleteUser
  <1>3. ASSUME NEW p \in Procs, HandlerStep(p)
        PROVE  users' = users /\ sessionSeq' \in {sessionSeq, sessionSeq + 1}
    BY <1>3 DEF HandlerStep, CreateSession, InsertSession, SetSession, SetTokenValid,
                RefreshSession, UpdateSession, Logout, SoftDeleteSession,
                InvalidateMemcached, InvalidateLocal, storeVars
  <1>4. ASSUME \/ CleanupSessions \/ RepositoryCall \/ Restart \/ Tick \/ UNCHANGED vars
               \/ \E e \in cache : Evict(e)
        PROVE  users' = users /\ sessionSeq' = sessionSeq
    BY <1>4 DEF CleanupSessions, RepositoryCall, Restart, Tick, vars, Evict, storeVars
  <1>5. QED
    BY <1>1, <1>2, <1>3, <1>4 DEF Next, OtherStep

\* Every step preserves RowUsers: deleting a user takes the rows along.
LEMMA RowUsersStep ==
  ASSUME IInv, [Next]_vars
  PROVE  RowUsers'
  <1>0. /\ sessionSeq \in Nat /\ sessionSeq' \in Nat /\ sessionSeq <= sessionSeq'
        /\ \A r \in sessions : r.id \in Nat /\ r.id <= sessionSeq /\ r.userID \in users
        /\ \A p \in Procs : proc[p].id \in Nat
    BY UsersStep DEF IInv, TypeOK, RowUsers, Rows, SessionRow, Handler
  \* An old row has the id and the user of the new one, unless it is inserted.
  <1>1. ASSUME NEW r \in sessions'
        PROVE  \/ \E s \in sessions : s.id = r.id /\ s.userID = r.userID
               \/ \E p \in Procs : Inserts(p, r)
    <2>1. ASSUME NEW p \in Procs, Refreshes(p, r)
          PROVE  \E s \in sessions : s.id = r.id /\ s.userID = r.userID
      BY <2>1 DEF Refreshes, IInv, RowUsers
    <2>2. QED
      BY <2>1, RowOrigin DEF IInv, Survives
  <1>2. ASSUME NEW r \in sessions'
        PROVE  r.userID \in users' /\ r.id <= sessionSeq'
    <2>1. CASE \E s \in sessions : s.id = r.id /\ s.userID = r.userID
      BY <1>0, <2>1, UsersStep DEF IInv
    <2>2. ASSUME NEW p \in Procs, Inserts(p, r)
          PROVE  r.userID \in users' /\ r.id <= sessionSeq'
      BY <1>0, <2>2 DEF Inserts
    <2>3. QED
      BY <1>1, <2>1, <2>2
  <1>3. ASSUME NEW r \in sessions', NEW s \in sessions', r.id = s.id
        PROVE  r.userID = s.userID
    <2>0. \A x \in sessions : x.id # sessionSeq + 1
      BY <1>0
    <2>1. ASSUME NEW p \in Procs, Inserts(p, r)
          PROVE  r.userID = s.userID
      BY <1>3, <2>0, <2>1 DEF Inserts
    <2>2. ASSUME NEW p \in Procs, Inserts(p, s)
          PROVE  r.userID = s.userID
      BY <1>3, <2>0, <2>2 DEF Inserts
    <2>3. QED
      BY <1>1, <1>3, <2>1, <2>2 DEF IInv, RowUsers
  <1>4. ASSUME NEW p \in Procs, proc'[p].pc = "update"
        PROVE  /\ proc'[p].id <= sessionSeq'
               /\ \A r \in sessions' : r.id = proc'[p].id => r.userID = proc'[p].userID
    <2>1. CASE proc'[p] = proc[p]
      <3>1. /\ proc[p].id <= sessionSeq
            /\ \A s \in sessions : s.id = proc[p].id => s.userID = proc[p].userID
        BY <1>4, <2>1 DEF IInv, RowUsers
      <3>2. ASSUME NEW q \in Procs, NEW r \in sessions', Inserts(q, r)
            PROVE  r.id # proc[p].id
        BY <1>0, <3>1, <3>2 DEF Inserts
      <3>3. QED
        BY <1>0, <1>1, <2>1, <3>1, <3>2
    <2>2. ASSUME NEW h \in Handler, proc'[p] = h, Started(p, h)
          PROVE  /\ h.id <= sessionSeq'
                 /\ \A r \in sessions' : r.id = h.id => r.userID = h.userID
      <3>1. PICK s \in sessions : s.id = h.id /\ s.userID = h.userID
        BY <1>4, <2>2 DEF Started
      <3>2. sessions' = sessions /\ sessionSeq' = sessionSeq
        BY <2>2 DEF Started
      <3>3. QED
        BY <1>0, <3>1, <3>2 DEF IInv, RowUsers
    <2>3. ASSUME NEW q \in Procs, NEW h \in Handler, proc' = [proc EXCEPT ![q] = h],
                 Started(q, h) \/ Moved(q, h) \/ Ended(q, h)
          PROVE  /\ proc'[p].id <= sessionSeq'
                 /\ \A r \in sessions' : r.id = proc'[p].id => r.userID = proc'[p].userID
      <3>1. proc'[p] = IF p = q THEN h ELSE proc[p]
        BY <2>3 DEF IInv, TypeOK
      <3>2. QED
        BY <1>4, <2>1, <2>2, <2>3, <3>1 DEF Moved, Ended, Idle, InvalidatePCs, SetPCs
    <2>4. CASE Quiet \/ AllDie
      BY <1>4, <2>1, <2>4 DEF Quiet, AllDie, Idle
    <2>5. QED
      BY <2>3, <2>4, StepKinds DEF IInv
  <1>5. QED
    BY <1>2, <1>3, <1>4 DEF RowUsers

\* The initial state satisfies the inductive invariant.
LEMMA IInvInit == Init => IInv
  <1>. SUFFICES ASSUME Init PROVE IInv
    OBVIOUS
  <1>1. \A p \in Procs : proc[p] = Idle
    BY DEF Init
  <1>2. TypeOK /\ Shape
    BY <1>1, TypeInit DEF Shape, WellFormed, Idle, SetPCs, InvalidatePCs
  <1>3. Generated /\ Private
    BY <1>1 DEF Init, Generated, Private, RowsOf, Lookup, Idle
  <1>4. Owned /\ OneRow
    BY <1>1 DEF Init, Owned, OneRow, RowsOf, Idle
  <1>5. Revoked /\ Purged /\ RowUsers
    BY <1>1 DEF Init, Revoked, Purged, RowUsers, Idle, SetPCs, InvalidatePCs
  <1>6. QED
    BY <1>2, <1>3, <1>4, <1>5 DEF IInv

\* The inductive invariant behind the safety theorems below.
THEOREM Inductive == Spec => []IInv
  <1>1. IInv /\ [Next]_vars => IInv'
    <2>. SUFFICES ASSUME IInv, [Next]_vars PROVE IInv'
      OBVIOUS
    <2>1. TypeOK' /\ Shape'
      BY TypeStep DEF IInv
    <2>2. Generated' /\ Private' /\ Owned' /\ OneRow'
      BY GeneratedStep, PrivateStep, OwnedStep, OneRowStep
    <2>3. Revoked' /\ Purged' /\ RowUsers'
      BY RevokedStep, PurgedStep, RowUsersStep
    <2>4. QED
      BY <2>1, <2>2, <2>3 DEF IInv
  <1>2. QED
    BY <1>1, IInvInit, PTL DEF Spec

-------------------------------------------------------------------------------
(* What ValidateSession answers.                                             *)

\* Under the invariant the cache and the database name nobody but the owner.
VouchedForOwner == \A t \in Tokens : Vouched(t) \subseteq {owner[t]}

\* ValidateSession hears of no user but the owner, from cache and database alike.
LEMMA VouchedOwner == IInv => VouchedForOwner
  <1>. SUFFICES ASSUME IInv, NEW t \in Tokens PROVE Vouched(t) \subseteq {owner[t]}
    BY DEF VouchedForOwner
  <1>1. \A e \in cache : e.tokenHash = hashToken(t) => e.userID = owner[t]
    BY DEF IInv, Owned
  <1>2. \A r \in sessions : r.tokenHash = hashToken(t) => r.userID = owner[t]
    BY DEF IInv, Owned, RowsOf
  <1>3. CacheIsTokenValid(CacheKind, cache, hashToken(t), now).users \subseteq {owner[t]}
    BY <1>1, KindAssumption
    DEF CacheIsTokenValid, CacheKinds, MemcachedIsTokenValid, MemoryIsTokenValid,
        NoopIsTokenValid, Lookup
  <1>4. IsTokenValid(sessions, hashToken(t), now) \subseteq {owner[t]}
    BY <1>2 DEF IsTokenValid
  <1>5. QED
    BY <1>3, <1>4 DEF Vouched

\* For every number of users and handlers and under every fault, a request
\* that ValidateSession accepts runs as the user its token was generated for.
THEOREM OwnerSafety == Spec => []AcceptedAsOwner
  <1>1. IInv => AcceptedAsOwner
    BY VouchedOwner DEF VouchedForOwner, AcceptedAsOwner, AcceptedAs
  <1>2. QED
    BY <1>1, Inductive, PTL

\* Once InvalidateSessionToken has succeeded for the token of a Logout or a
\* RefreshSession, no interleaving with other requests makes ValidateSession
\* accept that token again.
THEOREM PurgeSafety == Spec => []PurgedTokenRefused
  <1>1. ASSUME IInv, NEW t \in purged
        PROVE  ~Accepts(t)
    <2>1. IsTokenValid(sessions, hashToken(t), now) = {}
      BY <1>1 DEF IInv, Purged, LiveRowsOf, GetByTokenHash, IsTokenValid
    <2>2. CacheIsTokenValid(CacheKind, cache, hashToken(t), now).users = {}
      BY <1>1, KindAssumption
      DEF IInv, Purged, ValidKey, CacheIsTokenValid, CacheKinds, MemcachedIsTokenValid,
          MemoryIsTokenValid, NoopIsTokenValid, Lookup
    <2>3. QED
      BY <2>1, <2>2 DEF Accepts, AcceptedAs, Vouched
  <1>2. IInv => PurgedTokenRefused
    BY <1>1 DEF PurgedTokenRefused
  <1>3. QED
    BY <1>2, Inductive, PTL

\* With memcached or without a cache, a session that is live in the database is
\* accepted, whatever the cache lost, dropped or failed to store.
THEOREM LiveSafety ==
  ASSUME CacheKind # "memory"
  PROVE  Spec => []LiveSessionAccepted
  <1>1. ASSUME IInv, NEW t \in held,
               IsTokenValid(sessions, hashToken(t), now) # {}
        PROVE  Accepts(t)
    <2>1. t \in Tokens
      BY <1>1 DEF IInv, TypeOK
    <2>2. PICK r \in sessions : r.tokenHash = hashToken(t)
      BY <1>1 DEF IsTokenValid
    <2>3. owner[t] \in users
      BY <1>1, <2>1, <2>2 DEF IInv, Owned, RowsOf, RowUsers
    <2>4. Vouched(t) # {}
      BY <1>1, KindAssumption
      DEF Vouched, CacheIsTokenValid, CacheKinds, MemcachedIsTokenValid, NoopIsTokenValid
    <2>5. QED
      BY <1>1, <2>1, <2>3, <2>4, VouchedOwner DEF VouchedForOwner, Accepts, AcceptedAs
  <1>2. IInv => LiveSessionAccepted
    BY <1>1 DEF LiveSessionAccepted
  <1>3. QED
    BY <1>2, Inductive, PTL

-------------------------------------------------------------------------------
(* The in-memory cache answers a miss with "not valid" instead of an error,  *)
(* so a live session is accepted only if its entry is there.                 *)

\* A row with the token a handler generated has the expiry the handler will give
\* to the cache.
RowExpiry ==
    \A p \in Procs : proc[p].newToken # 0 =>
        \A r \in RowsOf(proc[p].newToken) : r.expiresAt = proc[p].expiresAt

\* The second memcached key is memcached's alone.
OneKey == \A p \in Procs : proc[p].pc # "setValid"

\* The cache has an entry for the live row of every token a client holds, and the
\* entry lasts at least as long as the row.
Remembered ==
    \A t \in held : \A r \in LiveRowsOf(t) :
        \E e \in Lookup(cache, "session", hashToken(t)) : e.until >= r.expiresAt

\* Every step preserves RowExpiry.
LEMMA RowExpiryStep ==
  ASSUME IInv, RowExpiry, [Next]_vars
  PROVE  RowExpiry'
  <1>. SUFFICES ASSUME NEW p \in Procs, proc'[p].newToken # 0,
                       NEW r \in sessions', r.tokenHash = hashToken(proc'[p].newToken)
                PROVE  r.expiresAt = proc'[p].expiresAt
    BY DEF RowExpiry, RowsOf
  <1>1. ASSUME proc'[p].newToken = proc[p].newToken, proc'[p].expiresAt = proc[p].expiresAt
        PROVE  r.expiresAt = proc'[p].expiresAt
    <2>1. proc[p].newToken \in Tokens
      BY <1>1 DEF IInv, TypeOK, Handler
    <2>2. ASSUME NEW s \in sessions, Survives(s, r)
          PROVE  r.expiresAt = proc'[p].expiresAt
      BY <1>1, <2>2 DEF RowExpiry, RowsOf, Survives
    <2>3. ASSUME NEW q \in Procs, Inserts(q, r) \/ Refreshes(q, r)
          PROVE  r.expiresAt = proc'[p].expiresAt
      <3>1. /\ proc[q].newToken \in Tokens /\ r.tokenHash = hashToken(proc[q].newToken)
            /\ r.expiresAt = proc[q].expiresAt
        BY <2>3 DEF Inserts, Refreshes, IInv, TypeOK, Handler, Shape, WellFormed
      <3>2. proc[q].newToken = proc[p].newToken
        BY <1>1, <2>1, <3>1, HashInjective
      <3>3. q = p
        BY <1>1, <3>2 DEF IInv, Private
      <3>. QED
        BY <1>1, <3>1, <3>3
    <2>. QED
      BY <2>2, <2>3, RowOrigin DEF IInv
  <1>2. ASSUME NEW h \in Handler, proc'[p] = h, Started(p, h)
        PROVE  FALSE
    <2>1. h.newToken \in Tokens /\ h.newToken > tokenSeq /\ sessions' = sessions
      BY <1>2 DEF Started, Handler, IInv, TypeOK
    <2>. QED
      BY <1>2, <2>1 DEF IInv, Generated, RowsOf
  <1>3. ASSUME NEW q \in Procs, NEW h \in Handler, proc' = [proc EXCEPT ![q] = h],
               Started(q, h) \/ Moved(q, h) \/ Ended(q, h)
        PROVE  r.expiresAt = proc'[p].expiresAt
    <2>1. proc'[p] = IF p = q THEN h ELSE proc[p]
      BY <1>3 DEF IInv, TypeOK
    <2>. QED
      BY <1>1, <1>2, <1>3, <2>1 DEF Moved, Ended, Idle
  <1>4. CASE Quiet \/ AllDie
    BY <1>1, <1>4 DEF Quiet, AllDie, Idle
  <1>. QED
    BY <1>3, <1>4, StepKinds DEF IInv

\* Without memcached no handler ever sets the second key.
LEMMA OneKeyStep ==
  ASSUME TypeOK, OneKey, [Next]_vars, CacheKind # "memcached"
  PROVE  OneKey'
  <1>. SUFFICES ASSUME NEW p \in Procs, proc'[p].pc = "setValid"
                PROVE  FALSE
    BY DEF OneKey
  <1>1. proc[p].pc # "setValid" /\ proc[p] \in Handler
    BY DEF OneKey, TypeOK
  <1>2. ASSUME NEW q \in Procs, NEW h, h.pc # "setValid",
               proc' = [proc EXCEPT ![q] = h]
        PROVE  FALSE
    BY <1>1, <1>2 DEF TypeOK
  <1>3. ASSUME NEW q \in Procs, HandlerStep(q)
        PROVE  FALSE
    <2>1. ~SetTokenValid(q)
      BY DEF SetTokenValid, OneKey
    <2>2. ASSUME NEW c, c # "setValid", Goto(q, c)
          PROVE  FALSE
      BY <1>1, <2>2 DEF Goto, TypeOK, Handler
    <2>3. ~Abort(q)
      BY <1>1 DEF Abort, Idle, TypeOK
    <2>4. ASSUME AfterInvalidate(q)
          PROVE  FALSE
      BY <2>2, <2>3, <2>4 DEF AfterInvalidate
    <2>5. ASSUME \/ \E u \in Users : CreateSession(q, u)
                 \/ \E t \in held : RefreshSession(q, t)
                 \/ \E t \in held : Logout(q, t)
          PROVE  FALSE
      <3>. DEFINE created(u) == [Idle EXCEPT !.pc = "insert", !.newToken = tokenSeq + 1,
                                             !.userID = u, !.expiresAt = now + SessionTTL]
                  ending(t, r) == [Idle EXCEPT !.pc = "softDelete", !.token = t,
                                               !.id = r.id, !.userID = r.userID]
                  refreshing(t, r) == [pc |-> "update", token |-> t,
                                       newToken |-> tokenSeq + 1, id |-> r.id,
                                       userID |-> r.userID, expiresAt |-> now + SessionTTL]
      <3>1. /\ \A u : created(u).pc = "insert"
            /\ \A t, r : ending(t, r).pc = "softDelete" /\ refreshing(t, r).pc = "update"
        BY DEF Idle
      <3>2. \/ \E u : proc' = [proc EXCEPT ![q] = created(u)]
            \/ \E t, r : proc' = [proc EXCEPT ![q] = ending(t, r)]
            \/ \E t, r : proc' = [proc EXCEPT ![q] = refreshing(t, r)]
        BY <2>5 DEF CreateSession, RefreshSession, Logout
      <3>. HIDE DEF created, ending, refreshing
      <3>. QED
        BY <1>2, <3>1, <3>2
    <2>6. ASSUME InsertSession(q)
          PROVE  FALSE
      BY <1>1, <2>3, <2>6 DEF InsertSession, TypeOK, Handler
    <2>7. ASSUME SetSession(q) \/ UpdateSession(q) \/ SoftDeleteSession(q)
          PROVE  FALSE
      BY <2>2, <2>3, <2>7 DEF SetSession, UpdateSession, SoftDeleteSession, ReturnToken
    <2>8. ASSUME InvalidateMemcached(q) \/ InvalidateLocal(q)
          PROVE  FALSE
      BY <2>4, <2>8 DEF InvalidateMemcached, InvalidateLocal
    <2>. QED
      BY <1>3, <2>1, <2>5, <2>6, <2>7, <2>8 DEF HandlerStep
  <1>4. ASSUME Restart \/ OtherStep \/ UNCHANGED vars
        PROVE  FALSE
    BY <1>1, <1>4 DEF Restart, OtherStep, vars, CleanupSessions, DeleteUser, RepositoryCall,
                      Evict, Tick, Idle
  <1>. QED
    BY <1>3, <1>4 DEF Next

\* A token that a handler hands out is in the in-memory cache, with the expiry of
\* its row.
LEMMA HandedOutRemembered ==
  ASSUME IInv, RowExpiry, OneKey, [Next]_vars, CacheKind = "memory",
         NEW t \in held', t \notin held, NEW r \in sessions', r.tokenHash = hashToken(t)
  PROVE  \E e \in Lookup(cache, "session", hashToken(t))' : e.until >= r.expiresAt
  <1>1. PICK p \in Procs : SetSession(p) \/ SetTokenValid(p)
    BY DEF Next, OtherStep, vars, HandlerStep, CreateSession, InsertSession, RefreshSession,
           UpdateSession, Logout, SoftDeleteSession, InvalidateMemcached, InvalidateLocal,
           CleanupSessions, RepositoryCall, Restart, Tick, Evict, DeleteUser
  <1>2. SetSession(p)
    BY <1>1 DEF SetTokenValid, OneKey
  <1>3. /\ held' = held \cup {proc[p].newToken}
        /\ cache' = CacheSet(cache, "session", hashToken(proc[p].newToken), proc[p].userID,
                             proc[p].expiresAt)
        /\ sessions' = sessions /\ proc[p].pc = "setSession"
    BY <1>2 DEF SetSession, ReturnToken, storeVars
  <1>4. t = proc[p].newToken /\ t # 0
    BY <1>3 DEF IInv, Shape, WellFormed, SetPCs
  <1>5. r.expiresAt = proc[p].expiresAt /\ r.expiresAt \in Nat
    BY <1>3, <1>4 DEF RowExpiry, RowsOf, IInv, TypeOK, Rows, SessionRow
  <1>. DEFINE e == [key |-> "session", tokenHash |-> hashToken(t), userID |-> proc[p].userID,
                    until |-> proc[p].expiresAt]
  <1>6. e \in cache' /\ e \in Lookup(cache, "session", hashToken(t))'
    BY <1>3, <1>4 DEF CacheSet, Lookup
  <1>. QED
    BY <1>5, <1>6

\* As long as the process runs, the entry of a token that a client holds is deleted
\* only by a handler that has revoked the token.
LEMMA EntryStays ==
  ASSUME IInv, OneKey, [Next]_vars, CacheKind = "memory", "crash" \notin Env,
         NEW t \in held, NEW e \in Lookup(cache, "session", hashToken(t)), e \notin cache'
  PROVE  LiveRowsOf(t) = {} /\ sessions' = sessions
  <1>1. t \in Tokens /\ e \in cache /\ e.tokenHash = hashToken(t)
    BY DEF IInv, TypeOK, Lookup
  <1>2. PICK p \in Procs : SetSession(p) \/ InvalidateLocal(p)
    BY <1>1 DEF Next, OtherStep, vars, HandlerStep, CreateSession, InsertSession, RefreshSession,
           UpdateSession, Logout, SoftDeleteSession, InvalidateMemcached, SetTokenValid, OneKey,
           CleanupSessions, RepositoryCall, Restart, Tick, Evict, DeleteUser
  <1>3. ~SetSession(p)
    <2>1. ASSUME SetSession(p)
          PROVE  FALSE
      <3>1. proc[p].newToken \in Tokens /\ proc[p].newToken \notin held
        BY <2>1 DEF SetSession, SetPCs, IInv, TypeOK, Handler, Shape, WellFormed, Private
      <3>2. hashToken(proc[p].newToken) # hashToken(t)
        BY <1>1, <3>1, HashInjective
      <3>. QED
        BY <1>1, <2>1, <3>2 DEF SetSession, CacheSet, CacheDelete
    <2>. QED
      BY <2>1
  <1>4. /\ proc[p].pc = "delSession1" /\ sessions' = sessions
        /\ cache' = CacheDelete(cache, "session", hashToken(proc[p].token))
    BY <1>2, <1>3 DEF InvalidateLocal, storeVars
  <1>5. hashToken(proc[p].token) = hashToken(t)
    BY <1>1, <1>4 DEF CacheDelete
  <1>6. proc[p].token = t
    BY <1>1, <1>4, <1>5, HashInjective DEF IInv, TypeOK, Handler, Shape, WellFormed, InvalidatePCs
  <1>7. LiveRowsOf(t) = {}
    BY <1>1, <1>4, <1>6 DEF IInv, Revoked, InvalidatePCs, Tokens
  <1>. QED
    BY <1>4, <1>7

\* Every step but a restart preserves Remembered.
LEMMA RememberedStep ==
  ASSUME IInv, RowExpiry, OneKey, Remembered, [Next]_vars, CacheKind = "memory",
         "crash" \notin Env
  PROVE  Remembered'
  <1>. SUFFICES ASSUME NEW t \in held', NEW r \in sessions', r.tokenHash = hashToken(t),
                       ~r.deleted
                PROVE  \E e \in Lookup(cache, "session", hashToken(t))' : e.until >= r.expiresAt
    BY DEF Remembered, LiveRowsOf, GetByTokenHash
  <1>1. CASE t \notin held
    BY <1>1, HandedOutRemembered
  <1>2. CASE t \in held
    <2>1. t \in Tokens
      BY <1>2 DEF IInv, TypeOK
    <2>2. PICK s \in sessions : Survives(s, r)
      BY <1>2, <2>1, OldToken
    <2>3. s \in LiveRowsOf(t) /\ s.expiresAt = r.expiresAt
      BY <2>2 DEF Survives, LiveRowsOf, GetByTokenHash
    <2>4. PICK e \in Lookup(cache, "session", hashToken(t)) : e.until >= s.expiresAt
      BY <1>2, <2>3 DEF Remembered
    <2>5. e \in cache'
      BY <1>2, <2>3, EntryStays
    <2>. QED
      BY <2>3, <2>4, <2>5 DEF Lookup
  <1>. QED
    BY <1>1, <1>2

\* The in-memory cache, as long as the process is not restarted: a session that is
\* live in the database is accepted.  The hypothesis on restarts is needed, as the
\* run memory_restart shows.
THEOREM LiveSafetyMemory ==
  ASSUME CacheKind = "memory", "crash" \notin Env
  PROVE  Spec => []LiveSessionAccepted
  <1>. DEFINE MInv == RowExpiry /\ OneKey /\ Remembered
  <1>1. Init => MInv
    BY DEF Init, RowExpiry, OneKey, Remembered, Idle
  <1>2. IInv /\ MInv /\ [Next]_vars => MInv'
    BY RowExpiryStep, OneKeyStep, RememberedStep DEF IInv
  <1>3. ASSUME IInv, MInv, NEW t \in held, IsTokenValid(sessions, hashToken(t), now) # {}
        PROVE  Accepts(t)
    <2>1. t \in Tokens
      BY <1>3 DEF IInv, TypeOK
    <2>2. PICK r \in LiveRowsOf(t) : r.expiresAt > now /\ r \in sessions /\ r.tokenHash = hashToken(t)
      BY <1>3 DEF IsTokenValid, LiveRowsOf, GetByTokenHash
    <2>3. owner[t] \in users
      BY <1>3, <2>1, <2>2 DEF IInv, Owned, RowsOf, RowUsers
    <2>4. PICK e \in Lookup(cache, "session", hashToken(t)) : e.until >= r.expiresAt
      BY <1>3, <2>2 DEF Remembered
    <2>5. e.until \in Nat /\ r.expiresAt \in Nat /\ now \in Nat
      BY <1>3, <2>2 DEF Lookup, IInv, TypeOK, Entries, CacheEntry, Rows, SessionRow
    <2>6. ~(e.until < now)
      BY <2>2, <2>4, <2>5
    <2>7. Vouched(t) # {}
      BY <2>4, <2>6 DEF Vouched, CacheIsTokenValid, MemoryIsTokenValid
    <2>. QED
      BY <1>3, <2>1, <2>3, <2>7, VouchedOwner DEF VouchedForOwner, Accepts, AcceptedAs
  <1>4. IInv /\ MInv => LiveSessionAccepted
    BY <1>3 DEF LiveSessionAccepted
  <1>. QED
    BY <1>1, <1>2, <1>4, Inductive, PTL DEF Spec

-------------------------------------------------------------------------------
(* Refinement of TokenLifecycle.                                             *)

\* A token in a client's hands never becomes acceptable again.
LEMMA RefusedForGood ==
  ASSUME IInv, [Next]_vars, NEW t \in held, Accepts(t)'
  PROVE  Accepts(t)
  <1>1. t \in Tokens
    BY DEF IInv, TypeOK
  <1>2. IInv'
    BY TypeStep, GeneratedStep, PrivateStep, OwnedStep, OneRowStep, RevokedStep,
       PurgedStep, RowUsersStep DEF IInv
  <1>3. now' \in Nat /\ now \in Nat /\ now <= now' /\ users' \subseteq users
    <2>1. now \in Nat
      BY DEF IInv, TypeOK
    <2>2. now' \in {now, now + 1} /\ users' \subseteq users
      BY DEF Next, OtherStep, vars, HandlerStep, CreateSession, InsertSession, SetSession, SetTokenValid,
                RefreshSession, UpdateSession, Logout, SoftDeleteSession,
                InvalidateMemcached, InvalidateLocal, storeVars,
                CleanupSessions, RepositoryCall, Restart, Tick, Evict, DeleteUser
    <2>3. QED
      BY <2>1, <2>2
  <1>4. owner' [t] = owner[t]
    <2>1. owner' = owner \/ \E u : owner' = [owner EXCEPT ![tokenSeq + 1] = u]
      BY StepKinds DEF IInv, Quiet, AllDie, Started, Moved, Ended, counters
    <2>2. t # tokenSeq + 1
      BY <1>1 DEF IInv, Generated, TypeOK, Tokens
    <2>3. QED
      BY <1>1, <2>1, <2>2 DEF IInv, TypeOK
  <1>5. Vouched(t)' # {} /\ owner[t] \in users
    <2>1. VouchedForOwner'
      BY <1>2, VouchedOwner, PTL
    <2>2. Vouched(t)' \subseteq {owner'[t]}
      BY <1>1, <2>1 DEF VouchedForOwner
    <2>3. Vouched(t)' \cap users' # {}
      BY DEF Accepts, AcceptedAs
    <2>4. QED
      BY <1>3, <1>4, <2>2, <2>3
  <1>6. IsTokenValid(sessions, hashToken(t), now)' # {} => IsTokenValid(sessions, hashToken(t), now) # {}
    <2>. SUFFICES ASSUME NEW r \in sessions', r.tokenHash = hashToken(t), r.expiresAt > now',
                         ~r.deleted
                  PROVE  \E s \in sessions : /\ s.tokenHash = hashToken(t) /\ s.expiresAt > now
                                             /\ ~s.deleted
      BY DEF IsTokenValid
    <2>1. PICK s \in sessions : Survives(s, r)
      BY <1>1, OldToken
    <2>2. s.expiresAt \in Nat
      BY DEF IInv, TypeOK, Rows, SessionRow
    <2>3. s.expiresAt > now
      BY <1>3, <2>1, <2>2 DEF Survives
    <2>4. QED
      BY <2>1, <2>3 DEF Survives
  <1>7. Vouched(t) # {}
    <2>1. CASE CacheKind = "noop"
      BY <1>5, <1>6, <2>1 DEF Vouched, CacheIsTokenValid, NoopIsTokenValid
    <2>2. CASE CacheKind = "memcached"
      <3>1. Lookup(cache, "token_valid", hashToken(t)) = {}
              => Lookup(cache, "token_valid", hashToken(t))' = {}
        BY <1>1, OldToken DEF Lookup
      <3>2. QED
        BY <1>5, <1>6, <2>2, <3>1 DEF Vouched, CacheIsTokenValid, MemcachedIsTokenValid
    <2>3. CASE CacheKind = "memory"
      <3>1. PICK e \in cache' : /\ e.key = "session" /\ e.tokenHash = hashToken(t)
                                /\ ~(e.until < now')
        BY <1>5, <2>3 DEF Vouched, CacheIsTokenValid, MemoryIsTokenValid, Lookup
      <3>2. e \in cache
        BY <1>1, <3>1, OldToken
      <3>3. ~(e.until < now)
        <4>1. e.until \in Nat
          BY <3>2 DEF IInv, TypeOK, Entries, CacheEntry
        <4>2. QED
          BY <1>3, <3>1, <4>1
      <3>4. QED
        BY <2>3, <3>1, <3>2, <3>3 DEF Vouched, CacheIsTokenValid, MemoryIsTokenValid, Lookup
    <2>4. QED
      BY <2>1, <2>2, <2>3, KindAssumption DEF CacheKinds
  <1>8. QED
    BY <1>1, <1>5, <1>7, VouchedOwner DEF VouchedForOwner, Accepts, AcceptedAs

\* A step that hands out a token leaves every other answer as it was.
LEMMA ReturnAddsOne ==
  ASSUME IInv, [Next]_vars, held' # held
  PROVE  \E n \in Tokens \ held :
            /\ held' = held \cup {n}
            /\ \A t \in held : Accepts(t)' <=> Accepts(t)
  <1>1. PICK p \in Procs : SetSession(p) \/ SetTokenValid(p)
    BY DEF Next, OtherStep, vars, HandlerStep, CreateSession, InsertSession, RefreshSession,
           UpdateSession, Logout, SoftDeleteSession, InvalidateMemcached, InvalidateLocal,
           CleanupSessions, RepositoryCall, Restart, Tick, Evict, DeleteUser
  <1>. DEFINE n == proc[p].newToken
  <1>2. n \in Tokens /\ n \notin held
    BY <1>1 DEF SetSession, SetTokenValid, IInv, TypeOK, Handler, Shape, WellFormed, SetPCs, Private
  <1>3. held' = held \cup {n}
    BY <1>1 DEF SetSession, SetTokenValid, ReturnToken
  <1>4. UNCHANGED <<now, users, sessions>>
    BY <1>1 DEF SetSession, SetTokenValid, storeVars
  <1>5. \/ cache' = cache
        \/ \E k, u, x : cache' = CacheSet(cache, k, hashToken(n), u, x)
    BY <1>1 DEF SetSession, SetTokenValid
  <1>6. ASSUME NEW t \in held
        PROVE  Accepts(t)' <=> Accepts(t)
    <2>1. hashToken(t) # hashToken(n)
      BY <1>2, HashInjective DEF IInv, TypeOK
    <2>2. \A k : Lookup(cache, k, hashToken(t))' = Lookup(cache, k, hashToken(t))
      <3>1. CASE cache' = cache
        BY <3>1
      <3>2. ASSUME NEW k, NEW u, NEW x, cache' = CacheSet(cache, k, hashToken(n), u, x), NEW j
            PROVE  Lookup(cache', j, hashToken(t)) = Lookup(cache, j, hashToken(t))
        BY <2>1, <3>2 DEF CacheSet, CacheDelete, Lookup
      <3>3. QED
        BY <1>5, <3>1, <3>2
    <2>3. CacheIsTokenValid(CacheKind, cache, hashToken(t), now)'
            = CacheIsTokenValid(CacheKind, cache, hashToken(t), now)
      <3>1. CASE CacheKind = "memcached"
        BY <2>2, <3>1 DEF CacheIsTokenValid, MemcachedIsTokenValid
      <3>2. CASE CacheKind = "memory"
        <4>. DEFINE fresh(c, time) == {e \in Lookup(c, "session", hashToken(t)) : ~(e.until < time)}
        <4>1. fresh(cache', now') = fresh(cache, now)
          BY <1>4, <2>2
        <4>2. {e.userID : e \in fresh(cache', now')} = {e.userID : e \in fresh(cache, now)}
          BY <4>1
        <4>3. QED
          BY <3>2, <4>2 DEF CacheIsTokenValid, MemoryIsTokenValid
      <3>3. CASE CacheKind = "noop"
        BY <3>3 DEF CacheIsTokenValid, NoopIsTokenValid
      <3>4. QED
        BY <3>1, <3>2, <3>3, KindAssumption DEF CacheKinds
    <2>4. QED
      BY <1>4, <2>3 DEF Accepts, AcceptedAs, Vouched
  <1>7. QED
    BY <1>2, <1>3, <1>6

\* The session handlers, the cache and the worker implement the abstract life
\* cycle: no token is issued twice, and a refused token stays refused.
THEOREM Refinement == Spec => ImplementsLifecycle
  <1>1. Init => Lifecycle!Init
    BY DEF Init, Lifecycle!Init, TokenStatus
  <1>2. ASSUME IInv, [Next]_vars
        PROVE  [Lifecycle!Next]_TokenStatus
    <2>. DEFINE st == TokenStatus
                S == {t \in held : Accepts(t) /\ ~Accepts(t)'}
    <2>1. \A t \in Tokens : st[t] = IF t \notin held THEN "unissued"
                                    ELSE IF Accepts(t) THEN "accepted" ELSE "refused"
      BY DEF TokenStatus
    <2>2. \A t \in Tokens : st'[t] = IF t \notin held' THEN "unissued"
                                    ELSE IF Accepts(t)' THEN "accepted" ELSE "refused"
      BY DEF TokenStatus
    <2>3. st' = [t \in Tokens |-> st'[t]] /\ st = [t \in Tokens |-> st[t]]
      BY DEF TokenStatus
    <2>4. held \subseteq Tokens /\ held \subseteq held'
      BY <1>2, Monotone DEF IInv, TypeOK
    <2>5. CASE held' = held
      <3>1. st' = [t \in Tokens |-> IF t \in S THEN "refused" ELSE st[t]]
        BY <1>2, <2>1, <2>2, <2>3, <2>4, <2>5, RefusedForGood
      <3>2. S \in SUBSET {t \in Tokens : st[t] = "accepted"}
        BY <2>1, <2>4
      <3>3. QED
        BY <3>1, <3>2 DEF Lifecycle!Next, Lifecycle!Refuse
    <2>6. CASE held' # held
      <3>1. PICK n \in Tokens \ held :
              /\ held' = held \cup {n}
              /\ \A t \in held : Accepts(t)' <=> Accepts(t)
        BY <1>2, <2>6, ReturnAddsOne
      <3>2. st' = [st EXCEPT ![n] = st'[n]]
        BY <2>1, <2>2, <2>3, <2>4, <3>1
      <3>3. st[n] = "unissued" /\ st'[n] \in {"accepted", "refused"}
        BY <2>1, <2>2, <3>1
      <3>4. QED
        BY <3>2, <3>3 DEF Lifecycle!Next, Lifecycle!Issue, Lifecycle!Status
    <2>7. QED
      BY <2>5, <2>6
  <1>3. QED
    BY <1>1, <1>2, Inductive, PTL DEF ImplementsLifecycle, Lifecycle!Spec, Spec
================================================================================
