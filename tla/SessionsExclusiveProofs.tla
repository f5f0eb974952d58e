------------------------ MODULE SessionsExclusiveProofs ------------------------
(***************************************************************************)
(* CachedTokenBacked and ReturnedTokenIsLive, for clients that send one    *)
(* request per session at a time, with nothing failing and no session      *)
(* expiring (CarefulUse), and for any users, handlers, tokens and cache.   *)
(*                                                                         *)
(* The argument.  A row id is in the hands of one handler only (OneAtATime *)
(* and UniqueIds), so the row that a refresh writes is still the one that  *)
(* it read, and the row that a handler has written is still there when it  *)
(* stores its cache entry and returns its token (Backed).  A handler that  *)
(* takes a token's row away is, from that statement on, on its way to drop *)
(* the token's cache entry (CacheBacked).                                  *)
(***************************************************************************)
EXTENDS AuthSessionsProofs

\* One request per session at a time, no failing call, no restart, no direct use
\* of the repository, and no session old enough to expire.
CarefulUse ==
    /\ Exclusive
    /\ Env \subseteq {"evict", "deleteUser"}
    /\ MaxTime < SessionTTL

Live(r) == ~r.deleted

\* A handler has a session id in hand as soon as it knows the row, and no other
\* handler has the same.
OneAtATime ==
    \A p \in Procs :
        /\ proc[p].id <= sessionSeq
        /\ proc[p].pc \in {"idle", "insert"} <=> proc[p].id = 0
        /\ proc[p].id # 0 => \A q \in Procs \ {p} : proc[q].id # proc[p].id

UniqueIds == \A r, s \in sessions : r.id = s.id => r = s

NoneExpires ==
    /\ now <= MaxTime
    /\ \A r \in sessions : r.expiresAt > MaxTime
    /\ \A p \in Procs : proc[p].pc \in {"insert", "update"} => proc[p].expiresAt > MaxTime

\* Before its UPDATE a handler's row is the one it read; a Logout has no new token.
OwnRow ==
    \A p \in Procs :
        /\ proc[p].pc \in {"update", "softDelete"} =>
              \A r \in sessions : r.id = proc[p].id => r.tokenHash = hashToken(proc[p].token)
        /\ proc[p].pc = "softDelete" => proc[p].newToken = 0

\* Handler state h has its row, which is live; after its UPDATE the row carries the
\* new token.
HasRow(h) ==
    \E r \in sessions : /\ r.id = h.id /\ Live(r)
                        /\ h.pc # "update" => r.tokenHash = hashToken(h.newToken)
WithNewRow == {"update"} \cup InvalidatePCs \cup SetPCs
Backed ==
    \A p \in Procs :
        proc[p].pc \in WithNewRow /\ proc[p].newToken # 0 /\ proc[p].userID \in users
            => HasRow(proc[p])

\* The cache answers only for tokens of live rows and for those being dropped.
CacheBacked ==
    \A t \in Tokens : \A e \in Lookup(cache, ValidKey, hashToken(t)) :
        e.userID \in users =>
            \/ \E r \in sessions : r.tokenHash = hashToken(t) /\ Live(r)
            \/ BeingDropped(t)

EInv == OneAtATime /\ UniqueIds /\ NoneExpires /\ OwnRow /\ Backed /\ CacheBacked

-------------------------------------------------------------------------------
(* The steps.                                                                *)

\* No handler moves: the worker, a deletion, an eviction, the clock.
Others ==
    /\ UNCHANGED <<proc, held, owner, sessionSeq>>
    /\ sessions' \subseteq sessions /\ cache' \subseteq cache /\ users' \subseteq users
    /\ \A r \in sessions : Live(r) /\ r.userID \in users' => r \in sessions'
    /\ now' <= MaxTime

\* Handler p begins, as h.
Starts(p, h) ==
    /\ proc[p].pc = "idle"
    /\ UNCHANGED <<sessions, sessionSeq, users, cache, held>>
    /\ \/ h.pc = "insert" /\ h.id = 0 /\ h.expiresAt > MaxTime
       \/ /\ h.pc \in {"update", "softDelete"}
          /\ h.pc = "update" => h.expiresAt > MaxTime
          /\ h.pc = "softDelete" => h.newToken = 0
          /\ \E r \in sessions : /\ r.id = h.id /\ r.tokenHash = hashToken(h.token) /\ Live(r)
                                 /\ \A q \in Procs : proc[q].id # r.id

\* Handler p writes its row, which is the row of h's id and no other, and goes on
\* as h.
Writes(p, h) ==
    /\ proc[p].pc \in {"insert", "update", "softDelete"}
    /\ h.pc \in InvalidatePCs \cup SetPCs
    /\ UNCHANGED <<users, cache, held, owner>>
    /\ sessionSeq <= sessionSeq' /\ h.id <= sessionSeq'
    /\ h.id # 0 /\ \A q \in Procs \ {p} : proc[q].id # h.id
    /\ \A r : r.id # h.id => (r \in sessions' <=> r \in sessions)
    /\ \A r, t \in sessions' : r.id = h.id /\ t.id = h.id => r = t
    /\ \A r \in sessions' : r.id = h.id => r.expiresAt > MaxTime
    /\ \A r \in sessions : r.id = h.id => r.tokenHash = hashToken(h.token) /\ h.token \in Tokens
                                          /\ h.pc = "delSession1"
    /\ h.newToken # 0 /\ h.userID \in users =>
          \E r \in sessions' : r.id = h.id /\ r.tokenHash = hashToken(h.newToken) /\ Live(r)

\* Handler p makes a round trip to the cache, or finds its user gone, and goes on
\* as h or returns.
Proceeds(p, h) ==
    /\ proc[p].pc \in {"insert"} \cup InvalidatePCs \cup SetPCs
    /\ UNCHANGED <<sessions, sessionSeq, users, owner>>
    /\ \/ h = Idle
       \/ /\ h.pc \in InvalidatePCs \cup SetPCs
          /\ proc[p].pc # "insert"
          /\ h.id = proc[p].id /\ h.token = proc[p].token
          /\ h.newToken = proc[p].newToken /\ h.userID = proc[p].userID
    /\ \A e \in cache' : \/ e \in cache
                         \/ /\ proc[p].pc \in SetPCs
                            /\ e.tokenHash = hashToken(proc[p].newToken)
                            /\ e.userID = proc[p].userID
    /\ proc[p].pc \in {"delSession1", "delValid1"} =>
          \/ h.pc \in {"delSession1", "delValid1"} /\ h.token = proc[p].token
          \/ Lookup(cache', ValidKey, hashToken(proc[p].token)) = {}
    /\ \/ held' = held
       \/ proc[p].pc \in SetPCs /\ held' = held \cup {proc[p].newToken}

\* The steps around the handlers.
LEMMA OtherKinds ==
  ASSUME CarefulUse, IInv, EInv, UNCHANGED vars \/ OtherStep
  PROVE  Others /\ proc' = proc
<1>0. /\ MaxTime \in Nat /\ now \in Nat /\ now <= MaxTime
      /\ \A r \in sessions : r.expiresAt \in Nat /\ r.expiresAt > MaxTime
  BY TimeAssumption DEF IInv, TypeOK, EInv, NoneExpires, Rows, SessionRow
<1>1. CASE UNCHANGED vars
  BY <1>0, <1>1 DEF vars, storeVars, Others
<1>2. CASE CleanupSessions
  <2>1. \A r \in sessions : Live(r) => r \in sessions'
    BY <1>0, <1>2 DEF CleanupSessions, DeleteExpiredAndSoftDeleted, Live
  <2>2. sessions' \subseteq sessions
    BY <1>2 DEF CleanupSessions, DeleteExpiredAndSoftDeleted
  <2>. QED
    BY <1>0, <1>2, <2>1, <2>2 DEF CleanupSessions, Others
<1>3. ASSUME NEW u \in Users, DeleteUser(u)
      PROVE  Others /\ proc' = proc
  BY <1>0, <1>3 DEF DeleteUser, CascadeDeleteUser, Others
<1>4. CASE RepositoryCall
  BY <1>4 DEF RepositoryCall, CarefulUse
<1>5. ASSUME NEW e \in cache, Evict(e)
      PROVE  Others /\ proc' = proc
  BY <1>0, <1>5 DEF Evict, storeVars, Others
<1>6. CASE Tick
  BY <1>0, <1>6 DEF Tick, storeVars, CacheExpire, Others
<1>. QED
  BY <1>1, <1>2, <1>3, <1>4, <1>5, <1>6 DEF OtherStep

\* The first step of a handler.
LEMMA StartKinds ==
  ASSUME CarefulUse, IInv, EInv, NEW p \in Procs,
         \/ \E u \in Users : CreateSession(p, u)
         \/ \E t \in held : RefreshSession(p, t) \/ Logout(p, t)
  PROVE  \E h \in Handler : proc' = [proc EXCEPT ![p] = h] /\ Starts(p, h)
<1>0. MaxTime \in Nat /\ now \in Nat /\ now + SessionTTL \in Nat /\ now + SessionTTL > MaxTime
  BY TimeAssumption DEF IInv, TypeOK, CarefulUse
<1>1. ASSUME NEW u \in Users, CreateSession(p, u)
      PROVE  \E h \in Handler : proc' = [proc EXCEPT ![p] = h] /\ Starts(p, h)
  <2>. DEFINE h == [Idle EXCEPT !.pc = "insert", !.newToken = tokenSeq + 1, !.userID = u,
                                !.expiresAt = now + SessionTTL]
  <2>1. tokenSeq + 1 \in Tokens
    BY <1>1, GenerateTypes DEF CreateSession, IInv
  <2>2. h \in Handler /\ h.pc = "insert" /\ h.id = 0 /\ h.expiresAt = now + SessionTTL
    BY <1>0, <2>1 DEF Handler, Idle, PCs
  <2>3. /\ proc' = [proc EXCEPT ![p] = h] /\ proc[p].pc = "idle"
        /\ UNCHANGED <<sessions, sessionSeq, users, cache, held>>
    BY <1>1 DEF CreateSession, storeVars
  <2>. HIDE DEF h
  <2>. QED
    BY <1>0, <2>2, <2>3 DEF Starts
<1>2. ASSUME NEW t \in held, NEW r \in sessions, ReadSession(p, t, r)
      PROVE  /\ t \in Tokens /\ r.userID \in Users /\ r.id \in Nat \ {0}
             /\ proc[p].pc = "idle" /\ r.tokenHash = hashToken(t) /\ Live(r)
             /\ \A q \in Procs : proc[q].id # r.id
  BY <1>2 DEF ReadSession, GetByTokenHash, Live, CarefulUse, IInv, TypeOK, Rows, SessionRow
<1>3. ASSUME NEW t \in held, RefreshSession(p, t)
      PROVE  \E h \in Handler : proc' = [proc EXCEPT ![p] = h] /\ Starts(p, h)
  <2>1. PICK r \in sessions :
          /\ ReadSession(p, t, r)
          /\ GenerateToken(r.userID)
          /\ proc' = [proc EXCEPT ![p] = [pc |-> "update", token |-> t,
                                          newToken |-> tokenSeq + 1, id |-> r.id,
                                          userID |-> r.userID, expiresAt |-> now + SessionTTL]]
    BY <1>3 DEF RefreshSession
  <2>. DEFINE h == [pc |-> "update", token |-> t, newToken |-> tokenSeq + 1, id |-> r.id,
                    userID |-> r.userID, expiresAt |-> now + SessionTTL]
  <2>2. tokenSeq + 1 \in Tokens
    BY <1>2, <2>1, GenerateTypes DEF IInv
  <2>3. /\ h \in Handler /\ h.pc = "update" /\ h.token = t /\ h.id = r.id
        /\ h.expiresAt = now + SessionTTL
    BY <1>0, <1>2, <2>1, <2>2 DEF Handler, PCs
  <2>4. /\ proc' = [proc EXCEPT ![p] = h]
        /\ UNCHANGED <<sessions, sessionSeq, users, cache, held>>
    BY <1>3, <2>1 DEF RefreshSession, storeVars
  <2>. HIDE DEF h
  <2>5. r.id = h.id /\ r.tokenHash = hashToken(h.token) /\ Live(r)
    BY <1>2, <2>1, <2>3
  <2>6. proc[p].pc = "idle" /\ \A q \in Procs : proc[q].id # r.id
    BY <1>2, <2>1
  <2>. QED
    BY <1>0, <2>3, <2>4, <2>5, <2>6 DEF Starts
<1>4. ASSUME NEW t \in held, Logout(p, t)
      PROVE  \E h \in Handler : proc' = [proc EXCEPT ![p] = h] /\ Starts(p, h)
  <2>1. PICK r \in sessions :
          /\ ReadSession(p, t, r)
          /\ proc' = [proc EXCEPT ![p] = [Idle EXCEPT !.pc = "softDelete", !.token = t,
                                                      !.id = r.id, !.userID = r.userID]]
    BY <1>4 DEF Logout
  <2>. DEFINE h == [Idle EXCEPT !.pc = "softDelete", !.token = t, !.id = r.id,
                                !.userID = r.userID]
  <2>2. /\ h \in Handler /\ h.pc = "softDelete" /\ h.token = t /\ h.id = r.id /\ h.newToken = 0
    BY <1>2, <2>1 DEF Handler, PCs, Idle
  <2>3. /\ proc' = [proc EXCEPT ![p] = h]
        /\ UNCHANGED <<sessions, sessionSeq, users, cache, held>>
    BY <1>4, <2>1 DEF Logout, storeVars
  <2>. HIDE DEF h
  <2>. QED
    BY <1>2, <2>1, <2>2, <2>3 DEF Starts
<1>. QED
  BY <1>1, <1>3, <1>4

\* The INSERT of createSession, of a row with a new id.
LEMMA InsertKinds ==
  ASSUME CarefulUse, IInv, EInv, NEW p \in Procs, InsertSession(p), ~Abort(p)
  PROVE  \E h \in Handler : proc' = [proc EXCEPT ![p] = h] /\ Writes(p, h)
<1>. DEFINE h == [proc[p] EXCEPT !.pc = "setSession", !.id = sessionSeq + 1]
            n == [id |-> sessionSeq + 1, userID |-> proc[p].userID,
                  tokenHash |-> hashToken(proc[p].newToken),
                  expiresAt |-> proc[p].expiresAt, deleted |-> FALSE]
<1>1. /\ proc[p].pc = "insert" /\ proc[p] \in Handler /\ proc[p].expiresAt > MaxTime
      /\ sessionSeq \in Nat
      /\ \A q \in Procs : proc[q].id \in Nat /\ proc[q].id <= sessionSeq
      /\ \A r \in sessions : r.id \in Nat /\ r.id <= sessionSeq
  BY DEF InsertSession, IInv, TypeOK, Handler, EInv, OneAtATime, NoneExpires, RowUsers, Rows,
         SessionRow
<1>2. /\ sessionSeq' = sessionSeq + 1
      /\ sessions' = sessions \cup {n}
      /\ proc' = [proc EXCEPT ![p].pc = "setSession", ![p].id = sessionSeq + 1]
      /\ UNCHANGED <<users, cache, held, owner>>
  BY DEF InsertSession, Create
<1>3. proc' = [proc EXCEPT ![p] = h]
  BY <1>2 DEF IInv, TypeOK
<1>4. /\ h \in Handler /\ h.pc = "setSession" /\ h.id = sessionSeq + 1
      /\ h.newToken = proc[p].newToken
  <2>1. sessionSeq + 1 \in Nat /\ "setSession" \in PCs
    BY <1>1 DEF PCs, SetPCs
  <2>. QED
    BY <1>1, <2>1 DEF Handler
<1>5. /\ n.id = sessionSeq + 1 /\ n.tokenHash = hashToken(proc[p].newToken) /\ Live(n)
      /\ n.expiresAt = proc[p].expiresAt
  BY DEF Live
<1>. HIDE DEF h, n
<1>6. \A r \in sessions : r.id # h.id
  BY <1>1, <1>4
<1>7. \A q \in Procs : proc[q].id # h.id
  BY <1>1, <1>4
<1>8. \A r : r.id # h.id => (r \in sessions' <=> r \in sessions)
  BY <1>2, <1>4, <1>5
<1>9. \A r \in sessions' : r.id = h.id => r = n
  BY <1>2, <1>6
<1>10. sessionSeq <= sessionSeq' /\ h.id <= sessionSeq' /\ h.id # 0
  BY <1>1, <1>2, <1>4
<1>11. n \in sessions' /\ n.id = h.id /\ n.tokenHash = hashToken(h.newToken) /\ Live(n)
  BY <1>2, <1>4, <1>5
<1>12. Writes(p, h)
  BY <1>1, <1>2, <1>4, <1>5, <1>6, <1>7, <1>8, <1>9, <1>10, <1>11 DEF Writes, SetPCs
<1>. QED
  BY <1>3, <1>4, <1>12

\* The UPDATE of RefreshSession or of Logout, of the row that the handler read.
LEMMA UpdateKinds ==
  ASSUME CarefulUse, IInv, EInv, NEW p \in Procs, UpdateSession(p) \/ SoftDeleteSession(p)
  PROVE  \E h \in Handler : proc' = [proc EXCEPT ![p] = h] /\ Writes(p, h)
<1>. DEFINE h == [proc[p] EXCEPT !.pc = "delSession1"]
            n == RefreshedSession(proc[p])
<1>1. /\ proc[p].pc \in {"update", "softDelete"} /\ proc[p] \in Handler
      /\ proc[p].pc = "update" => proc[p].expiresAt > MaxTime
      /\ proc[p].id # 0 /\ \A q \in Procs \ {p} : proc[q].id # proc[p].id
      /\ proc[p].id <= sessionSeq /\ sessionSeq \in Nat
      /\ \A r \in sessions : r.id = proc[p].id => r.tokenHash = hashToken(proc[p].token)
      /\ proc[p].token \in Tokens
  <2>1. proc[p].pc \in {"update", "softDelete"}
    BY DEF UpdateSession, SoftDeleteSession
  <2>2. proc[p].token \in Tokens
    BY <2>1 DEF IInv, TypeOK, Handler, Shape, WellFormed
  <2>. QED
    BY <2>1, <2>2 DEF IInv, TypeOK, EInv, OneAtATime, NoneExpires, OwnRow
<1>2. /\ proc[p].pc = "update" => sessions' = Update(sessions, n)
      /\ proc[p].pc = "softDelete" => sessions' = SoftDelete(sessions, proc[p].id)
      /\ Goto(p, "delSession1") /\ UNCHANGED <<users, sessionSeq, cache, held, owner>>
  BY DEF UpdateSession, SoftDeleteSession, CarefulUse
<1>3. proc' = [proc EXCEPT ![p] = h]
  BY <1>2 DEF Goto, IInv, TypeOK
<1>4. /\ h \in Handler /\ h.pc = "delSession1" /\ h.id = proc[p].id /\ h.token = proc[p].token
      /\ h.newToken = proc[p].newToken /\ h.userID = proc[p].userID
  BY <1>1 DEF Handler, PCs, InvalidatePCs
<1>5. /\ n.id = proc[p].id /\ n.tokenHash = hashToken(proc[p].newToken) /\ Live(n)
      /\ n.expiresAt = proc[p].expiresAt
  BY DEF RefreshedSession, Live
<1>. HIDE DEF h, n
<1>6. ASSUME proc[p].pc = "update"
      PROVE  /\ \A r : r.id # h.id => (r \in sessions' <=> r \in sessions)
             /\ \A r \in sessions' : r.id = h.id => r = n
             /\ h.newToken # 0 /\ h.userID \in users => n \in sessions'
  <2>1. sessions' = {IF r.id = n.id THEN n ELSE r : r \in sessions}
    BY <1>2, <1>6 DEF Update
  <2>2. ASSUME h.newToken # 0, h.userID \in users
        PROVE  n \in sessions'
    <3>1. HasRow(proc[p])
      BY <1>4, <1>6, <2>2 DEF EInv, Backed, WithNewRow
    <3>. QED
      BY <1>5, <2>1, <3>1 DEF HasRow
  <2>. QED
    BY <1>4, <1>5, <2>1, <2>2
<1>7. ASSUME proc[p].pc = "softDelete"
      PROVE  /\ \A r : r.id # h.id => (r \in sessions' <=> r \in sessions)
             /\ \A r, t \in sessions' : r.id = h.id /\ t.id = h.id => r = t
             /\ \A r \in sessions' : r.id = h.id => r.expiresAt > MaxTime
  <2>1. sessions' = {IF r.id = h.id THEN [r EXCEPT !.deleted = TRUE] ELSE r : r \in sessions}
    BY <1>2, <1>4, <1>7 DEF SoftDelete
  <2>2. \A r \in sessions : LET d == [r EXCEPT !.deleted = TRUE]
                            IN  d.id = r.id /\ d.expiresAt = r.expiresAt
    BY DEF IInv, TypeOK, Rows, SessionRow
  <2>3. \A r \in sessions : r.expiresAt > MaxTime
    BY DEF EInv, NoneExpires
  <2>4. \A r, t \in sessions : r.id = t.id => r = t
    BY DEF EInv, UniqueIds
  <2>5. \A r \in sessions' : \E t \in sessions : /\ r.id = t.id /\ r.expiresAt = t.expiresAt
                                                 /\ r = IF t.id = h.id
                                                        THEN [t EXCEPT !.deleted = TRUE] ELSE t
    BY <2>1, <2>2
  <2>6. \A r : r.id # h.id => (r \in sessions' <=> r \in sessions)
    BY <2>1, <2>2
  <2>7. \A r, t \in sessions' : r.id = h.id /\ t.id = h.id => r = t
    <3>. SUFFICES ASSUME NEW r \in sessions', NEW t \in sessions', r.id = h.id, t.id = h.id
                  PROVE  r = t
      OBVIOUS
    <3>1. PICK s \in sessions : r.id = s.id /\ r = IF s.id = h.id
                                                   THEN [s EXCEPT !.deleted = TRUE] ELSE s
      BY <2>5
    <3>2. PICK u \in sessions : t.id = u.id /\ t = IF u.id = h.id
                                                   THEN [u EXCEPT !.deleted = TRUE] ELSE u
      BY <2>5
    <3>3. s = u
      BY <2>4, <3>1, <3>2
    <3>. QED
      BY <3>1, <3>2, <3>3
  <2>. QED
    BY <2>3, <2>5, <2>6, <2>7
<1>8. proc[p].pc = "softDelete" => h.newToken = 0
  BY <1>4 DEF EInv, OwnRow
<1>9. /\ \A r \in sessions : r.id = h.id => r.tokenHash = hashToken(h.token) /\ h.token \in Tokens
                                            /\ h.pc = "delSession1"
      /\ h.id # 0 /\ \A q \in Procs \ {p} : proc[q].id # h.id
      /\ sessionSeq <= sessionSeq' /\ h.id <= sessionSeq'
  BY <1>1, <1>2, <1>4
<1>10. Writes(p, h)
  <2>1. CASE proc[p].pc = "update"
    BY <1>1, <1>2, <1>4, <1>5, <1>6, <1>9, <2>1 DEF Writes, InvalidatePCs
  <2>2. CASE proc[p].pc = "softDelete"
    BY <1>1, <1>2, <1>4, <1>7, <1>8, <1>9, <2>2 DEF Writes, InvalidatePCs
  <2>. QED
    BY <1>1, <2>1, <2>2
<1>. QED
  BY <1>3, <1>4, <1>10

\* Handler p goes on to round trip c.
LEMMA GotoKind ==
  ASSUME IInv, NEW p \in Procs, NEW c \in PCs, Goto(p, c)
  PROVE  \E h \in Handler :
            /\ proc' = [proc EXCEPT ![p] = h] /\ h.pc = c
            /\ h.id = proc[p].id /\ h.token = proc[p].token
            /\ h.newToken = proc[p].newToken /\ h.userID = proc[p].userID
<1>. DEFINE h == [proc[p] EXCEPT !.pc = c]
<1>1. proc[p] \in Handler /\ proc' = [proc EXCEPT ![p] = h]
  BY DEF Goto, IInv, TypeOK
<1>2. /\ h \in Handler /\ h.pc = c /\ h.id = proc[p].id /\ h.token = proc[p].token
      /\ h.newToken = proc[p].newToken /\ h.userID = proc[p].userID
  BY <1>1 DEF Handler
<1>. QED
  BY <1>1, <1>2

\* Nothing of a token is left under a key that was deleted.
LEMMA DeleteLookup ==
  ASSUME NEW c, NEW k, NEW x
  PROVE  CacheDelete(c, k, x) \subseteq c /\ Lookup(CacheDelete(c, k, x), k, x) = {}
BY DEF CacheDelete, Lookup

\* The Sets after the row was written.
LEMMA SetKinds ==
  ASSUME CarefulUse, IInv, EInv, NEW p \in Procs, SetSession(p) \/ SetTokenValid(p)
  PROVE  \E h \in Handler : proc' = [proc EXCEPT ![p] = h] /\ Proceeds(p, h)
<1>1. /\ proc[p].pc \in SetPCs /\ proc[p].pc \notin {"insert", "delSession1", "delValid1"}
      /\ UNCHANGED <<sessions, sessionSeq, users, owner>>
  BY DEF SetSession, SetTokenValid, SetPCs, storeVars
<1>2. ASSUME NEW e \in cache', e \notin cache
      PROVE  e.tokenHash = hashToken(proc[p].newToken) /\ e.userID = proc[p].userID
  BY <1>2 DEF SetSession, SetTokenValid, CacheSet, CacheDelete
<1>3. CASE ReturnToken(p)
  <2>1. /\ proc' = [proc EXCEPT ![p] = Idle] /\ Idle \in Handler
        /\ held' = held \cup {proc[p].newToken}
    BY <1>3, HandlerTypes DEF ReturnToken, Abort
  <2>2. Proceeds(p, Idle)
    BY <1>1, <1>2, <2>1 DEF Proceeds
  <2>. QED
    BY <2>1, <2>2
<1>4. CASE Goto(p, "setValid") /\ UNCHANGED held
  <2>1. "setValid" \in PCs /\ "setValid" \in InvalidatePCs \cup SetPCs
    BY DEF PCs, SetPCs
  <2>2. PICK h \in Handler :
            /\ proc' = [proc EXCEPT ![p] = h] /\ h.pc = "setValid"
            /\ h.id = proc[p].id /\ h.token = proc[p].token
            /\ h.newToken = proc[p].newToken /\ h.userID = proc[p].userID
    BY <1>4, <2>1, GotoKind
  <2>3. Proceeds(p, h)
    BY <1>1, <1>2, <1>4, <2>1, <2>2 DEF Proceeds
  <2>. QED
    BY <2>2, <2>3
<1>. QED
  BY <1>3, <1>4 DEF SetSession, SetTokenValid

\* The Deletes after the row was written.
LEMMA InvalidateKinds ==
  ASSUME CarefulUse, IInv, EInv, NEW p \in Procs, InvalidateMemcached(p) \/ InvalidateLocal(p)
  PROVE  \E h \in Handler : proc' = [proc EXCEPT ![p] = h] /\ Proceeds(p, h)
<1>1. /\ proc[p].pc \in InvalidatePCs /\ proc[p].pc # "insert"
      /\ UNCHANGED <<sessions, sessionSeq, users, owner, held>>
  BY DEF InvalidateMemcached, InvalidateLocal, InvalidatePCs, storeVars
<1>2. cache' \subseteq cache
  BY DeleteLookup DEF InvalidateMemcached, InvalidateLocal, CarefulUse
<1>3. \/ proc[p].pc = "delSession1" /\ Goto(p, "delValid1")
      \/ /\ proc[p].pc = "delValid1" /\ Goto(p, "delSession2")
         /\ Lookup(cache', ValidKey, hashToken(proc[p].token)) = {}
      \/ proc[p].pc = "delSession2" /\ Goto(p, "delValid2")
      \/ proc[p].pc = "delValid2" /\ AfterInvalidate(p)
      \/ /\ proc[p].pc = "delSession1" /\ AfterInvalidate(p)
         /\ Lookup(cache', ValidKey, hashToken(proc[p].token)) = {}
  <2>1. CASE InvalidateLocal(p)
    BY <2>1, DeleteLookup DEF InvalidateLocal, ValidKey
  <2>2. CASE InvalidateMemcached(p)
    <3>1. /\ CacheKind = "memcached"
          /\ cache' = CacheDelete(cache, KeyOf(proc[p].pc), hashToken(proc[p].token))
          /\ \/ proc[p].pc # "delValid2" /\ Goto(p, NextPC(proc[p].pc))
             \/ proc[p].pc = "delValid2" /\ AfterInvalidate(p)
      BY <2>2 DEF InvalidateMemcached, CarefulUse
    <3>2. proc[p].pc = "delValid1" => Lookup(cache', ValidKey, hashToken(proc[p].token)) = {}
      BY <3>1, DeleteLookup DEF ValidKey, KeyOf
    <3>. QED
      BY <1>1, <3>1, <3>2 DEF NextPC, InvalidatePCs
  <2>. QED
    BY <2>1, <2>2
<1>4. ASSUME NEW c \in {"delValid1", "delSession2", "delValid2", "setSession"}, Goto(p, c),
             proc[p].pc \in {"delSession1", "delValid1"} =>
                c = "delValid1" \/ Lookup(cache', ValidKey, hashToken(proc[p].token)) = {}
      PROVE  \E h \in Handler : proc' = [proc EXCEPT ![p] = h] /\ Proceeds(p, h)
  <2>1. c \in PCs /\ c \in InvalidatePCs \cup SetPCs
    BY DEF PCs, InvalidatePCs, SetPCs
  <2>2. PICK h \in Handler :
            /\ proc' = [proc EXCEPT ![p] = h] /\ h.pc = c
            /\ h.id = proc[p].id /\ h.token = proc[p].token
            /\ h.newToken = proc[p].newToken /\ h.userID = proc[p].userID
    BY <1>4, <2>1, GotoKind
  <2>3. Proceeds(p, h)
    BY <1>1, <1>2, <1>4, <2>1, <2>2 DEF Proceeds
  <2>. QED
    BY <2>2, <2>3
<1>5. ASSUME Abort(p),
             proc[p].pc \in {"delSession1", "delValid1"} =>
                Lookup(cache', ValidKey, hashToken(proc[p].token)) = {}
      PROVE  \E h \in Handler : proc' = [proc EXCEPT ![p] = h] /\ Proceeds(p, h)
  <2>1. proc' = [proc EXCEPT ![p] = Idle] /\ Idle \in Handler
    BY <1>5, HandlerTypes DEF Abort
  <2>2. Proceeds(p, Idle)
    BY <1>1, <1>2, <1>5 DEF Proceeds
  <2>. QED
    BY <2>1, <2>2
<1>. QED
  BY <1>3, <1>4, <1>5 DEF AfterInvalidate

\* createSession returns because its user is gone.
LEMMA AbortKinds ==
  ASSUME CarefulUse, IInv, EInv, NEW p \in Procs, InsertSession(p), Abort(p)
  PROVE  \E h \in Handler : proc' = [proc EXCEPT ![p] = h] /\ Proceeds(p, h)
<1>1. proc' = [proc EXCEPT ![p] = Idle] /\ Idle \in Handler /\ Idle.pc = "idle"
  BY HandlerTypes DEF Abort, Idle
<1>2. /\ proc[p].pc = "insert" /\ UNCHANGED <<users, cache, held, owner>>
  BY DEF InsertSession
<1>3. proc'[p].pc = "idle"
  BY <1>1 DEF IInv, TypeOK
<1>4. UNCHANGED <<sessions, sessionSeq>>
  <2>1. ASSUME proc' = [proc EXCEPT ![p].pc = "setSession", ![p].id = sessionSeq + 1]
        PROVE  proc'[p].pc = "setSession"
    <3>1. proc \in [Procs -> Handler] /\ proc[p] \in Handler
      BY DEF IInv, TypeOK
    <3>2. proc'[p] = [proc[p] EXCEPT !.pc = "setSession", !.id = sessionSeq + 1]
      BY <2>1, <3>1
    <3>. QED
      BY <3>1, <3>2 DEF Handler
  <2>. QED
    BY <1>3, <2>1 DEF InsertSession
<1>5. Proceeds(p, Idle)
  BY <1>2, <1>4 DEF Proceeds
<1>. QED
  BY <1>1, <1>5

\* How a step may change the rows, the entries and the handlers.
LEMMA CarefulKinds ==
  ASSUME CarefulUse, IInv, EInv, [Next]_vars
  PROVE  \/ Others
         \/ \E p \in Procs, h \in Handler :
               /\ proc' = [proc EXCEPT ![p] = h] /\ now' = now
               /\ Starts(p, h) \/ Writes(p, h) \/ Proceeds(p, h)
<1>1. ~Restart
  BY DEF Restart, CarefulUse
<1>2. ASSUME NEW p \in Procs, HandlerStep(p)
      PROVE  now' = now
  BY <1>2 DEF HandlerStep, CreateSession, InsertSession, SetSession, SetTokenValid,
              RefreshSession, UpdateSession, Logout, SoftDeleteSession, InvalidateMemcached,
              InvalidateLocal
<1>3. ASSUME NEW p \in Procs, HandlerStep(p)
      PROVE  \E h \in Handler : /\ proc' = [proc EXCEPT ![p] = h]
                                /\ Starts(p, h) \/ Writes(p, h) \/ Proceeds(p, h)
  <2>1. CASE \/ \E u \in Users : CreateSession(p, u)
             \/ \E t \in held : RefreshSession(p, t)
             \/ \E t \in held : Logout(p, t)
    BY <2>1, StartKinds
  <2>2. CASE InsertSession(p)
    BY <2>2, InsertKinds, AbortKinds
  <2>3. CASE UpdateSession(p) \/ SoftDeleteSession(p)
    BY <2>3, UpdateKinds
  <2>4. CASE SetSession(p) \/ SetTokenValid(p)
    BY <2>4, SetKinds
  <2>5. CASE InvalidateMemcached(p) \/ InvalidateLocal(p)
    BY <2>5, InvalidateKinds
  <2>. QED
    BY <1>3, <2>1, <2>2, <2>3, <2>4, <2>5 DEF HandlerStep
<1>. QED
  BY <1>1, <1>2, <1>3, OtherKinds DEF Next

-------------------------------------------------------------------------------
(* The invariant.                                                            *)

\* What the step of one handler leaves of the others.
LEMMA OneMoves ==
  ASSUME IInv, NEW p \in Procs, NEW h, proc' = [proc EXCEPT ![p] = h]
  PROVE  \A q \in Procs : proc'[q] = IF q = p THEN h ELSE proc[q]
BY DEF IInv, TypeOK

\* Ids are kept in one hand.
LEMMA OneAtATimeStep ==
  ASSUME CarefulUse, IInv, EInv, [Next]_vars
  PROVE  OneAtATime'
<1>0. /\ sessionSeq \in Nat /\ sessionSeq' \in Nat
      /\ \A q \in Procs : proc[q].id \in Nat
      /\ \A r \in sessions : r.id \in Nat /\ r.id # 0 /\ r.id <= sessionSeq
  BY TypeStep DEF IInv, TypeOK, Handler, Rows, SessionRow, RowUsers
<1>1. CASE Others
  BY <1>1 DEF Others, EInv, OneAtATime
<1>2. ASSUME NEW p \in Procs, NEW h \in Handler, proc' = [proc EXCEPT ![p] = h],
             h.id <= sessionSeq', sessionSeq <= sessionSeq',
             h.pc \in {"idle", "insert"} <=> h.id = 0,
             h.id # 0 => \A q \in Procs \ {p} : proc[q].id # h.id
      PROVE  OneAtATime'
  <2>1. \A q \in Procs : proc'[q] = IF q = p THEN h ELSE proc[q]
    BY <1>2, OneMoves
  <2>. QED
    BY <1>0, <1>2, <2>1 DEF EInv, OneAtATime
<1>3. ASSUME NEW p \in Procs, NEW h \in Handler, proc' = [proc EXCEPT ![p] = h], Starts(p, h)
      PROVE  OneAtATime'
  <2>1. sessionSeq' = sessionSeq
    BY <1>3 DEF Starts
  <2>2. CASE h.pc = "insert" /\ h.id = 0
    <3>1. /\ h.id <= sessionSeq' /\ sessionSeq <= sessionSeq'
          /\ h.pc \in {"idle", "insert"} <=> h.id = 0
          /\ h.id # 0 => \A q \in Procs \ {p} : proc[q].id # h.id
      BY <1>0, <2>1, <2>2
    <3>. QED
      BY <1>2, <1>3, <3>1
  <2>3. CASE h.pc \in {"update", "softDelete"} /\ \E r \in sessions :
                r.id = h.id /\ \A q \in Procs : proc[q].id # r.id
    <3>1. /\ h.id <= sessionSeq' /\ sessionSeq <= sessionSeq'
          /\ h.pc \in {"idle", "insert"} <=> h.id = 0
          /\ h.id # 0 => \A q \in Procs \ {p} : proc[q].id # h.id
      BY <1>0, <2>1, <2>3
    <3>. QED
      BY <1>2, <1>3, <3>1
  <2>. QED
    BY <1>3, <2>2, <2>3 DEF Starts
<1>4. ASSUME NEW p \in Procs, NEW h \in Handler, proc' = [proc EXCEPT ![p] = h], Writes(p, h)
      PROVE  OneAtATime'
  BY <1>2, <1>4 DEF Writes, InvalidatePCs, SetPCs
<1>5. ASSUME NEW p \in Procs, NEW h \in Handler, proc' = [proc EXCEPT ![p] = h], Proceeds(p, h)
      PROVE  OneAtATime'
  <2>1. sessionSeq' = sessionSeq /\ sessionSeq <= sessionSeq
    BY <1>0, <1>5 DEF Proceeds
  <2>2. CASE h = Idle
    <3>1. h.pc = "idle" /\ h.id = 0
      BY <2>2 DEF Idle
    <3>2. /\ h.id <= sessionSeq' /\ sessionSeq <= sessionSeq'
          /\ h.pc \in {"idle", "insert"} <=> h.id = 0
          /\ h.id # 0 => \A q \in Procs \ {p} : proc[q].id # h.id
      BY <1>0, <2>1, <3>1
    <3>. QED
      BY <1>2, <1>5, <3>2
  <2>3. CASE h # Idle
    BY <1>2, <1>5, <2>1, <2>3 DEF Proceeds, EInv, OneAtATime, InvalidatePCs, SetPCs
  <2>. QED
    BY <2>2, <2>3
<1>. QED
  BY <1>1, <1>3, <1>4, <1>5, CarefulKinds

\* Ids stay unique, and nothing comes near its expiry.
LEMMA RowsStep ==
  ASSUME CarefulUse, IInv, EInv, [Next]_vars
  PROVE  UniqueIds' /\ NoneExpires'
<1>1. CASE Others
  BY <1>1 DEF Others, EInv, UniqueIds, NoneExpires
<1>2. ASSUME NEW p \in Procs, NEW h \in Handler, proc' = [proc EXCEPT ![p] = h], now' = now,
             Starts(p, h) \/ Writes(p, h) \/ Proceeds(p, h)
      PROVE  UniqueIds' /\ NoneExpires'
  <2>1. \A q \in Procs : proc'[q] = IF q = p THEN h ELSE proc[q]
    BY <1>2, OneMoves
  <2>2. h.pc \in {"insert", "update"} => h.expiresAt > MaxTime
    BY <1>2 DEF Starts, Writes, Proceeds, InvalidatePCs, SetPCs, Idle
  <2>3. CASE UNCHANGED sessions
    BY <1>2, <2>1, <2>2, <2>3 DEF EInv, UniqueIds, NoneExpires
  <2>4. CASE Writes(p, h)
    <3>1. /\ \A r \in sessions' : r \in sessions \/ r.id = h.id
          /\ \A r, s \in sessions' : r.id = h.id /\ s.id = h.id => r = s
          /\ \A r \in sessions' : r.id = h.id => r.expiresAt > MaxTime
          /\ \A r \in sessions' : r.id # h.id => r \in sessions
      BY <2>4 DEF Writes
    <3>2. UniqueIds'
      BY <3>1 DEF EInv, UniqueIds
    <3>3. NoneExpires'
      BY <1>2, <2>1, <2>2, <3>1 DEF EInv, NoneExpires
    <3>. QED
      BY <3>2, <3>3
  <2>. QED
    BY <1>2, <2>3, <2>4 DEF Starts, Proceeds
<1>. QED
  BY <1>1, <1>2, CarefulKinds

\* A handler's row stays the one it read.
LEMMA OwnRowStep ==
  ASSUME CarefulUse, IInv, EInv, [Next]_vars
  PROVE  OwnRow'
<1>1. CASE Others
  BY <1>1 DEF Others, EInv, OwnRow
<1>2. ASSUME NEW p \in Procs, NEW h \in Handler, proc' = [proc EXCEPT ![p] = h],
             Starts(p, h) \/ Writes(p, h) \/ Proceeds(p, h)
      PROVE  OwnRow'
  <2>1. \A q \in Procs : proc'[q] = IF q = p THEN h ELSE proc[q]
    BY <1>2, OneMoves
  <2>2. ASSUME h.pc \in {"update", "softDelete"}
        PROVE  /\ \A r \in sessions' : r.id = h.id => r.tokenHash = hashToken(h.token)
               /\ h.pc = "softDelete" => h.newToken = 0
    <3>1. Starts(p, h)
      BY <1>2, <2>2 DEF Writes, Proceeds, InvalidatePCs, SetPCs, Idle
    <3>. QED
      BY <2>2, <3>1 DEF Starts, EInv, UniqueIds
  <2>3. ASSUME NEW q \in Procs \ {p}, proc[q].pc \in {"update", "softDelete"}
        PROVE  \A r \in sessions' : r.id = proc[q].id => r.tokenHash = hashToken(proc[q].token)
    <3>1. CASE UNCHANGED sessions
      BY <2>3, <3>1 DEF EInv, OwnRow
    <3>2. CASE Writes(p, h)
      BY <2>3, <3>2 DEF Writes, EInv, OwnRow
    <3>. QED
      BY <1>2, <3>1, <3>2 DEF Starts, Proceeds
  <2>. QED
    BY <2>1, <2>2, <2>3 DEF EInv, OwnRow
<1>. QED
  BY <1>1, <1>2, CarefulKinds

\* A handler keeps its row while its user is there.
LEMMA BackedStep ==
  ASSUME CarefulUse, IInv, EInv, [Next]_vars
  PROVE  Backed'
<1>1. ASSUME Others, NEW p \in Procs, proc[p].pc \in WithNewRow, proc[p].newToken # 0,
             proc[p].userID \in users'
      PROVE  HasRow(proc[p])'
  <2>1. proc[p].userID \in users
    BY <1>1 DEF Others
  <2>2. PICK r \in sessions : /\ r.id = proc[p].id /\ Live(r)
                              /\ proc[p].pc # "update" => r.tokenHash = hashToken(proc[p].newToken)
    BY <1>1, <2>1 DEF EInv, Backed, HasRow
  <2>3. r.userID = proc[p].userID
    <3>1. CASE proc[p].pc = "update"
      BY <2>2, <3>1 DEF IInv, RowUsers
    <3>2. CASE proc[p].pc # "update"
      <4>1. proc[p].newToken \in Tokens
        BY <1>1 DEF IInv, TypeOK, Handler
      <4>. QED
        BY <1>1, <2>2, <3>2, <4>1 DEF IInv, Owned, RowsOf
    <3>. QED
      BY <3>1, <3>2
  <2>4. r \in sessions' /\ proc' = proc
    BY <1>1, <2>2, <2>3 DEF Others
  <2>. QED
    BY <2>2, <2>4 DEF HasRow
<1>2. CASE Others
  BY <1>1, <1>2 DEF Others, Backed
<1>3. ASSUME NEW p \in Procs, NEW h \in Handler, proc' = [proc EXCEPT ![p] = h],
             Starts(p, h) \/ Writes(p, h) \/ Proceeds(p, h)
      PROVE  Backed'
  <2>1. \A q \in Procs : proc'[q] = IF q = p THEN h ELSE proc[q]
    BY <1>3, OneMoves
  <2>2. users' = users
    BY <1>3 DEF Starts, Writes, Proceeds
  <2>3. ASSUME h.pc \in WithNewRow, h.newToken # 0, h.userID \in users
        PROVE  \E r \in sessions' : /\ r.id = h.id /\ Live(r)
                                    /\ h.pc # "update" => r.tokenHash = hashToken(h.newToken)
    <3>1. CASE Starts(p, h)
      BY <2>3, <3>1 DEF Starts, WithNewRow, InvalidatePCs, SetPCs
    <3>2. CASE Writes(p, h)
      BY <2>3, <3>2 DEF Writes
    <3>3. CASE Proceeds(p, h)
      <4>1. h # Idle
        BY <2>3 DEF WithNewRow, InvalidatePCs, SetPCs, Idle
      <4>2. /\ h.pc \in InvalidatePCs \cup SetPCs /\ proc[p].pc \in InvalidatePCs \cup SetPCs
            /\ h.id = proc[p].id /\ h.newToken = proc[p].newToken /\ h.userID = proc[p].userID
            /\ UNCHANGED sessions
        BY <3>3, <4>1 DEF Proceeds
      <4>3. HasRow(proc[p]) /\ proc[p].pc # "update"
        BY <2>3, <4>2 DEF EInv, Backed, WithNewRow, InvalidatePCs, SetPCs
      <4>. QED
        BY <4>2, <4>3 DEF HasRow
    <3>. QED
      BY <1>3, <3>1, <3>2, <3>3
  <2>4. ASSUME NEW q \in Procs \ {p}, proc[q].pc \in WithNewRow, proc[q].newToken # 0,
               proc[q].userID \in users
        PROVE  \E r \in sessions' :
                  /\ r.id = proc[q].id /\ Live(r)
                  /\ proc[q].pc # "update" => r.tokenHash = hashToken(proc[q].newToken)
    <3>1. PICK r \in sessions :
                  /\ r.id = proc[q].id /\ Live(r)
                  /\ proc[q].pc # "update" => r.tokenHash = hashToken(proc[q].newToken)
      BY <2>4 DEF EInv, Backed, HasRow
    <3>2. r \in sessions'
      BY <1>3, <3>1 DEF Starts, Writes, Proceeds
    <3>. QED
      BY <3>1, <3>2
  <2>. QED
    BY <2>1, <2>2, <2>3, <2>4 DEF Backed, HasRow
<1>. QED
  BY <1>2, <1>3, CarefulKinds

\* The cache keeps answering only for live rows and for tokens being dropped.
LEMMA CacheBackedStep ==
  ASSUME CarefulUse, IInv, EInv, [Next]_vars
  PROVE  CacheBacked'
<1>. SUFFICES ASSUME NEW t \in Tokens, NEW e \in cache', e.key = ValidKey,
                     e.tokenHash = hashToken(t), e.userID \in users'
              PROVE  \/ \E r \in sessions' : r.tokenHash = hashToken(t) /\ Live(r)
                     \/ BeingDropped(t)'
  BY DEF CacheBacked, Lookup, ValidKey
<1>1. ASSUME e \in cache, e.userID \in users
      PROVE  \/ \E r \in sessions : r.tokenHash = hashToken(t) /\ Live(r)
             \/ \E q \in Procs : proc[q].token = t /\ proc[q].pc \in {"delSession1", "delValid1"}
  BY <1>1 DEF EInv, CacheBacked, Lookup, BeingDropped
<1>2. CASE Others
  <2>1. e \in cache /\ e.userID \in users /\ proc' = proc
    BY <1>2 DEF Others
  <2>2. ASSUME NEW r \in sessions, r.tokenHash = hashToken(t), Live(r)
        PROVE  r \in sessions'
    <3>1. r.userID = owner[t] /\ e.userID = owner[t]
      BY <2>1, <2>2 DEF IInv, Owned, RowsOf
    <3>. QED
      BY <1>2, <2>2, <3>1 DEF Others
  <2>. QED
    BY <1>1, <2>1, <2>2 DEF BeingDropped
<1>3. ASSUME NEW p \in Procs, NEW h \in Handler, proc' = [proc EXCEPT ![p] = h], Starts(p, h)
      PROVE  \/ \E r \in sessions' : r.tokenHash = hashToken(t) /\ Live(r)
             \/ BeingDropped(t)'
  <2>1. \A q \in Procs : proc'[q] = IF q = p THEN h ELSE proc[q]
    BY <1>3, OneMoves
  <2>2. UNCHANGED <<sessions, cache, users>> /\ proc[p].pc = "idle"
    BY <1>3 DEF Starts
  <2>. QED
    BY <1>1, <2>1, <2>2 DEF BeingDropped
<1>4. ASSUME NEW p \in Procs, NEW h \in Handler, proc' = [proc EXCEPT ![p] = h], Writes(p, h)
      PROVE  \/ \E r \in sessions' : r.tokenHash = hashToken(t) /\ Live(r)
             \/ BeingDropped(t)'
  <2>1. \A q \in Procs : proc'[q] = IF q = p THEN h ELSE proc[q]
    BY <1>4, OneMoves
  <2>2. UNCHANGED <<cache, users>> /\ proc[p].pc \in {"insert", "update", "softDelete"}
    BY <1>4 DEF Writes
  <2>3. ASSUME NEW r \in sessions, r.tokenHash = hashToken(t), Live(r)
        PROVE  r \in sessions' \/ BeingDropped(t)'
    <3>1. CASE r.id # h.id
      BY <1>4, <2>3, <3>1 DEF Writes
    <3>2. CASE r.id = h.id
      <4>1. hashToken(h.token) = hashToken(t) /\ h.token \in Tokens /\ h.pc = "delSession1"
        BY <1>4, <2>3, <3>2 DEF Writes
      <4>2. h.token = t
        BY <4>1, HashInjective
      <4>. QED
        BY <2>1, <4>1, <4>2 DEF BeingDropped
    <3>. QED
      BY <3>1, <3>2
  <2>. QED
    BY <1>1, <2>1, <2>2, <2>3 DEF BeingDropped
<1>5. ASSUME NEW p \in Procs, NEW h \in Handler, proc' = [proc EXCEPT ![p] = h], Proceeds(p, h)
      PROVE  \/ \E r \in sessions' : r.tokenHash = hashToken(t) /\ Live(r)
             \/ BeingDropped(t)'
  <2>1. \A q \in Procs : proc'[q] = IF q = p THEN h ELSE proc[q]
    BY <1>5, OneMoves
  <2>2. UNCHANGED <<sessions, users>>
    BY <1>5 DEF Proceeds
  <2>3. CASE e \notin cache
    <3>1. /\ proc[p].pc \in SetPCs /\ hashToken(proc[p].newToken) = hashToken(t)
          /\ e.userID = proc[p].userID
      BY <1>5, <2>3 DEF Proceeds
    <3>2. proc[p].newToken \in Tokens /\ proc[p].newToken # 0
      BY <3>1 DEF IInv, TypeOK, Handler, Shape, WellFormed
    <3>3. HasRow(proc[p]) /\ proc[p].pc # "update"
      BY <2>2, <3>1, <3>2 DEF EInv, Backed, WithNewRow, SetPCs
    <3>. QED
      BY <2>2, <3>1, <3>3 DEF HasRow
  <2>4. CASE e \in cache
    <3>1. ASSUME proc[p].token = t, proc[p].pc \in {"delSession1", "delValid1"}
          PROVE  BeingDropped(t)'
      <4>1. e \in Lookup(cache', ValidKey, hashToken(proc[p].token))
        BY <3>1 DEF Lookup
      <4>2. h.pc \in {"delSession1", "delValid1"} /\ h.token = t
        BY <1>5, <3>1, <4>1 DEF Proceeds
      <4>. QED
        BY <2>1, <4>2 DEF BeingDropped
    <3>2. ASSUME NEW q \in Procs \ {p}, proc[q].token = t,
                 proc[q].pc \in {"delSession1", "delValid1"}
          PROVE  BeingDropped(t)'
      BY <2>1, <3>2 DEF BeingDropped
    <3>. QED
      BY <1>1, <2>2, <2>4, <3>1, <3>2
  <2>. QED
    BY <2>3, <2>4
<1>. QED
  BY <1>2, <1>3, <1>4, <1>5, CarefulKinds

\* The initial state is careful.
LEMMA EInvInit ==
  ASSUME Init
  PROVE  EInv
<1>1. /\ now = 0 /\ sessions = {} /\ cache = {} /\ sessionSeq = 0
      /\ \A p \in Procs : proc[p] = Idle
  BY DEF Init
<1>2. Idle.pc = "idle" /\ Idle.id = 0 /\ Idle.newToken = 0
  BY DEF Idle
<1>3. MaxTime \in Nat
  BY TimeAssumption
<1>4. OneAtATime
  BY <1>1, <1>2 DEF OneAtATime
<1>5. UniqueIds /\ NoneExpires /\ OwnRow
  BY <1>1, <1>2, <1>3 DEF UniqueIds, NoneExpires, OwnRow
<1>6. Backed /\ CacheBacked
  BY <1>1, <1>2 DEF Backed, CacheBacked, Lookup
<1>. QED
  BY <1>4, <1>5, <1>6 DEF EInv

\* The invariant of careful use.
THEOREM CarefulInductive ==
  ASSUME CarefulUse
  PROVE  Spec => [](IInv /\ EInv)
<1>1. Init => IInv /\ EInv
  BY IInvInit, EInvInit
<1>2. IInv /\ EInv /\ [Next]_vars => (IInv /\ EInv)'
  <2>. SUFFICES ASSUME IInv, EInv, [Next]_vars
                PROVE  (IInv /\ EInv)'
    OBVIOUS
  <2>1. IInv'
    BY TypeStep, GeneratedStep, PrivateStep, OwnedStep, OneRowStep, RevokedStep,
       PurgedStep, RowUsersStep DEF IInv
  <2>2. EInv'
    BY OneAtATimeStep, RowsStep, OwnRowStep, BackedStep, CacheBackedStep DEF EInv
  <2>. QED
    BY <2>1, <2>2
<1>. QED
  BY <1>1, <1>2, PTL DEF Spec

\* With careful clients and no failures the cache vouches only for tokens of live
\* rows, or for a token whose handler is about to drop it.
THEOREM CacheVouchesForRows ==
  ASSUME CarefulUse
  PROVE  Spec => []CachedTokenBacked
<1>1. ASSUME IInv, EInv, NEW t \in held, Accepts(t)
      PROVE  \/ \E r \in sessions : r.tokenHash = hashToken(t) /\ Live(r)
             \/ BeingDropped(t)
  <2>1. t \in Tokens
    BY <1>1 DEF IInv, TypeOK
  <2>2. PICK u \in users : u \in Vouched(t)
    BY <1>1 DEF Accepts, AcceptedAs
  <2>3. CASE u \in IsTokenValid(sessions, hashToken(t), now)
    BY <2>3 DEF IsTokenValid, Live
  <2>4. ASSUME NEW e \in Lookup(cache, ValidKey, hashToken(t)), e.userID = u
        PROVE  \/ \E r \in sessions : r.tokenHash = hashToken(t) /\ Live(r)
               \/ BeingDropped(t)
    BY <1>1, <2>1, <2>2, <2>4 DEF EInv, CacheBacked
  <2>5. \/ u \in IsTokenValid(sessions, hashToken(t), now)
        \/ \E e \in Lookup(cache, ValidKey, hashToken(t)) : e.userID = u
    BY <2>2, KindAssumption
    DEF Vouched, CacheIsTokenValid, CacheKinds, MemcachedIsTokenValid, MemoryIsTokenValid,
        NoopIsTokenValid, ValidKey
  <2>. QED
    BY <2>3, <2>4, <2>5
<1>2. IInv /\ EInv => CachedTokenBacked
  BY <1>1 DEF CachedTokenBacked, Live
<1>. QED
  BY <1>2, CarefulInductive, PTL

\* With careful clients and no failures the token handed to a client is at that
\* moment in a live row, unless its user is gone.
THEOREM HandedOutLive ==
  ASSUME CarefulUse
  PROVE  Spec => ReturnedTokenIsLive
<1>. DEFINE Handed == \A t \in held' \ held : \/ IsTokenValid(sessions, hashToken(t), now)' # {}
                                              \/ owner[t] \notin users'
<1>1. ASSUME IInv, EInv, [Next]_vars
      PROVE  Handed
  <2>. SUFFICES ASSUME NEW t \in held' \ held, owner[t] \in users'
                PROVE  IsTokenValid(sessions, hashToken(t), now)' # {}
    OBVIOUS
  <2>1. PICK p \in Procs, h \in Handler : Proceeds(p, h) /\ now' = now
    BY <1>1, CarefulKinds DEF Others, Starts, Writes
  <2>2. /\ proc[p].pc \in SetPCs /\ t = proc[p].newToken
        /\ UNCHANGED <<sessions, users>>
    BY <2>1 DEF Proceeds
  <2>3. t \in Tokens /\ t # 0 /\ owner[t] = proc[p].userID
    BY <1>1, <2>2 DEF IInv, TypeOK, Handler, Shape, WellFormed, Owned
  <2>4. HasRow(proc[p]) /\ proc[p].pc # "update"
    BY <1>1, <2>2, <2>3 DEF EInv, Backed, WithNewRow, SetPCs
  <2>5. PICK r \in sessions : r.tokenHash = hashToken(t) /\ Live(r)
    BY <2>2, <2>4 DEF HasRow
  <2>6. r.expiresAt > now
    <3>1. r.expiresAt \in Nat /\ now \in Nat /\ MaxTime \in Nat
      BY <1>1, TimeAssumption DEF IInv, TypeOK, Rows, SessionRow
    <3>. QED
      BY <1>1, <3>1 DEF EInv, NoneExpires
  <2>7. r.userID \in IsTokenValid(sessions, hashToken(t), now)
    BY <2>5, <2>6 DEF IsTokenValid, Live
  <2>8. IsTokenValid(sessions, hashToken(t), now)' = IsTokenValid(sessions, hashToken(t), now)
    BY <2>1, <2>2 DEF IsTokenValid
  <2>. QED
    BY <2>7, <2>8
<1>2. IInv /\ EInv /\ [Next]_vars => [Handed]_vars
  BY <1>1
<1>. QED
  BY <1>2, CarefulInductive, PTL DEF Spec, ReturnedTokenIsLive
================================================================================
