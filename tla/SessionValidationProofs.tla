------------------------ MODULE SessionValidationProofs ------------------------
(***************************************************************************)
(* The safety properties of SessionValidation for any number of users,     *)
(* handlers, requests and tokens, any cache and any subset of the faults.  *)
(*                                                                         *)
(* The argument.  To the handlers of AuthSessions the flights are readers: *)
(* every step is a step of AuthSessions or leaves its state alone, so its  *)
(* invariant holds underneath (Underneath).  What a flight reads of a      *)
(* token is then the token's owner, and of a purged token nothing; a       *)
(* flight keeps what it read, and both are facts that no later step undoes *)
(* (FlightsOwned), so a request may join whichever flight is in the air    *)
(* for its token (RequestsOwned).                                          *)
(***************************************************************************)
EXTENDS SessionValidation, AuthSessionsProofs

\* A flight f for token t: it is about a token some client holds and about
\* nobody but its owner; if it started after the token was purged, it has not
\* got as far as asking for a user.
Sound(t, f) ==
    /\ f.pc # "none" => t \in held
    /\ f.pc # "done" => f.answer = "none"
    /\ f.pc = "user" \/ f.answer = "valid" => f.userID = owner[t]
    /\ f.late => t \in purged /\ f.pc # "user" /\ f.answer # "valid"

FlightsOwned == \A t \in Tokens : Sound(t, flight[t])

\* A request r: it has a token some client holds, and its answer names the owner.
Rightful(r) ==
    /\ r.pc = "validate" => r.token # 0
    /\ r.token # 0 => r.token \in held
    /\ r.answer = "valid" /\ r.token # 0 => r.userID = owner[r.token]

RequestsOwned == \A q \in Requests : Rightful(request[q])

VInv == /\ ValidationTypeOK
        /\ FlightsOwned
        /\ RequestsOwned

-------------------------------------------------------------------------------
(* What the flights and the requests see of AuthSessions.                    *)

\* Every step is a step of AuthSessions or leaves its variables alone.
LEMMA ServiceSteps == ValidationNext => [Next]_vars
  <1>1. ASSUME NEW q \in Requests, NEW t \in held, ValidateSession(q, t)
        PROVE  UNCHANGED vars
    BY <1>1 DEF ValidateSession
  <1>2. ASSUME NEW q \in Requests, NEW u \in Users, GetUser(q, u)
        PROVE  UNCHANGED vars
    BY <1>2 DEF GetUser
  <1>3. ASSUME NEW q \in Requests, Cancel(q)
        PROVE  UNCHANGED vars
    BY <1>3 DEF Cancel
  <1>4. ASSUME FlightStep
        PROVE  UNCHANGED vars
    BY <1>4 DEF FlightStep, FlightCache, FlightDB, FlightDeliver, UserRead, UserDeliver
  <1>5. RestartAll => Next
    BY DEF RestartAll, Next
  <1>6. ServiceStep => Next
    BY DEF ServiceStep, Next
  <1>7. QED
    BY <1>1, <1>2, <1>3, <1>4, <1>5, <1>6 DEF ValidationNext

\* The requests and the flights run on top of AuthSessions and never drive it
\* anywhere it would not go by itself: SessionValidation implements it.
THEOREM Underneath == ValidationSpec => Spec
  <1>1. ValidationInit => Init
    BY DEF ValidationInit
  <1>2. [ValidationNext]_<<vars, validationVars>> => [Next]_vars
    BY ServiceSteps
  <1>3. QED
    BY <1>1, <1>2, PTL DEF ValidationSpec, Spec

\* A token in a client's hands keeps its owner, and a purged one stays purged.
LEMMA Lasting ==
  ASSUME IInv, [Next]_vars
  PROVE  /\ held \subseteq held'
         /\ purged \subseteq purged'
         /\ \A t \in held : owner'[t] = owner[t]
  <1>1. held \subseteq held'
    BY Monotone
  <1>2. purged \subseteq purged'
    BY StepKinds DEF IInv, Quiet, AllDie, Purges
  <1>3. owner' = owner \/ \E u : owner' = [owner EXCEPT ![tokenSeq + 1] = u]
    BY StepKinds DEF IInv, Quiet, AllDie, Started, Moved, Ended, counters
  <1>4. \A t \in held : t \in Tokens /\ t # tokenSeq + 1
    BY DEF IInv, TypeOK, Generated, Tokens
  <1>5. owner = [t \in Tokens |-> owner[t]]
    BY DEF IInv, TypeOK
  <1>6. \A t \in held : owner'[t] = owner[t]
    BY <1>3, <1>4, <1>5
  <1>7. QED
    BY <1>1, <1>2, <1>6

\* The flight of a token is its own, and no other token's.
LEMMA OwnFlight == \A t \in Tokens : FlightOf(t) = t
  BY HashInjective DEF FlightOf

\* The cache and the database name nobody but a token's owner, and nobody at
\* all for a purged token; a cache that has nothing to say of it says so by an
\* error or by refusing it.
LEMMA Read ==
  ASSUME IInv, NEW t \in Tokens
  PROVE  /\ IsTokenValid(sessions, hashToken(t), now) \subseteq {owner[t]} \cap Users
         /\ CacheIsTokenValid(CacheKind, cache, hashToken(t), now).users
              \subseteq {owner[t]} \cap Users
         /\ t \in purged =>
              /\ IsTokenValid(sessions, hashToken(t), now) = {}
              /\ CacheIsTokenValid(CacheKind, cache, hashToken(t), now).users = {}
  <1>1. \A e \in cache : e.tokenHash = hashToken(t) => e.userID = owner[t] /\ e.userID \in Users
    BY DEF IInv, Owned, TypeOK, Entries, CacheEntry
  <1>2. \A r \in sessions : r.tokenHash = hashToken(t) => r.userID = owner[t] /\ r.userID \in Users
    BY DEF IInv, Owned, RowsOf, TypeOK, Rows, SessionRow
  <1>3. CacheIsTokenValid(CacheKind, cache, hashToken(t), now).users \subseteq {owner[t]} \cap Users
    BY <1>1, KindAssumption
    DEF CacheIsTokenValid, CacheKinds, MemcachedIsTokenValid, MemoryIsTokenValid,
        NoopIsTokenValid, Lookup
  <1>4. IsTokenValid(sessions, hashToken(t), now) \subseteq {owner[t]} \cap Users
    BY <1>2 DEF IsTokenValid
  <1>5. ASSUME t \in purged
        PROVE  IsTokenValid(sessions, hashToken(t), now) = {}
    BY <1>5 DEF IInv, Purged, LiveRowsOf, GetByTokenHash, IsTokenValid
  <1>6. ASSUME t \in purged
        PROVE  CacheIsTokenValid(CacheKind, cache, hashToken(t), now).users = {}
    BY <1>6, KindAssumption
    DEF IInv, Purged, ValidKey, CacheIsTokenValid, CacheKinds, MemcachedIsTokenValid,
        MemoryIsTokenValid, NoopIsTokenValid, Lookup
  <1>7. QED
    BY <1>3, <1>4, <1>5, <1>6

-------------------------------------------------------------------------------
(* The inductive invariant.                                                  *)

\* The invariant is about the tokens that clients hold: when the requests and
\* the flights stand still, a step of AuthSessions keeps it.
LEMMA StandingStill ==
  ASSUME VInv, IInv, [Next]_vars, UNCHANGED validationVars
  PROVE  VInv'
  <1>1. request' = request /\ flight' = flight /\ userFlight' = userFlight
    BY DEF validationVars
  <1>2. ValidationTypeOK'
    BY <1>1 DEF VInv, ValidationTypeOK
  <1>3. \A f : \A t \in Tokens : Sound(t, f) => Sound(t, f)'
    BY Lasting DEF Sound
  <1>4. \A r : Rightful(r) => Rightful(r)'
    BY Lasting DEF Rightful
  <1>5. FlightsOwned' /\ RequestsOwned'
    BY <1>1, <1>3, <1>4 DEF VInv, FlightsOwned, RequestsOwned
  <1>6. QED
    BY <1>2, <1>5 DEF VInv

\* A step of the requests or the flights keeps the invariant if what it leaves
\* of them is typed, sound and rightful.
LEMMA Kept ==
  ASSUME VInv, UNCHANGED vars,
         flight' \in [Tokens -> Flight], request' \in [Requests -> Request],
         userFlight' \in [Users -> {"none", "read", "found", "missing", "error"}],
         \A t \in Tokens : flight'[t] = flight[t] \/ Sound(t, flight'[t]),
         \A q \in Requests : request'[q] = request[q] \/ Rightful(request'[q])
  PROVE  VInv'
  <1>1. held' = held /\ owner' = owner /\ purged' = purged
    BY DEF vars
  <1>2. \A t \in Tokens : Sound(t, flight'[t])
    BY DEF VInv, FlightsOwned
  <1>3. \A q \in Requests : Rightful(request'[q])
    BY DEF VInv, RequestsOwned
  <1>4. FlightsOwned' /\ RequestsOwned'
    BY <1>1, <1>2, <1>3 DEF FlightsOwned, RequestsOwned, Sound, Rightful
  <1>5. QED
    BY <1>4 DEF VInv, ValidationTypeOK

\* A flight under way for token t goes on as f, together with what it asks of
\* the users table; nothing else moves.
LEMMA FlightMoves ==
  ASSUME VInv, UNCHANGED <<vars, request>>, NEW t \in Tokens, NEW f \in Flight, Sound(t, f),
         flight' = [flight EXCEPT ![t] = f],
         userFlight' \in [Users -> {"none", "read", "found", "missing", "error"}]
  PROVE  VInv'
  <1>1. flight \in [Tokens -> Flight] /\ request \in [Requests -> Request]
    BY DEF VInv, ValidationTypeOK
  <1>2. flight' \in [Tokens -> Flight] /\ request' = request /\ UNCHANGED vars
    BY <1>1
  <1>3. \A s \in Tokens : flight'[s] = flight[s] \/ Sound(s, flight'[s])
    BY <1>1
  <1>4. QED
    BY <1>1, <1>2, <1>3, Kept

\* The empty values are of their types.
LEMMA EmptyValues == NoFlight \in Flight /\ NewRequest \in Request /\ EndedRequest \in Request
  BY DEF NoFlight, Flight, NewRequest, EndedRequest, Request, Answers

\* Asking for a user keeps the users' flights typed.
LEMMA AskingTypes ==
  ASSUME ValidationTypeOK, NEW u \in Users, DoChanUser(u)
  PROVE  userFlight' \in [Users -> {"none", "read", "found", "missing", "error"}]
  BY DEF ValidationTypeOK, DoChanUser

\* ValidateSession keeps the invariant: the flight it starts is about its own token.
LEMMA ValidateSessionKeeps ==
  ASSUME VInv, IInv, NEW q \in Requests, NEW t \in held, ValidateSession(q, t)
  PROVE  VInv'
  <1>. DEFINE r == [NewRequest EXCEPT !.pc = "validate", !.token = t, !.late = t \in purged]
              f == [NoFlight EXCEPT !.pc = "cache", !.late = t \in purged]
  <1>1. t \in Tokens /\ FlightOf(t) = t /\ t # 0
    BY OwnFlight DEF IInv, TypeOK, Tokens
  <1>2. r \in Request /\ Rightful(r)
    <2>. DEFINE R(b) == [NewRequest EXCEPT !.pc = "validate", !.token = t, !.late = b]
    <2>1. \A b \in BOOLEAN : R(b) \in Request /\ Rightful(R(b))
      BY <1>1, EmptyValues DEF Rightful, NewRequest, Request
    <2>2. r = R(t \in purged)
      BY Zenon
    <2> HIDE DEF R
    <2>3. (t \in purged) \in BOOLEAN
      OBVIOUS
    <2>4. QED
      BY <2>1, <2>2, <2>3, Zenon
  <1>3. f \in Flight /\ Sound(t, f)
    <2>. DEFINE F(b) == [NoFlight EXCEPT !.pc = "cache", !.late = b]
    <2>1. \A b \in BOOLEAN : F(b) \in Flight /\ ((b => t \in purged) => Sound(t, F(b)))
      BY EmptyValues DEF Sound, NoFlight, Flight
    <2>2. f = F(t \in purged)
      BY Zenon
    <2> HIDE DEF F
    <2>3. (t \in purged) \in BOOLEAN
      OBVIOUS
    <2>4. QED
      BY <2>1, <2>2, <2>3, Zenon
  <1>4. UNCHANGED vars /\ userFlight' = userFlight /\ request' = [request EXCEPT ![q] = r]
    BY DEF ValidateSession
  <1>5. flight' = flight \/ flight' = [flight EXCEPT ![t] = f]
    BY <1>1 DEF ValidateSession, DoChan
  <1> HIDE DEF r, f
  <1>6. /\ flight \in [Tokens -> Flight] /\ request \in [Requests -> Request]
        /\ userFlight \in [Users -> {"none", "read", "found", "missing", "error"}]
    BY DEF VInv, ValidationTypeOK
  <1>7. /\ flight' \in [Tokens -> Flight]
        /\ \A s \in Tokens : flight'[s] = flight[s] \/ Sound(s, flight'[s])
    BY <1>1, <1>3, <1>5, <1>6
  <1>8. /\ request' \in [Requests -> Request]
        /\ \A p \in Requests : request'[p] = request[p] \/ Rightful(request'[p])
    BY <1>2, <1>4, <1>6
  <1>9. QED
    BY <1>4, <1>6, <1>7, <1>8, Kept

\* GetUser and Cancel keep the invariant: they leave the tokens' flights alone.
LEMMA CallerKeeps ==
  ASSUME VInv, NEW q \in Requests, (\E u \in Users : GetUser(q, u)) \/ Cancel(q)
  PROVE  VInv'
  <1>1. PICK r \in Request : Rightful(r) /\ request' = [request EXCEPT ![q] = r]
    <2>1. CASE Cancel(q)
      <3>1. Rightful(EndedRequest)
        BY DEF Rightful, EndedRequest, NewRequest
      <3>2. QED
        BY <2>1, <3>1, EmptyValues DEF Cancel
    <2>2. ASSUME NEW u \in Users, GetUser(q, u)
          PROVE  \E r \in Request : Rightful(r) /\ request' = [request EXCEPT ![q] = r]
      <3>. DEFINE r == [NewRequest EXCEPT !.pc = "getUser", !.userID = u]
      <3>1. r \in Request /\ Rightful(r)
        BY EmptyValues DEF Rightful, NewRequest, Request
      <3>2. request' = [request EXCEPT ![q] = r]
        BY <2>2 DEF GetUser
      <3> HIDE DEF r
      <3>3. QED
        BY <3>1, <3>2
    <2>3. QED
      BY <2>1, <2>2
  <1>2. UNCHANGED vars /\ flight' = flight
    BY DEF Cancel, GetUser
  <1>3. /\ flight \in [Tokens -> Flight] /\ request \in [Requests -> Request]
        /\ userFlight' \in [Users -> {"none", "read", "found", "missing", "error"}]
    BY AskingTypes DEF VInv, ValidationTypeOK, Cancel, GetUser
  <1>4. /\ request' \in [Requests -> Request]
        /\ \A p \in Requests : request'[p] = request[p] \/ Rightful(request'[p])
    BY <1>1, <1>3
  <1>5. QED
    BY <1>2, <1>3, <1>4, Kept

\* A flight that has found its token valid goes on to the user it found, who is
\* the owner; one whose token was purged before it started finds none.
LEMMA AskUserKeeps ==
  ASSUME VInv, UNCHANGED <<vars, request>>, NEW t \in Tokens, NEW u \in {owner[t]} \cap Users,
         flight[t].pc \in {"cache", "db"}, t \notin purged, AskUser(t, u)
  PROVE  VInv'
  <1>. DEFINE f == [flight[t] EXCEPT !.pc = "user", !.userID = u]
  <1>1. flight \in [Tokens -> Flight]
    BY DEF VInv, ValidationTypeOK
  <1>2. f \in Flight
    BY <1>1 DEF Flight
  <1>3. Sound(t, flight[t])
    BY DEF VInv, FlightsOwned
  <1>4. Sound(t, f)
    BY <1>1, <1>3 DEF Sound, Flight
  <1>5. flight' = [flight EXCEPT ![t] = f]
    BY <1>1 DEF AskUser
  <1>6. userFlight' \in [Users -> {"none", "read", "found", "missing", "error"}]
    BY AskingTypes DEF VInv, AskUser
  <1> HIDE DEF f
  <1>7. QED
    BY <1>2, <1>4, <1>5, <1>6, FlightMoves

\* A flight that ends in a refusal or an error names nobody.
LEMMA ConcludeKeeps ==
  ASSUME VInv, UNCHANGED <<vars, request>>, NEW t \in Tokens, NEW answer \in {"refused", "error"},
         flight[t].pc \in {"cache", "db"}, Conclude(t, answer)
  PROVE  VInv'
  <1>. DEFINE f == [flight[t] EXCEPT !.pc = "done", !.answer = answer]
  <1>1. flight \in [Tokens -> Flight]
    BY DEF VInv, ValidationTypeOK
  <1>2. f \in Flight
    BY <1>1 DEF Flight, Answers
  <1>3. Sound(t, flight[t])
    BY DEF VInv, FlightsOwned
  <1>4. Sound(t, f)
    BY <1>1, <1>3 DEF Sound, Flight
  <1>5. flight' = [flight EXCEPT ![t] = f]
    BY <1>1 DEF Conclude
  <1>6. userFlight' \in [Users -> {"none", "read", "found", "missing", "error"}]
    BY DEF VInv, ValidationTypeOK, Conclude
  <1> HIDE DEF f
  <1>7. QED
    BY <1>2, <1>4, <1>5, <1>6, FlightMoves

\* A flight's question to the cache keeps the invariant.
LEMMA FlightCacheKeeps ==
  ASSUME VInv, IInv, NEW t \in Tokens, FlightCache(t)
  PROVE  VInv'
  <1>. DEFINE answer == CacheIsTokenValid(CacheKind, cache, hashToken(t), now)
              f == [flight[t] EXCEPT !.pc = "db"]
  <1>1. flight[t].pc = "cache" /\ UNCHANGED <<vars, request>>
    BY DEF FlightCache
  <1>2. flight \in [Tokens -> Flight]
        /\ userFlight \in [Users -> {"none", "read", "found", "missing", "error"}]
    BY DEF VInv, ValidationTypeOK
  <1>3. CASE flight' = [flight EXCEPT ![t].pc = "db"] /\ UNCHANGED userFlight
    <2>1. f \in Flight
      BY <1>2 DEF Flight
    <2>2. Sound(t, flight[t])
      BY DEF VInv, FlightsOwned
    <2>3. Sound(t, f)
      BY <1>1, <1>2, <2>2 DEF Sound, Flight
    <2>4. flight' = [flight EXCEPT ![t] = f]
      BY <1>2, <1>3
    <2> HIDE DEF f
    <2>5. QED
      BY <1>1, <1>2, <1>3, <2>1, <2>3, <2>4, FlightMoves
  <1>4. CASE \E u \in answer.users : AskUser(t, u)
    BY <1>1, <1>4, Read, AskUserKeeps
  <1>5. CASE Conclude(t, "refused")
    BY <1>1, <1>5, ConcludeKeeps
  <1>6. QED
    BY <1>3, <1>4, <1>5 DEF FlightCache

\* A flight's question to the database keeps the invariant.
LEMMA FlightDBKeeps ==
  ASSUME VInv, IInv, NEW t \in Tokens, FlightDB(t)
  PROVE  VInv'
  <1>1. flight[t].pc = "db" /\ UNCHANGED <<vars, request>>
    BY DEF FlightDB
  <1>2. CASE \E u \in IsTokenValid(sessions, hashToken(t), now) : AskUser(t, u)
    BY <1>1, <1>2, Read, AskUserKeeps
  <1>3. CASE Conclude(t, "refused") \/ Conclude(t, "error")
    BY <1>1, <1>3, ConcludeKeeps
  <1>4. QED
    BY <1>2, <1>3 DEF FlightDB

\* The read of a user's row keeps the invariant.
LEMMA UserReadKeeps ==
  ASSUME VInv, NEW u \in Users, UserRead(u)
  PROVE  VInv'
  <1>1. UNCHANGED vars /\ request' = request /\ flight' = flight
    BY DEF UserRead
  <1>2. /\ flight \in [Tokens -> Flight] /\ request \in [Requests -> Request]
        /\ userFlight' \in [Users -> {"none", "read", "found", "missing", "error"}]
    BY DEF VInv, ValidationTypeOK, UserRead
  <1>3. QED
    BY <1>1, <1>2, Kept

\* Whoever waits for a user gets it: the flights of that user's own tokens.
LEMMA UserDeliverKeeps ==
  ASSUME VInv, NEW u \in Users, UserDeliver(u)
  PROVE  VInv'
  <1>. DEFINE answer == IF userFlight[u] = "found" THEN "valid" ELSE "error"
              g(t) == [flight[t] EXCEPT !.pc = "done", !.answer = answer]
  <1>1. /\ flight \in [Tokens -> Flight] /\ request \in [Requests -> Request]
        /\ userFlight \in [Users -> {"none", "read", "found", "missing", "error"}]
    BY DEF VInv, ValidationTypeOK
  <1>2. ASSUME NEW t \in Tokens, flight[t].pc = "user"
        PROVE  g(t) \in Flight /\ Sound(t, g(t))
    <2>1. flight[t] \in Flight /\ Sound(t, flight[t])
      BY <1>1 DEF VInv, FlightsOwned
    <2>2. answer \in Answers
      BY DEF Answers
    <2>3. g(t) \in Flight
      BY <2>1, <2>2 DEF Flight
    <2>4. Sound(t, g(t))
      BY <1>2, <2>1 DEF Sound, Flight
    <2>5. QED
      BY <2>3, <2>4
  <1>3. UNCHANGED vars /\ userFlight' = [userFlight EXCEPT ![u] = "none"]
    BY DEF UserDeliver
  <1>4. flight' = [t \in Tokens |-> IF flight[t].pc = "user" /\ flight[t].userID = u
                                    THEN g(t) ELSE flight[t]]
    BY DEF UserDeliver
  <1>5. request' = [q \in Requests |-> IF request[q].pc = "getUser" /\ request[q].userID = u
                                       THEN EndedRequest ELSE request[q]]
    BY DEF UserDeliver
  <1> HIDE DEF g
  <1>6. /\ flight' \in [Tokens -> Flight]
        /\ \A s \in Tokens : flight'[s] = flight[s] \/ Sound(s, flight'[s])
    BY <1>1, <1>2, <1>4
  <1>7. Rightful(EndedRequest)
    BY DEF Rightful, EndedRequest, NewRequest
  <1>8. /\ request' \in [Requests -> Request]
        /\ \A p \in Requests : request'[p] = request[p] \/ Rightful(request'[p])
    BY <1>1, <1>5, <1>7, EmptyValues
  <1>9. userFlight' \in [Users -> {"none", "read", "found", "missing", "error"}]
    BY <1>1, <1>3
  <1>10. QED
    BY <1>3, <1>6, <1>8, <1>9, Kept

\* A flight's result goes to requests for its own token.
LEMMA FlightDeliverKeeps ==
  ASSUME VInv, IInv, NEW t \in Tokens, FlightDeliver(t)
  PROVE  VInv'
  <1>. DEFINE g(q) == [request[q] EXCEPT !.pc = "ended", !.answer = flight[t].answer,
                                         !.userID = flight[t].userID]
  <1>1. /\ flight \in [Tokens -> Flight] /\ request \in [Requests -> Request]
        /\ userFlight \in [Users -> {"none", "read", "found", "missing", "error"}]
    BY DEF VInv, ValidationTypeOK
  <1>2. ASSUME NEW q \in Requests, request[q].pc = "validate", FlightOf(request[q].token) = t
        PROVE  g(q) \in Request /\ Rightful(g(q))
    <2>1. flight[t] \in Flight /\ Sound(t, flight[t])
      BY <1>1 DEF VInv, FlightsOwned
    <2>2. request[q] \in Request /\ Rightful(request[q])
      BY <1>1 DEF VInv, RequestsOwned
    <2>3. request[q].token = t
      BY <1>2, <2>2, OwnFlight DEF Request, Rightful
    <2>4. g(q) \in Request
      BY <2>1, <2>2 DEF Flight, Request
    <2>5. Rightful(g(q))
      BY <1>2, <2>1, <2>2, <2>3 DEF Sound, Rightful, Flight, Request
    <2>6. QED
      BY <2>4, <2>5
  <1>3. UNCHANGED vars /\ userFlight' = userFlight /\ flight' = [flight EXCEPT ![t] = NoFlight]
    BY DEF FlightDeliver
  <1>4. request' = [q \in Requests |-> IF request[q].pc = "validate"
                                          /\ FlightOf(request[q].token) = t
                                       THEN g(q) ELSE request[q]]
    BY DEF FlightDeliver
  <1> HIDE DEF g
  <1>5. Sound(t, NoFlight)
    BY DEF Sound, NoFlight
  <1>6. /\ flight' \in [Tokens -> Flight]
        /\ \A s \in Tokens : flight'[s] = flight[s] \/ Sound(s, flight'[s])
    BY <1>1, <1>3, <1>5, EmptyValues
  <1>7. /\ request' \in [Requests -> Request]
        /\ \A p \in Requests : request'[p] = request[p] \/ Rightful(request'[p])
    BY <1>1, <1>2, <1>4
  <1>8. QED
    BY <1>1, <1>3, <1>6, <1>7, Kept

\* Nothing is left to be wrong where flights and requests have been cleared.
LEMMA Cleared ==
  ASSUME flight = [t \in Tokens |-> NoFlight], userFlight = [u \in Users |-> "none"],
         NEW r \in {NewRequest, EndedRequest}, request = [q \in Requests |-> r]
  PROVE  VInv
  <1>1. ValidationTypeOK
    BY EmptyValues DEF ValidationTypeOK
  <1>2. \A t \in Tokens : Sound(t, NoFlight)
    BY DEF Sound, NoFlight
  <1>3. Rightful(r)
    BY DEF Rightful, EndedRequest, NewRequest
  <1>4. QED
    BY <1>1, <1>2, <1>3 DEF VInv, FlightsOwned, RequestsOwned

\* A restart leaves no flight and no waiting request.
LEMMA RestartKeeps == RestartAll => VInv'
  <1>. SUFFICES ASSUME RestartAll PROVE VInv'
    OBVIOUS
  <1>1. ValidationTypeOK'
    BY EmptyValues DEF RestartAll, ValidationTypeOK
  <1>2. FlightsOwned'
    BY DEF RestartAll, FlightsOwned, Sound, NoFlight
  <1>3. RequestsOwned'
    BY DEF RestartAll, RequestsOwned, Rightful, EndedRequest, NewRequest
  <1>4. QED
    BY <1>1, <1>2, <1>3 DEF VInv

\* The initial state satisfies the invariant.
LEMMA VInvInit == ValidationInit => VInv
  BY Cleared DEF ValidationInit

\* Every step preserves the invariant.
LEMMA VInvStep == VInv /\ IInv /\ [ValidationNext]_<<vars, validationVars>> => VInv'
  <1>. SUFFICES ASSUME VInv, IInv, [ValidationNext]_<<vars, validationVars>> PROVE VInv'
    OBVIOUS
  <1>1. CASE UNCHANGED <<vars, validationVars>>
    BY <1>1, StandingStill
  <1>2. CASE ServiceStep
    BY <1>2, StandingStill DEF ServiceStep, Next
  <1>3. CASE RestartAll
    BY <1>3, RestartKeeps
  <1>4. CASE FlightStep
    BY <1>4, FlightCacheKeeps, FlightDBKeeps, FlightDeliverKeeps, UserReadKeeps, UserDeliverKeeps
    DEF FlightStep
  <1>5. ASSUME NEW q \in Requests, NEW t \in held, ValidateSession(q, t)
        PROVE  VInv'
    BY <1>5, ValidateSessionKeeps
  <1>6. ASSUME NEW q \in Requests, (\E u \in Users : GetUser(q, u)) \/ Cancel(q)
        PROVE  VInv'
    BY <1>6, CallerKeeps
  <1>7. QED
    BY <1>1, <1>2, <1>3, <1>4, <1>5, <1>6 DEF ValidationNext

-------------------------------------------------------------------------------
(* The theorems.                                                             *)

\* The invariant of AuthSessions and that of the flights hold together.
THEOREM ValidationInductive == ValidationSpec => [](IInv /\ VInv)
  <1>1. ValidationSpec => []IInv
    BY Underneath, Inductive, PTL
  <1>2. QED
    BY <1>1, VInvInit, VInvStep, PTL DEF ValidationSpec

\* Requests, flights and the users' flights keep their types.
THEOREM ValidationTypes == ValidationSpec => []ValidationTypeOK
  <1>1. VInv => ValidationTypeOK
    BY DEF VInv
  <1>2. QED
    BY <1>1, ValidationInductive, PTL

\* However many requests share a flight, and whichever of them started it, each
\* is answered with the owner of the token it presented itself.
THEOREM SharedAnswers == ValidationSpec => []AnsweredAsOwner
  <1>1. VInv => AnsweredAsOwner
    BY DEF VInv, RequestsOwned, Rightful, AnsweredAsOwner
  <1>2. QED
    BY <1>1, ValidationInductive, PTL

\* Whatever interleaves with it, a flight that starts after its token was purged
\* refuses the token.
THEOREM LateFlights == ValidationSpec => []LateFlightRefuses
  <1>1. VInv => LateFlightRefuses
    BY DEF VInv, FlightsOwned, Sound, LateFlightRefuses
  <1>2. QED
    BY <1>1, ValidationInductive, PTL

\* The flights change nothing for the other readers of the cache and the
\* database: the token is still vouched for as its owner's alone.
THEOREM OwnerUnderFlights == ValidationSpec => []AcceptedAsOwner
  BY Underneath, OwnerSafety, PTL
================================================================================
