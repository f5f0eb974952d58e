--------------------------- MODULE SessionValidation ---------------------------
(***************************************************************************)
(* ValidateSession and GetUser, which AuthSessions sums up as one question *)
(* to the cache, the database and the users table, in full: concurrent     *)
(* callers share the work through a singleflight group, one flight per     *)
(* token hash and, inside it, one per user id.                             *)
(*                                                                         *)
(* A flight is a goroutine of its own.  Whoever asks for its key before    *)
(* the result is delivered joins it, and gets what it read however long    *)
(* ago.  The handlers, the worker and the environment of AuthSessions run  *)
(* in between.                                                             *)
(***************************************************************************)
EXTENDS AuthSessions

CONSTANT Requests    \* requests that validate a token or ask for a user, one call each

VARIABLES
    request,     \* where each request stands
    flight,      \* the flight under "auth:session:validate:<hash>", per token
    userFlight   \* the flight under "auth:user:get:<id>", per user

validationVars == <<request, flight, userFlight>>

Answers == {"none", "valid", "refused", "error"}

\* `late`: the token had been purged when the request came in.
Request == [pc: {"new", "validate", "getUser", "ended"}, token: Tokens \cup {0},
           userID: Users \cup {NoUser}, late: BOOLEAN, answer: Answers]
NewRequest == [pc |-> "new", token |-> 0, userID |-> NoUser, late |-> FALSE,
               answer |-> "none"]
EndedRequest == [NewRequest EXCEPT !.pc = "ended"]

\* `late`: the token had been purged when the flight started.
Flight == [pc: {"none", "cache", "db", "user", "done"}, userID: Users \cup {NoUser},
           late: BOOLEAN, answer: Answers]
NoFlight == [pc |-> "none", userID |-> NoUser, late |-> FALSE, answer |-> "none"]

ValidationTypeOK ==
    /\ request \in [Requests -> Request]
    /\ flight \in [Tokens -> Flight]
    /\ userFlight \in [Users -> {"none", "read", "found", "missing", "error"}]

ValidationInit ==
    /\ Init
    /\ request = [q \in Requests |-> NewRequest]
    /\ flight = [t \in Tokens |-> NoFlight]
    /\ userFlight = [u \in Users |-> "none"]

-------------------------------------------------------------------------------
\* Mutant of FlightOf: the singleflight key lacks the token hash.
FlightOf_Shared(t) == CHOOSE x \in Tokens : TRUE

\* The flight a token's requests share: singleflight keys by the token hash.
FlightOf(t) == CHOOSE x \in Tokens : hashToken(x) = hashToken(t)

\* DoChan: start the flight, or join the one in the air.
DoChan(t) ==
    flight' = IF flight[FlightOf(t)].pc # "none" THEN flight
              ELSE [flight EXCEPT ![FlightOf(t)] =
                      [NoFlight EXCEPT !.pc = "cache", !.late = t \in purged]]

\* ValidateSession with a token the client holds.
ValidateSession(q, t) ==
    /\ request[q].pc = "new"
    /\ request' = [request EXCEPT ![q] = [NewRequest EXCEPT !.pc = "validate", !.token = t,
                                                          !.late = t \in purged]]
    /\ DoChan(t)
    /\ UNCHANGED <<vars, userFlight>>

\* The call of GetUser, by a request or from within a flight.
DoChanUser(u) == userFlight' = [userFlight EXCEPT ![u] = IF @ = "none" THEN "read" ELSE @]

GetUser(q, u) ==
    /\ request[q].pc = "new"
    /\ request' = [request EXCEPT ![q] = [NewRequest EXCEPT !.pc = "getUser", !.userID = u]]
    /\ DoChanUser(u)
    /\ UNCHANGED <<vars, flight>>

\* Mutant of Cancel: the flight runs on the request's own context and dies with
\* it.
Cancel_Flight(q) ==
    /\ request[q].pc \in {"validate", "getUser"}
    /\ request' = [request EXCEPT ![q] = EndedRequest]
    /\ flight' = [t \in Tokens |-> IF request[q].pc = "validate" /\ FlightOf(request[q].token) = t
                                    THEN NoFlight ELSE flight[t]]
    /\ UNCHANGED <<vars, userFlight>>

\* A request's context is done before its answer is there.  The flight runs on
\* for whoever else joined it, even when this request started it: its context
\* comes from context.WithoutCancel.
Cancel(q) ==
    /\ request[q].pc \in {"validate", "getUser"}
    /\ request' = [request EXCEPT ![q] = EndedRequest]
    /\ UNCHANGED <<vars, flight, userFlight>>

-------------------------------------------------------------------------------
\* What a flight does with a valid token's user, or with a final answer.
AskUser(t, u) ==
    /\ flight' = [flight EXCEPT ![t].pc = "user", ![t].userID = u]
    /\ DoChanUser(u)

\* Mutant of Conclude: a refusal carries Go's zero user id.
Conclude_ZeroUser(t, answer) ==
    /\ flight' = [flight EXCEPT ![t].pc = "done", ![t].answer = answer, ![t].userID = 0]
    /\ UNCHANGED userFlight

Conclude(t, answer) ==
    /\ flight' = [flight EXCEPT ![t].pc = "done", ![t].answer = answer]
    /\ UNCHANGED userFlight

\* sessionCache.IsTokenValid; a failing Get counts as a miss.
FlightCache(t) ==
    LET answer == CacheIsTokenValid(CacheKind, cache, hashToken(t), now) IN
    /\ flight[t].pc = "cache"
    /\ \/ /\ answer.err \/ (CacheKind = "memcached" /\ "cacheError" \in Env)
          /\ flight' = [flight EXCEPT ![t].pc = "db"]
          /\ UNCHANGED userFlight
       \/ /\ ~answer.err
          /\ \E u \in answer.users : AskUser(t, u)
       \/ /\ ~answer.err /\ answer.users = {}
          /\ Conclude(t, "refused")
    /\ UNCHANGED <<vars, request>>

\* sessionRepo.IsTokenValid.
FlightDB(t) ==
    LET valid == IsTokenValid(sessions, hashToken(t), now) IN
    /\ flight[t].pc = "db"
    /\ \/ "dbError" \in Env /\ Conclude(t, "error")
       \/ valid = {} /\ Conclude(t, "refused")
       \/ \E u \in valid : AskUser(t, u)
    /\ UNCHANGED <<vars, request>>

\* userRepo.GetByID.
UserRead(u) ==
    /\ userFlight[u] = "read"
    /\ \/ u \in users /\ userFlight' = [userFlight EXCEPT ![u] = "found"]
       \/ u \notin users /\ userFlight' = [userFlight EXCEPT ![u] = "missing"]
       \/ "dbError" \in Env /\ userFlight' = [userFlight EXCEPT ![u] = "error"]
    /\ UNCHANGED <<vars, request, flight>>

\* A flight's result goes to everyone who joined it, and its key is forgotten.
UserDeliver(u) ==
    LET answer == IF userFlight[u] = "found" THEN "valid" ELSE "error" IN
    /\ userFlight[u] \in {"found", "missing", "error"}
    /\ userFlight' = [userFlight EXCEPT ![u] = "none"]
    /\ flight' = [t \in Tokens |->
                    IF flight[t].pc = "user" /\ flight[t].userID = u
                    THEN [flight[t] EXCEPT !.pc = "done", !.answer = answer] ELSE flight[t]]
    /\ request' = [q \in Requests |->
                    IF request[q].pc = "getUser" /\ request[q].userID = u
                    THEN EndedRequest ELSE request[q]]
    /\ UNCHANGED vars

FlightDeliver(t) ==
    /\ flight[t].pc = "done"
    /\ request' = [q \in Requests |->
                    IF request[q].pc = "validate" /\ FlightOf(request[q].token) = t
                    THEN [request[q] EXCEPT !.pc = "ended", !.answer = flight[t].answer,
                                           !.userID = flight[t].userID]
                    ELSE request[q]]
    /\ flight' = [flight EXCEPT ![t] = NoFlight]
    /\ UNCHANGED <<vars, userFlight>>

\* The goroutines of the singleflight group.
FlightStep ==
    \/ \E t \in Tokens : FlightCache(t) \/ FlightDB(t) \/ FlightDeliver(t)
    \/ \E u \in Users : UserRead(u) \/ UserDeliver(u)

\* A restart takes the flights and the waiting requests with it.
RestartAll ==
    /\ Restart
    /\ request' = [q \in Requests |-> EndedRequest]
    /\ flight' = [t \in Tokens |-> NoFlight]
    /\ userFlight' = [u \in Users |-> "none"]

ServiceStep ==
    /\ (\E p \in Procs : HandlerStep(p)) \/ OtherStep
    /\ UNCHANGED validationVars

ValidationNext ==
    \/ \E q \in Requests, t \in held : ValidateSession(q, t)
    \/ \E q \in Requests, u \in Users : GetUser(q, u)
    \/ \E q \in Requests : Cancel(q)
    \/ FlightStep
    \/ RestartAll
    \/ ServiceStep

\* Goroutines are scheduled and every query returns.
ValidationFairness ==
    /\ \A t \in Tokens : WF_<<vars, validationVars>>(FlightCache(t) \/ FlightDB(t) \/ FlightDeliver(t))
    /\ \A u \in Users : WF_<<vars, validationVars>>(UserRead(u) \/ UserDeliver(u))

ValidationSpec == /\ ValidationInit
                  /\ [][ValidationNext]_<<vars, validationVars>>
                  /\ ValidationFairness

-------------------------------------------------------------------------------
(* Properties.                                                               *)

\* Requests share answers only with callers of the same token: whoever led the
\* flight, a request is answered with the owner of the token it presented.
AnsweredAsOwner ==
    \A q \in Requests : request[q].answer = "valid" /\ request[q].token # 0
                         => request[q].userID = owner[request[q].token]

\* A flight that starts after the token was purged refuses it, however it
\* interleaves with the refreshes, logouts and cache writes of others.
LateFlightRefuses ==
    \A t \in Tokens : flight[t].late => flight[t].pc # "user" /\ flight[t].answer # "valid"

\* Every request that validates a token or asks for a user comes back.
RequestsReturn ==
    \A q \in Requests : request[q].pc \in {"validate", "getUser"}
                         ~> request[q].pc \in {"new", "ended"}

\* What Logout's comment says of the token, "invalid for future use", asked of
\* requests rather than of flights: a request that comes in after the token
\* was purged is not told that it is valid.
LateRequestRefused ==
    \A q \in Requests : request[q].late => request[q].answer # "valid"
================================================================================
