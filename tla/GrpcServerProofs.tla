--------------------------- MODULE GrpcServerProofs ----------------------------
(***************************************************************************)
(* The safety properties of GrpcServer for any RPCs and metadata, any      *)
(* bounds of the requests, and any chain of interceptors, of whatever      *)
(* length, that has the AuthorizationInterceptor somewhere.                *)
(*                                                                         *)
(* The argument.  The loop of ChainUnaryInterceptors is a recursive        *)
(* function; what it computes is proved by induction over the loop, in the *)
(* form of a least number of turns after which it would be wrong           *)
(* (LeastNumber, LoopBuildsChain): every closure passes on to the next     *)
(* interceptor.  Then what has run is what stands to the left of the       *)
(* handler that runs now (Chained), and once the AuthorizationInterceptor  *)
(* is among that, the token is the one of the metadata (Vouched).          *)
(***************************************************************************)
EXTENDS GrpcServer, WellFoundedInduction, TLAPS

\* A call k has run the interceptors before its handler, in order, and each
\* closure is linked to the next.
Chained(k) ==
    /\ \A i \in 1..Len(k.ran) : k.ran[i] = i
    /\ k.pc \in {"chain", "service"} =>
          k.next = [i \in 1..N |-> i + 1] /\ Len(k.ran) = k.handler - 1
    /\ k.pc = "service" => k.handler = Method
    /\ k.pc \notin {"chain", "service"} => k.ran = <<>>

\* A call k that the AuthorizationInterceptor let pass has the token of its
\* metadata, unless its method is public.
Vouched(k) ==
    /\ k.pc \in {"chain", "service"} /\ ~isPublicEndpoint(k.method) =>
          \A i \in 1..N : i < k.handler /\ Interceptors[i] = "authorization" =>
              k.token # NoToken /\ k.token = extractTokenFromMetadata(k.header)
    /\ k.pc = "service" => k.method # "LiveZ"

Good(k) == k \in Call /\ Chained(k) /\ Vouched(k)

GInv == /\ GrpcTypeOK
        /\ \A c \in Calls : Good(call[c])

-------------------------------------------------------------------------------
(* The chain.                                                                *)

\* A set of natural numbers that is not empty has a least element.
LEMMA LeastNumber ==
  ASSUME NEW T \in SUBSET Nat, T # {}
  PROVE  \E n \in T : \A m \in T : n =< m
  <1>. DEFINE R == {ss \in Nat \X Nat : ss[1] < ss[2]}
  <1>1. IsWellFoundedOn(R, Nat)
    BY NatLessThanWellFounded DEF OpToRel
  <1> HIDE DEF R
  <1>2. PICK n \in T : \A m \in T : <<m, n>> \notin R
    BY <1>1, WFMin
  <1>3. \A m \in T : ~(m < n)
    BY <1>2 DEF R
  <1>4. QED
    BY <1>3

\* There is an interceptor, and the method is one past the last.
LEMMA Lengths == N \in Nat /\ N >= 1 /\ Method \in Nat /\ Method = N + 1
  <1>1. Interceptors \in Seq({"authorization", "host"}) /\ DOMAIN Interceptors # {}
    BY InterceptorsAssumption
  <1>2. Len(Interceptors) \in Nat /\ DOMAIN Interceptors = 1..Len(Interceptors)
    BY <1>1
  <1>3. Len(Interceptors) # 0
    BY <1>1, <1>2
  <1>4. QED
    BY <1>2, <1>3 DEF N, Method

\* The state of the loop when interceptors[i] and those to its right are wrapped:
\* each of them passes on to its right neighbour, the last to the method.
Wrapped(i) == [handler |-> i, next |-> [j \in 1..N |-> IF j >= i THEN j + 1 ELSE Method]]

\* One turn of the loop wraps one more interceptor.
LEMMA OneTurn == \A i \in 1..N : Wrap(i, Wrapped(i + 1)) = Wrapped(i)
  <1>. SUFFICES ASSUME NEW i \in 1..N PROVE Wrap(i, Wrapped(i + 1)) = Wrapped(i)
    OBVIOUS
  <1>. DEFINE f == [j \in 1..N |-> IF j >= i + 1 THEN j + 1 ELSE Method]
              g == [j \in 1..N |-> IF j >= i THEN j + 1 ELSE Method]
  <1>1. [f EXCEPT ![i] = i + 1] = g
    <2>1. \A j \in 1..N : j # i => (j >= i + 1 <=> j >= i)
      BY Lengths
    <2>2. \A j \in 1..N : f[j] = IF j = i THEN Method ELSE g[j]
      BY <2>1, Lengths
    <2>3. g[i] = i + 1
      BY Lengths
    <2> HIDE DEF f, g
    <2>4. \A j \in 1..N : [f EXCEPT ![i] = i + 1][j] = g[j]
      BY <2>2, <2>3 DEF f
    <2>5. QED
      BY <2>4 DEF f, g
  <1>2. QED
    BY <1>1 DEF Wrap, Wrapped

\* The equation of the loop defines Chain.
LEMMA ChainDef ==
  \A i \in 1..Method :
      Chain[i] = IF i = Method THEN [handler |-> Method, next |-> [j \in 1..N |-> Method]]
                 ELSE Wrap(i, Chain[i + 1])
  <1>. DEFINE Def(f) == [i \in 1..Method |->
                           IF i = Method THEN [handler |-> Method, next |-> [j \in 1..N |-> Method]]
                           ELSE Wrap(i, f[i + 1])]
              g == [i \in 1..Method |-> Wrapped(i)]
  <1>1. Wrapped(Method) = [handler |-> Method, next |-> [j \in 1..N |-> Method]]
    BY Lengths DEF Wrapped
  <1>2. \A i \in 1..Method : i # Method => i \in 1..N /\ i + 1 \in 1..Method
    BY Lengths
  <1>3. g = Def(g)
    BY <1>1, <1>2, OneTurn
  <1>4. Chain = CHOOSE f : f = Def(f)
    BY DEF Chain
  <1> HIDE DEF g
  <1>5. Chain = Def(Chain)
    BY <1>3, <1>4
  <1>6. QED
    BY <1>5

\* The loop of ChainUnaryInterceptors links every interceptor to its right
\* neighbour, whatever the length of the chain.
LEMMA LoopBuildsChain ==
  /\ ChainUnaryInterceptors.handler = 1
  /\ ChainUnaryInterceptors.next = [i \in 1..N |-> i + 1]
  <1>. DEFINE T == {k \in Nat : k =< N /\ Chain[Method - k] # Wrapped(Method - k)}
  <1>1. ASSUME T # {}
        PROVE  FALSE
    <2>1. PICK k \in T : \A m \in T : k =< m
      BY <1>1, LeastNumber
    <2>2. CASE k = 0
      <3>1. Chain[Method] = Wrapped(Method)
        BY Lengths, ChainDef DEF Wrapped
      <3>2. QED
        BY <2>2, <3>1, Lengths
    <2>3. CASE k # 0
      <3>. DEFINE i == Method - k
      <3>1. k - 1 \in Nat /\ k - 1 =< N /\ i + 1 = Method - (k - 1) /\ i \in 1..N /\ i # Method
            /\ i \in 1..Method
        BY <2>3, Lengths
      <3>2. k - 1 \notin T
        BY <2>1, <3>1
      <3>3. Chain[i + 1] = Wrapped(i + 1)
        BY <3>1, <3>2
      <3>4. Chain[i] = Wrapped(i)
        BY <3>1, <3>3, ChainDef, OneTurn
      <3>5. QED
        BY <3>4
    <2>4. QED
      BY <2>2, <2>3
  <1>2. Chain[1] = Wrapped(1)
    <2>1. N \in Nat /\ N =< N /\ Method - N = 1
      BY Lengths
    <2>2. N \notin T
      BY <1>1
    <2>3. QED
      BY <2>1, <2>2
  <1>3. [j \in 1..N |-> IF j >= 1 THEN j + 1 ELSE Method] = [j \in 1..N |-> j + 1]
    BY Lengths
  <1>4. QED
    BY <1>2, <1>3 DEF ChainUnaryInterceptors, Wrapped

-------------------------------------------------------------------------------
(* The inductive invariant.                                                  *)

\* The steps below change one call, c, to k.
Becomes(c, k) == call' = [call EXCEPT ![c] = k]

\* A step keeps the invariant if what it makes of its call is good.
LEMMA OneCall ==
  ASSUME GInv, NEW c \in Calls, NEW k, Good(k), Becomes(c, k)
  PROVE  GInv'
  <1>1. call \in [Calls -> Call]
    BY DEF GInv, GrpcTypeOK
  <1>2. call' \in [Calls -> Call] /\ \A d \in Calls : call'[d] = call[d] \/ call'[d] = k
    BY <1>1 DEF Good, Becomes
  <1>3. QED
    BY <1>2 DEF GInv, GrpcTypeOK

\* A call that has not been made is of its type.
LEMMA NewCallType == NewCall \in Call
  <1>1. NoRequest \in UNION {RequestsOf(m) : m \in Methods}
    <2>1. "LiveZ" \in Methods /\ NoRequest \in RequestsOf("LiveZ")
      BY DEF Methods, RequestsOf
    <2>2. QED
      BY <2>1
  <1>2. Method \in 1..Method /\ [i \in 1..N |-> Method] \in [1..N -> 1..Method]
    BY Lengths
  <1>3. <<>> \in {s \in Seq(1..N) : Len(s) =< N}
    BY Lengths
  <1>4. NoToken \in {extractTokenFromMetadata(h) : h \in Headers} \cup {NoToken}
    OBVIOUS
  <1>5. QED
    BY <1>1, <1>2, <1>3, <1>4 DEF NewCall, Call, Methods, Answers

\* A call that is made, or answered, has run no interceptor.
LEMMA FreshCalls ==
  /\ Good(NewCall)
  /\ \A answer \in Answers : Good([NewCall EXCEPT !.pc = "answered", !.answer = answer])
  /\ \A m \in Methods, h \in Headers : \A r \in RequestsOf(m) :
        Good([NewCall EXCEPT !.pc = "sent", !.method = m, !.header = h, !.req = r])
  <1>1. Good(NewCall)
    BY NewCallType DEF Good, Chained, Vouched, NewCall
  <1>2. ASSUME NEW answer \in Answers
        PROVE  Good([NewCall EXCEPT !.pc = "answered", !.answer = answer])
    <2>. DEFINE k == [NewCall EXCEPT !.pc = "answered", !.answer = answer]
    <2>1. k \in Call
      BY NewCallType DEF Call
    <2>2. k.ran = <<>> /\ k.pc = "answered"
      BY DEF NewCall
    <2> HIDE DEF k
    <2>3. Good(k)
      BY <2>1, <2>2 DEF Good, Chained, Vouched
    <2>4. QED
      BY <2>3 DEF k
  <1>3. ASSUME NEW m \in Methods, NEW h \in Headers, NEW r \in RequestsOf(m)
        PROVE  Good([NewCall EXCEPT !.pc = "sent", !.method = m, !.header = h, !.req = r])
    <2>. DEFINE k == [NewCall EXCEPT !.pc = "sent", !.method = m, !.header = h, !.req = r]
    <2>1. k \in Call
      <3>1. r \in UNION {RequestsOf(x) : x \in Methods}
        OBVIOUS
      <3>2. QED
        BY <3>1, NewCallType DEF Call
    <2>2. k.ran = <<>> /\ k.pc = "sent"
      BY DEF NewCall
    <2> HIDE DEF k
    <2>3. Good(k)
      BY <2>1, <2>2 DEF Good, Chained, Vouched
    <2>4. QED
      BY <2>3 DEF k
  <1>4. QED
    BY <1>1, <1>2, <1>3

\* An answer ends the call and keeps the invariant.
LEMMA AnswerKeeps ==
  ASSUME GInv, NEW c \in Calls, NEW answer \in Answers, Answer(c, answer)
  PROVE  GInv'
  BY FreshCalls, OneCall DEF Answer, Becomes

\* The generated handler starts the chain at its first interceptor.
LEMMA DispatchKeeps ==
  ASSUME GInv, NEW c \in Calls, Dispatch(c)
  PROVE  GInv'
  <1>1. CASE Answer(c, "undecodable")
    BY <1>1, AnswerKeeps DEF Answers
  <1>2. CASE call' = [call EXCEPT ![c].pc = "chain",
                                  ![c].handler = ChainUnaryInterceptors.handler,
                                  ![c].next = ChainUnaryInterceptors.next]
    <2>. DEFINE next == [i \in 1..N |-> i + 1]
                k == [call[c] EXCEPT !.pc = "chain", !.handler = 1, !.next = next]
    <2>1. call \in [Calls -> Call] /\ call[c] \in Call /\ call[c].ran = <<>>
      BY DEF GInv, GrpcTypeOK, Good, Chained, Dispatch
    <2>2. next \in [1..N -> 1..Method] /\ 1 \in 1..Method
      BY Lengths
    <2>3. Becomes(c, k)
      BY <1>2, <2>1, LoopBuildsChain DEF Becomes
    <2> HIDE DEF next
    <2>4. k \in Call
      BY <2>1, <2>2 DEF Call
    <2>5. k.ran = <<>> /\ k.pc = "chain" /\ k.handler = 1 /\ k.next = next
      BY <2>1 DEF Call
    <2> HIDE DEF k
    <2>6. Chained(k)
      BY <2>5 DEF Chained, next
    <2>7. Vouched(k)
      BY <2>5, Lengths DEF Vouched
    <2>8. QED
      BY <2>3, <2>4, <2>6, <2>7, OneCall DEF Good
  <1>3. QED
    BY <1>1, <1>2 DEF Dispatch

\* An interceptor that passes on, with the token it has been given or the one
\* of the metadata, puts the handler one to the right; the AuthorizationInterceptor
\* does so with the token of the metadata, or for a public method.
LEMMA PassOnKeeps ==
  ASSUME GInv, NEW c \in Calls, NEW token, call[c].pc = "chain", call[c].handler # Method,
         \/ token = call[c].token /\ (\/ isPublicEndpoint(call[c].method)
                                      \/ Interceptors[call[c].handler] # "authorization")
         \/ /\ token = extractTokenFromMetadata(call[c].header)
            /\ token # NoToken
            /\ call[c].header \in Headers,
         PassOn(c, token)
  PROVE  GInv'
  <1>. DEFINE i == call[c].handler
              k == [call[c] EXCEPT !.handler = call[c].next[i], !.ran = Append(@, i),
                                   !.token = token]
  <1>1. call \in [Calls -> Call] /\ call[c] \in Call /\ Chained(call[c]) /\ Vouched(call[c])
    BY DEF GInv, GrpcTypeOK, Good
  <1>2. i \in 1..N /\ i + 1 \in 1..Method /\ i \in Int
    BY <1>1, Lengths DEF Call
  <1>3. call[c].next[i] = i + 1 /\ Len(call[c].ran) = i - 1 /\ call[c].ran \in Seq(1..N)
        /\ \A j \in 1..Len(call[c].ran) : call[c].ran[j] = j
    BY <1>1, <1>2 DEF Chained, Call
  <1>4. Becomes(c, k)
    BY <1>1 DEF Becomes, PassOn
  <1>5. token \in {extractTokenFromMetadata(h) : h \in Headers} \cup {NoToken}
    BY <1>1 DEF Call
  <1>. DEFINE ran == Append(call[c].ran, i)
  <1>6. ran \in Seq(1..N) /\ Len(ran) = i /\ \A j \in 1..Len(ran) : ran[j] = j
    BY <1>2, <1>3
  <1>7. ran \in {s \in Seq(1..N) : Len(s) =< N}
    BY <1>2, <1>6
  <1> HIDE DEF ran
  <1>8. k = [call[c] EXCEPT !.handler = i + 1, !.ran = ran, !.token = token]
    BY <1>1, <1>3 DEF ran, Call
  <1> HIDE DEF k
  <1>9. k \in Call
    BY <1>1, <1>2, <1>5, <1>7, <1>8 DEF Call
  <1>10. /\ k.handler = i + 1 /\ k.ran = ran /\ k.token = token /\ k.pc = "chain"
         /\ k.next = call[c].next /\ k.method = call[c].method /\ k.header = call[c].header
    BY <1>1, <1>8 DEF Call
  <1>11. Chained(k)
    BY <1>1, <1>2, <1>6, <1>10 DEF Chained
  <1>12. Vouched(k)
    <2>1. ASSUME ~isPublicEndpoint(k.method), NEW j \in 1..N, j < k.handler,
                 Interceptors[j] = "authorization"
          PROVE  k.token # NoToken /\ k.token = extractTokenFromMetadata(k.header)
      <3>1. j < i \/ j = i
        BY <1>2, <1>10, <2>1, Lengths
      <3>2. CASE token = extractTokenFromMetadata(call[c].header) /\ token # NoToken
        BY <1>10, <3>2
      <3>3. CASE j < i
        BY <1>1, <1>10, <2>1, <3>2, <3>3 DEF Vouched
      <3>4. CASE j = i
        BY <1>10, <2>1, <3>2, <3>4
      <3>5. QED
        BY <3>1, <3>3, <3>4
    <2>2. QED
      BY <1>10, <2>1 DEF Vouched
  <1>13. QED
    BY <1>4, <1>9, <1>11, <1>12, OneCall DEF Good

\* A method that calls the service keeps the invariant: it runs after the last
\* interceptor, and it is not LiveZ.
LEMMA CallServiceKeeps ==
  ASSUME GInv, NEW c \in Calls, NEW method, method # "LiveZ", InMethod(c, method),
         NEW accepted, NEW refusal \in Answers, CallService(c, accepted, refusal)
  PROVE  GInv'
  <1>1. CASE Answer(c, refusal)
    BY <1>1, AnswerKeeps
  <1>2. CASE call' = [call EXCEPT ![c].pc = "service"]
    <2>. DEFINE k == [call[c] EXCEPT !.pc = "service"]
    <2>1. call \in [Calls -> Call] /\ call[c] \in Call /\ Chained(call[c]) /\ Vouched(call[c])
      BY DEF GInv, GrpcTypeOK, Good
    <2>2. call[c].pc = "chain" /\ call[c].handler = Method /\ call[c].method # "LiveZ"
      BY DEF InMethod
    <2>3. Becomes(c, k)
      BY <1>2, <2>1 DEF Becomes
    <2>4. k \in Call
      BY <2>1 DEF Call
    <2>5. /\ k.handler = call[c].handler /\ k.ran = call[c].ran /\ k.token = call[c].token
          /\ k.next = call[c].next /\ k.method = call[c].method /\ k.header = call[c].header
          /\ k.pc = "service"
      BY <2>1 DEF Call
    <2> HIDE DEF k
    <2>6. Chained(k) /\ Vouched(k)
      BY <2>1, <2>2, <2>5 DEF Chained, Vouched
    <2>7. QED
      BY <2>3, <2>4, <2>6, OneCall DEF Good
  <1>3. QED
    BY <1>1, <1>2 DEF CallService

\* Every step preserves the invariant.
LEMMA GInvStep == GInv /\ [Next]_call => GInv'
  <1>. SUFFICES ASSUME GInv, [Next]_call PROVE GInv'
    OBVIOUS
  <1>1. CASE UNCHANGED call
    BY <1>1 DEF GInv, GrpcTypeOK
  <1>2. ASSUME NEW c \in Calls, NEW m \in Methods, NEW h \in Headers, NEW r \in RequestsOf(m),
               Invoke(c, m, h, r)
        PROVE  GInv'
    BY <1>2, FreshCalls, OneCall DEF Invoke, Becomes
  <1>3. ASSUME NEW c \in Calls, InvokeUnknown(c)
        PROVE  GInv'
    BY <1>3, AnswerKeeps DEF InvokeUnknown, Answers
  <1>4. ASSUME NEW c \in Calls, AuthorizationInterceptor(c)
        PROVE  GInv'
    <2>1. call[c].pc = "chain" /\ call[c].handler # Method
      BY <1>4 DEF AuthorizationInterceptor, RunsInterceptor
    <2>2. call[c].header \in Headers \/ extractTokenFromMetadata(call[c].header) = NoToken
      <3>1. call[c].header \in Headers \cup {<<>>}
        BY DEF GInv, GrpcTypeOK, Call
      <3>2. extractTokenFromMetadata(<<>>) = NoToken
        BY DEF extractTokenFromMetadata, AsToken, NoToken
      <3>3. QED
        BY <3>1, <3>2
    <2>3. CASE Answer(c, "unauthorized")
      BY <2>3, AnswerKeeps DEF Answers
    <2>4. CASE isPublicEndpoint(call[c].method) /\ PassOn(c, call[c].token)
      BY <2>1, <2>4, PassOnKeeps
    <2>5. CASE /\ extractTokenFromMetadata(call[c].header) # NoToken
               /\ PassOn(c, extractTokenFromMetadata(call[c].header))
      BY <2>1, <2>2, <2>5, PassOnKeeps
    <2>6. QED
      BY <1>4, <2>3, <2>4, <2>5 DEF AuthorizationInterceptor
  <1>5. ASSUME NEW c \in Calls, HostInterceptor(c)
        PROVE  GInv'
    <2>1. /\ call[c].pc = "chain" /\ call[c].handler # Method
          /\ Interceptors[call[c].handler] # "authorization"
      BY <1>5 DEF HostInterceptor, RunsInterceptor
    <2>2. CASE PassOn(c, call[c].token)
      BY <2>1, <2>2, PassOnKeeps
    <2>3. CASE Answer(c, "refusedByHost")
      BY <2>3, AnswerKeeps DEF Answers
    <2>4. QED
      BY <1>5, <2>2, <2>3 DEF HostInterceptor
  <1>6. ASSUME NEW c \in Calls, ValidateSession(c) \/ RefreshSession(c)
        PROVE  GInv'
    BY <1>6, CallServiceKeeps DEF ValidateSession, RefreshSession, Answers
  <1>7. ASSUME NEW c \in Calls, ForgotPassword(c) \/ ResetPassword(c)
        PROVE  GInv'
    BY <1>7, CallServiceKeeps DEF ForgotPassword, ResetPassword, Answers
  <1>8. ASSUME NEW c \in Calls, GetUser(c) \/ GetUserByEmail(c) \/ DeleteUser(c)
        PROVE  GInv'
    BY <1>8, CallServiceKeeps DEF GetUser, GetUserByEmail, DeleteUser, Answers
  <1>9. ASSUME NEW c \in Calls, LiveZ(c) \/ ServiceReturns(c)
        PROVE  GInv'
    BY <1>9, AnswerKeeps DEF LiveZ, ServiceReturns, Answers
  <1>10. QED
    BY <1>1, <1>2, <1>3, <1>4, <1>5, <1>6, <1>7, <1>8, <1>9, DispatchKeeps DEF Next, Run

\* No call has been made at first.
LEMMA GInvInit == Init => GInv
  <1>1. Init => call \in [Calls -> Call]
    BY NewCallType DEF Init
  <1>2. QED
    BY <1>1, FreshCalls DEF Init, GInv, GrpcTypeOK

-------------------------------------------------------------------------------
(* The theorems.                                                             *)

\* The inductive invariant behind the theorems below.
THEOREM GrpcInductive == Spec => []GInv
  BY GInvInit, GInvStep, PTL DEF Spec

\* Every RPC is well typed, for any chain and any bounds.
THEOREM GrpcTypes == Spec => []GrpcTypeOK
  <1>1. GInv => GrpcTypeOK
    BY DEF GInv
  <1>2. QED
    BY <1>1, GrpcInductive, PTL

\* However many interceptors the host chains, they run from left to right, each
\* once, and the method after the last of them.
THEOREM InterceptorsInOrder == Spec => []ChainInOrder
  <1>1. ASSUME GInv, NEW c \in Calls
        PROVE  /\ call[c].ran = [i \in 1..Len(call[c].ran) |-> i]
               /\ call[c].pc = "service" => Len(call[c].ran) = N
    <2>1. call[c] \in Call /\ Chained(call[c])
      BY <1>1 DEF GInv, Good
    <2>2. call[c].ran \in Seq(1..N)
      BY <2>1 DEF Call
    <2>3. call[c].ran = [i \in 1..Len(call[c].ran) |-> call[c].ran[i]]
      BY <2>2
    <2>4. \A i \in 1..Len(call[c].ran) : call[c].ran[i] = i
      BY <2>1 DEF Chained
    <2>5. call[c].ran = [i \in 1..Len(call[c].ran) |-> i]
      BY <2>3, <2>4
    <2>6. call[c].pc = "service" => Len(call[c].ran) = N
      BY <2>1, Lengths DEF Chained
    <2>7. QED
      BY <2>5, <2>6
  <1>2. GInv => ChainInOrder
    BY <1>1 DEF ChainInOrder
  <1>3. QED
    BY <1>2, GrpcInductive, PTL

\* Wherever in the chain the AuthorizationInterceptor stands, no method but the
\* two password operations gets to the service without the token of its metadata.
THEOREM GuardedService == Spec => []ServiceGuarded
  <1>1. ASSUME GInv, NEW c \in Calls, call[c].pc = "service",
               call[c].method \notin {"ForgotPassword", "ResetPassword"}
        PROVE  /\ call[c].token # NoToken
               /\ call[c].token = extractTokenFromMetadata(call[c].header)
    <2>1. call[c] \in Call /\ Chained(call[c]) /\ Vouched(call[c])
      BY <1>1 DEF GInv, Good
    <2>2. call[c].method \in Methods
      BY <2>1 DEF Call
    <2>3. ~isPublicEndpoint(call[c].method)
      BY <1>1, <2>1, <2>2 DEF Vouched, isPublicEndpoint, Methods
    <2>4. PICK i \in 1..N : Interceptors[i] = "authorization"
      BY InterceptorsAssumption DEF N
    <2>5. i < call[c].handler
      BY <1>1, <2>1, <2>4, Lengths DEF Chained
    <2>6. QED
      BY <1>1, <2>1, <2>3, <2>4, <2>5 DEF Vouched
  <1>2. \A h : HeaderToken(h) \in {extractTokenFromMetadata(h), NoToken}
    BY DEF HeaderToken, extractTokenFromMetadata
  <1>3. GInv => ServiceGuarded
    BY <1>1, <1>2 DEF ServiceGuarded
  <1>4. QED
    BY <1>3, GrpcInductive, PTL
================================================================================
