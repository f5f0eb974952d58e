------------------------------ MODULE GrpcServer -------------------------------
(***************************************************************************)
(* The gRPC front end: the generated dispatch of pb/auth_grpc.pb.go, the   *)
(* interceptor chain of middleware/interceptor.go and the methods of       *)
(* AuthServiceImpl, up to the call of the service and back.  Each RPC runs *)
(* in a goroutine of its own, and RPCs share nothing up to the service.    *)
(*                                                                         *)
(* The chain is built anew for every RPC out of closures.  A closure is    *)
(* the number of the interceptor it runs; which handler it passes on to is *)
(* what it captured, `next`.  Method is the closure of the generated code  *)
(* that runs the RPC's own method.                                         *)
(***************************************************************************)
EXTENDS Bearer, Integers

CONSTANTS
    Calls,          \* RPCs
    Headers,        \* authorization metadata
    Interceptors,   \* what the host chains: "authorization" and its own, "host"
    CodeLengths, PasswordLengths, UserIds

ASSUME HeadersAssumption == \A h \in Headers : h = <<>> \/ Len(h) >= 1
ASSUME InterceptorsAssumption ==
    /\ Interceptors \in Seq({"authorization", "host"})
    /\ \E i \in DOMAIN Interceptors : Interceptors[i] = "authorization"
ASSUME LengthsAssumption == CodeLengths \cup PasswordLengths \subseteq Nat

VARIABLE call

-------------------------------------------------------------------------------
\* AuthService_ServiceDesc.
Methods == {"ValidateSession", "RefreshSession", "ForgotPassword", "ResetPassword",
            "GetUser", "GetUserByEmail", "DeleteUser", "LiveZ"}

\* Mutant of isPublicEndpoint: what is not listed is public.
isPublicEndpoint_Inverted(method) ==
    method \notin {"ValidateSession", "RefreshSession", "GetUser", "GetUserByEmail"}

\* Signup, Login and VerifyOTP are listed although the service has no such
\* method any more.
isPublicEndpoint(method) ==
    method \in {"Signup", "Login", "VerifyOTP", "ForgotPassword", "ResetPassword", "LiveZ"}

\* The request messages, reduced to what the controllers look at: an empty
\* email (0), one that is no address (1) and one that is (2); the lengths of a
\* code and of a password; whether a code is numeric.
NoRequest == [email |-> 2, otpHash |-> TRUE, code |-> 6, numeric |-> TRUE,
              password |-> 8, userId |-> 1]
RequestsOf(method) ==
    CASE method \in {"ForgotPassword", "GetUserByEmail"} ->
            {[NoRequest EXCEPT !.email = e] : e \in 0..2}
      [] method = "ResetPassword" ->
            {[NoRequest EXCEPT !.otpHash = h, !.code = c, !.numeric = n, !.password = p] :
                h \in BOOLEAN, c \in CodeLengths, n \in BOOLEAN, p \in PasswordLengths}
      [] method \in {"GetUser", "DeleteUser"} ->
            {[NoRequest EXCEPT !.userId = i] : i \in UserIds}
      [] OTHER -> {NoRequest}

\* Validator.ValidateEmail, ValidateOTPCode and ValidatePassword.
ValidateEmail(email) == email = 2
ValidateOTPCode(code, numeric) == code = 6 /\ numeric
ValidatePassword(password) == 8 =< password /\ password =< 30

\* The validate...Request methods of AuthServiceImpl.
validateForgotPasswordRequest(req) == req.email # 0 /\ ValidateEmail(req.email)
validateResetPasswordRequest(req) ==
    /\ req.otpHash /\ req.code # 0 /\ req.password # 0
    /\ ValidateOTPCode(req.code, req.numeric)
    /\ ValidatePassword(req.password)
validateGetUserRequest(req) == ~(req.userId =< 0)
validateGetUserByEmailRequest(req) == req.email # 0
validateDeleteUserRequest(req) == ~(req.userId =< 0)

-------------------------------------------------------------------------------
N == Len(Interceptors)
Method == N + 1

\* Mutant of Wrap: the closure captures the variable `handler`, which holds the
\* outermost closure by the time it runs.
Wrap_ByReference(i, chain) == [handler |-> i, next |-> [chain.next EXCEPT ![i] = 1]]

\* One turn of the loop of ChainUnaryInterceptors: next := handler, then handler
\* becomes a closure over interceptors[i] and next.
Wrap(i, chain) == [handler |-> i, next |-> [chain.next EXCEPT ![i] = chain.handler]]

\* The loop runs from the last interceptor to the first: what `handler` is after
\* the turn for interceptors[i], and before any turn, as Chain[Method].
Chain[i \in 1..Method] ==
    IF i = Method THEN [handler |-> Method, next |-> [j \in 1..N |-> Method]]
    ELSE Wrap(i, Chain[i + 1])

ChainUnaryInterceptors == Chain[1]

Answers == {"none", "ok", "serviceError", "unauthorized", "invalid", "refusedByHost",
            "unimplemented", "undecodable"}
Call == [pc: {"new", "sent", "chain", "service", "answered"}, method: Methods,
         header: Headers \cup {<<>>},
         req: UNION {RequestsOf(m) : m \in Methods}, handler: 1..Method,
         next: [1..N -> 1..Method], ran: {s \in Seq(1..N) : Len(s) =< N},
         token: {extractTokenFromMetadata(h) : h \in Headers} \cup {NoToken}, answer: Answers]

NewCall == [pc |-> "new", method |-> "LiveZ", header |-> <<>>, req |-> NoRequest,
            handler |-> Method, next |-> [i \in 1..N |-> Method], ran |-> <<>>,
            token |-> NoToken, answer |-> "none"]

GrpcTypeOK == call \in [Calls -> Call]

Init == call = [c \in Calls |-> NewCall]

-------------------------------------------------------------------------------
Answer(c, answer) ==
    call' = [call EXCEPT ![c] = [NewCall EXCEPT !.pc = "answered", !.answer = answer]]

\* A client stub invokes a method.
Invoke(c, method, header, req) ==
    /\ call[c].pc = "new"
    /\ call' = [call EXCEPT ![c] = [NewCall EXCEPT
                    !.pc = "sent", !.method = method, !.header = header, !.req = req]]

\* A method the service does not have never gets to the generated code.
InvokeUnknown(c) == call[c].pc = "new" /\ Answer(c, "unimplemented")

\* The method's _AuthService_..._Handler: it decodes the request, and runs the
\* interceptor with a handler that calls the method.
Dispatch(c) ==
    /\ call[c].pc = "sent"
    /\ \/ Answer(c, "undecodable")
       \/ call' = [call EXCEPT ![c].pc = "chain",
                               ![c].handler = ChainUnaryInterceptors.handler,
                               ![c].next = ChainUnaryInterceptors.next]

\* An interceptor passes the request on to the handler it captured.
PassOn(c, token) ==
    LET i == call[c].handler IN
    call' = [call EXCEPT ![c].handler = call[c].next[i], ![c].ran = Append(@, i),
                         ![c].token = token]

RunsInterceptor(c, kind) ==
    call[c].pc = "chain" /\ call[c].handler # Method /\ Interceptors[call[c].handler] = kind

AuthorizationInterceptor(c) ==
    LET token == extractTokenFromMetadata(call[c].header) IN
    /\ RunsInterceptor(c, "authorization")
    /\ \/ isPublicEndpoint(call[c].method) /\ PassOn(c, call[c].token)
       \/ ~isPublicEndpoint(call[c].method) /\ token = NoToken /\ Answer(c, "unauthorized")
       \/ ~isPublicEndpoint(call[c].method) /\ token # NoToken /\ PassOn(c, token)

HostInterceptor(c) ==
    /\ RunsInterceptor(c, "host")
    /\ PassOn(c, call[c].token) \/ Answer(c, "refusedByHost")

\* The methods of AuthServiceImpl up to their call of the service; LiveZ makes none.
extractToken(c) == call[c].token

InMethod(c, method) == call[c].pc = "chain" /\ call[c].handler = Method /\ call[c].method = method

CallService(c, accepted, refusal) ==
    \/ ~accepted /\ Answer(c, refusal)
    \/ accepted /\ call' = [call EXCEPT ![c].pc = "service"]

ValidateSession(c) ==
    InMethod(c, "ValidateSession") /\ CallService(c, extractToken(c) # NoToken, "unauthorized")

RefreshSession(c) ==
    InMethod(c, "RefreshSession") /\ CallService(c, extractToken(c) # NoToken, "unauthorized")

ForgotPassword(c) ==
    /\ InMethod(c, "ForgotPassword")
    /\ CallService(c, validateForgotPasswordRequest(call[c].req), "invalid")

ResetPassword(c) ==
    /\ InMethod(c, "ResetPassword")
    /\ CallService(c, validateResetPasswordRequest(call[c].req), "invalid")

GetUser(c) ==
    InMethod(c, "GetUser") /\ CallService(c, validateGetUserRequest(call[c].req), "invalid")

GetUserByEmail(c) ==
    /\ InMethod(c, "GetUserByEmail")
    /\ CallService(c, validateGetUserByEmailRequest(call[c].req), "invalid")

DeleteUser(c) ==
    InMethod(c, "DeleteUser") /\ CallService(c, validateDeleteUserRequest(call[c].req), "invalid")

LiveZ(c) == InMethod(c, "LiveZ") /\ Answer(c, "ok")

\* The service returns, and the method turns its result into a message.
ServiceReturns(c) ==
    /\ call[c].pc = "service"
    /\ Answer(c, "ok") \/ Answer(c, "serviceError")

Run(c) ==
    \/ Dispatch(c)
    \/ AuthorizationInterceptor(c)
    \/ HostInterceptor(c)
    \/ ValidateSession(c) \/ RefreshSession(c)
    \/ ForgotPassword(c) \/ ResetPassword(c)
    \/ GetUser(c) \/ GetUserByEmail(c) \/ DeleteUser(c)
    \/ LiveZ(c)
    \/ ServiceReturns(c)

Next ==
    \E c \in Calls :
        \/ \E m \in Methods, h \in Headers : \E r \in RequestsOf(m) : Invoke(c, m, h, r)
        \/ InvokeUnknown(c)
        \/ Run(c)

Spec == Init /\ [][Next]_call

-------------------------------------------------------------------------------
(* Properties.                                                               *)

\* However the closures captured their loop variables, the interceptors run
\* from left to right, each once, and the method runs after the last of them.
ChainInOrder ==
    \A c \in Calls :
        /\ call[c].ran = [i \in 1..Len(call[c].ran) |-> i]
        /\ call[c].pc = "service" => Len(call[c].ran) = N

\* Wherever in the chain the host put the AuthorizationInterceptor: a method
\* gets to the service without a token only if it is one of the two password
\* operations, and otherwise with the token of its own metadata, which the
\* HTTP middleware would have read from the same header or not have read at all.
ServiceGuarded ==
    \A c \in Calls : call[c].pc = "service" /\ call[c].method \notin {"ForgotPassword", "ResetPassword"}
        => /\ call[c].token # NoToken
           /\ call[c].token = extractTokenFromMetadata(call[c].header)
           /\ HeaderToken(call[c].header) \in {call[c].token, NoToken}
================================================================================
