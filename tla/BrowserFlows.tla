----------------------------- MODULE BrowserFlows ------------------------------
(***************************************************************************)
(* controller/http.go, controller/oauth.go and middleware/http.go as seen  *)
(* from browsers: what the handlers do with the session, oauth_state and   *)
(* oauth_nonce cookies while several tabs of several browsers are at it.   *)
(*                                                                         *)
(* A request carries the cookies the browser had when it was sent; the     *)
(* answer's Set-Cookie headers take effect when it arrives, in whatever    *)
(* order answers arrive, or never.  The service is atomic here             *)
(* (AuthSessions and AuthAccounts have its detail): a sign-in creates a    *)
(* session, Logout ends one, and sessions also end on their own.           *)
(*                                                                         *)
(* Cookies, states, nonces, codes and tokens are numbers, 0 is none.  The  *)
(* state and the nonce of a login are different random strings; both are   *)
(* named by the number of the draw.                                        *)
(***************************************************************************)
EXTENDS Naturals

CONSTANTS
    Browsers,
    Requests,     \* requests that can be under way at the same time
    NoBrowser,
    MaxLogins, MaxCodes, MaxTokens

ASSUME BrowserAssumption == NoBrowser \notin Browsers
ASSUME BrowserBounds == MaxLogins \in Nat /\ MaxCodes \in Nat /\ MaxTokens \in Nat

VARIABLES
    jar,        \* the cookies of each browser
    told,       \* tokens its scripts have read from the body of an answer
    request,    \* the requests under way
    login,      \* the OAuth logins: who started them, their state and nonce, and
                \* whether the redirect to the provider has arrived
    logins,     \* how many there were
    code,       \* the provider's authorization codes
    codes,      \* how many it issued
    live,       \* tokens of live sessions
    tokens,     \* how many sessions were created
    redeemed,   \* history: the OAuth login each session comes from, 0 if none
    ended,      \* history: tokens of sessions that ended other than by a Logout whose
                \* answer arrived
    late        \* history: OAuth logins whose state cookie has expired

service == <<live, tokens, redeemed>>
provider == <<code, codes>>
vars == <<jar, told, request, login, logins, provider, service, ended, late>>

-------------------------------------------------------------------------------
Logins == 1..MaxLogins
Codes == 1..MaxCodes
Tokens == 1..MaxTokens

Jar == [session: 0..MaxTokens, state: 0..MaxLogins, nonce: 0..MaxLogins]
EmptyJar == [session |-> 0, state |-> 0, nonce |-> 0]

Login == [browser: Browsers \cup {NoBrowser}, state: 0..MaxLogins, nonce: 0..MaxLogins,
          redirected: BOOLEAN]
Code == [login: 0..MaxLogins, used: BOOLEAN]

\* "post" stands for signup, login and verify: which of the three it is only
\* matters once it is served.  A callback URL is the one of a login: the server
\* sees the login's state, and a code or none.
Kinds == {"none", "post", "logout", "oauthLogin", "callback"}
Statuses == {"none", "ok", "error", "badState"}

\* `set` holds the values of the answer's Set-Cookie headers, for the cookies
\* that `names` names.
Request == [pc: {"idle", "server", "handler", "answered"}, kind: Kinds,
            browser: Browsers \cup {NoBrowser}, cookies: Jar, token: 0..MaxTokens,
            login: 0..MaxLogins, code: 0..MaxCodes,
            status: Statuses, names: SUBSET {"session", "oauth"}, set: Jar]
IdleRequest == [pc |-> "idle", kind |-> "none", browser |-> NoBrowser, cookies |-> EmptyJar,
                token |-> 0, login |-> 0, code |-> 0,
                status |-> "none", names |-> {}, set |-> EmptyJar]

BrowserTypeOK ==
    /\ jar \in [Browsers -> Jar]
    /\ told \in [Browsers -> SUBSET Tokens]
    /\ request \in [Requests -> Request]
    /\ \A q \in Requests : request[q].pc = "handler" => request[q].token \in Tokens
    /\ login \in [Logins -> Login]
    /\ logins \in 0..MaxLogins
    /\ code \in [Codes -> Code]
    /\ codes \in 0..MaxCodes
    /\ live \in SUBSET Tokens
    /\ tokens \in 0..MaxTokens
    /\ redeemed \in [Tokens -> 0..MaxLogins]
    /\ ended \in SUBSET Tokens
    /\ late \in SUBSET Logins

Init ==
    /\ jar = [b \in Browsers |-> EmptyJar]
    /\ told = [b \in Browsers |-> {}]
    /\ request = [q \in Requests |-> IdleRequest]
    /\ login = [n \in Logins |-> [browser |-> NoBrowser, state |-> 0, nonce |-> 0,
                                  redirected |-> FALSE]]
    /\ logins = 0
    /\ code = [k \in Codes |-> [login |-> 0, used |-> FALSE]]
    /\ codes = 0
    /\ live = {} /\ tokens = 0
    /\ redeemed = [t \in Tokens |-> 0]
    /\ ended = {} /\ late = {}

-------------------------------------------------------------------------------
(* The browsers and the provider.                                            *)

\* A tab sends a request, with the cookies of the moment; those its handler does
\* not read are left out.  (A request that is lost on its way is one that was not
\* sent.)
Send(q, b, r) ==
    /\ request[q].pc = "idle"
    /\ request' = [request EXCEPT ![q] = [r EXCEPT !.pc = "server", !.browser = b]]
    /\ UNCHANGED <<jar, told, login, logins, provider, service, ended, late>>

SendPlain(q, b, kind) == Send(q, b, [IdleRequest EXCEPT !.kind = kind])

\* A script may add an Authorization header with a token it has been told.
SendLogout(q, b, header) ==
    /\ header \in {0} \cup told[b]
    /\ Send(q, b, [IdleRequest EXCEPT !.kind = "logout", !.token = header,
                                       !.cookies = [EmptyJar EXCEPT !.session = jar[b].session]])

\* A browser may open the callback URL of a login it started or of another, with
\* a code the provider issued for the login, or without one.
SendCallback(q, b, n, k) ==
    /\ login[n].redirected
    /\ k # 0 => code[k].login = n
    /\ Send(q, b, [IdleRequest EXCEPT !.kind = "callback", !.login = n, !.code = k,
                                       !.cookies = [jar[b] EXCEPT !.session = 0]])

\* The answer arrives: its cookies take effect, the redirect of an OAuth login
\* is followed, and the body of Login's and VerifyOTP's answer names the token
\* (Callback's is a redirect).
Deliver(q) ==
    LET r == request[q] IN
    /\ r.pc = "answered"
    /\ jar' = [jar EXCEPT ![r.browser] =
                 [session |-> IF "session" \in r.names THEN r.set.session ELSE @.session,
                  state |-> IF "oauth" \in r.names THEN r.set.state ELSE @.state,
                  nonce |-> IF "oauth" \in r.names THEN r.set.nonce ELSE @.nonce]]
    /\ told' = [told EXCEPT ![r.browser] =
                 @ \cup (IF r.names = {"session"} THEN {r.set.session} \ {0} ELSE {})]
    /\ login' = [n \in Logins |-> [login[n] EXCEPT !.redirected =
                                     @ \/ (r.names = {"oauth"} /\ n = r.login)]]
    /\ request' = [request EXCEPT ![q] = IdleRequest]
    /\ UNCHANGED <<logins, provider, service, ended, late>>

\* The answer is lost; that of a Logout names the session it ended.
Lose(q) ==
    LET r == request[q] IN
    /\ r.pc = "answered"
    /\ request' = [request EXCEPT ![q] = IdleRequest]
    /\ ended' = ended \cup ({r.token} \ {0})
    /\ UNCHANGED <<jar, told, login, logins, provider, service, late>>

\* 15 minutes pass.  The nonce cookie, stamped after the state cookie, goes no
\* earlier than it, and on its own has no effect.
Expire(b) ==
    /\ jar[b].state # 0
    /\ jar' = [jar EXCEPT ![b].state = 0, ![b].nonce = 0]
    /\ late' = late \cup {jar[b].state}
    /\ UNCHANGED <<told, request, login, logins, provider, service, ended>>

\* The provider issues a code; the ID token it exchanges the code for will carry
\* the nonce of the login.
Consent(n) ==
    /\ login[n].redirected
    /\ codes < MaxCodes
    /\ codes' = codes + 1
    /\ code' = [code EXCEPT ![codes + 1] = [login |-> n, used |-> FALSE]]
    /\ UNCHANGED <<jar, told, request, login, logins, service, ended, late>>

-------------------------------------------------------------------------------
(* The server.                                                               *)

\* An answer with cookies.  What the request carried is forgotten.
Answered(q, names, set) ==
    request' = [request EXCEPT ![q] = [IdleRequest EXCEPT
                  !.pc = "answered", !.browser = request[q].browser, !.token = request[q].token,
                  !.status = "ok", !.names = names, !.set = set]]

\* An answer without a cookie: only a refused state is told apart later.
NoCookies(q, status) ==
    request' = [request EXCEPT ![q] = [IdleRequest EXCEPT
                      !.pc = "answered", !.browser = request[q].browser, !.status = status,
                      !.login = IF status = "badState" THEN request[q].login ELSE 0]]

AnswerOnly(q, status) ==
    /\ NoCookies(q, status)
    /\ UNCHANGED <<login, logins, provider, service, ended>>

\* The service has created a session, for an OAuth login or for none.
NewSession(n) ==
    /\ tokens < MaxTokens
    /\ tokens' = tokens + 1
    /\ live' = live \cup {tokens + 1}
    /\ redeemed' = [redeemed EXCEPT ![tokens + 1] = n]

setSessionCookie == [EmptyJar EXCEPT !.session = tokens + 1]
clearSessionCookie == EmptyJar

AtServer(q, kind) ==
    /\ request[q].pc = "server"
    /\ request[q].kind = kind
    /\ UNCHANGED <<jar, told, late>>

\* AuthController.Signup touches no cookie.
Signup(q) ==
    /\ AtServer(q, "post")
    /\ AnswerOnly(q, "ok") \/ AnswerOnly(q, "error")

\* AuthController.Login: the payload or the service refuses, or there is a
\* session.
LoginHandler(q) ==
    /\ AtServer(q, "post")
    /\ \/ AnswerOnly(q, "error")
       \/ /\ NewSession(0)
          /\ Answered(q, {"session"}, setSessionCookie)
          /\ UNCHANGED <<login, logins, provider, ended>>

\* AuthController.VerifyOTP: likewise, with the hash from the URL where the body
\* does not validate.
VerifyOTP(q) ==
    /\ AtServer(q, "post")
    /\ \/ AnswerOnly(q, "error")
       \/ /\ NewSession(0)
          /\ Answered(q, {"session"}, setSessionCookie)
          /\ UNCHANGED <<login, logins, provider, ended>>

\* Mutant of generateRandomString: its ignored error leaves "" every time.
generateRandomString_Empty(draw) == 1
generateRandomString(draw) == draw

\* The two cookies of OAuthController.Login, and of Callback's two clearCookie.
setSecureCookie(state, nonce) == [EmptyJar EXCEPT !.state = state, !.nonce = nonce]
clearCookie(set) == [set EXCEPT !.state = 0, !.nonce = 0]

\* OAuthController.Login: the provider cannot be reached, or state and nonce go
\* into cookies and into the redirect.
OAuthLogin(q) ==
    LET n == logins + 1
        state == generateRandomString(n)
        nonce == generateRandomString(n) IN
    /\ AtServer(q, "oauthLogin")
    /\ \/ AnswerOnly(q, "error")
       \/ /\ logins < MaxLogins
          /\ logins' = n
          /\ login' = [login EXCEPT ![n] = [browser |-> request[q].browser, state |-> state,
                                            nonce |-> nonce, redirected |-> FALSE]]
          /\ request' = [request EXCEPT ![q] = [IdleRequest EXCEPT
                            !.pc = "answered", !.browser = request[q].browser, !.login = n,
                            !.status = "ok", !.names = {"oauth"},
                            !.set = setSecureCookie(state, nonce)]]
          /\ UNCHANGED <<provider, service, ended>>

\* OAuthController.Callback, its check of the state.
CallbackState(q) ==
    /\ request[q].cookies.state # 0
    /\ login[request[q].login].state = request[q].cookies.state

\* OAuthController.Callback before the service is asked: the state is wrong, or
\* the nonce or the code is missing, or the provider cannot be reached.
CallbackRefused(q) ==
    /\ AtServer(q, "callback")
    /\ \/ ~CallbackState(q) /\ AnswerOnly(q, "badState")
       \/ CallbackState(q) /\ AnswerOnly(q, "error")

\* Mutant of Callback: the cookies are cleared before the code is exchanged.
Callback_ClearFirst(q) ==
    LET r == request[q]
        k == r.code IN
    /\ AtServer(q, "callback")
    /\ CallbackState(q)
    /\ r.cookies.nonce # 0
    /\ k # 0
    /\ ~code[k].used
    /\ code' = [code EXCEPT ![k].used = TRUE]
    /\ Answered(q, {"oauth"}, EmptyJar)
    /\ UNCHANGED <<login, logins, codes, service, ended>>

\* OAuthController.Callback with ExchangeOAuthCode: the provider redeems a code
\* once; the ID token must carry the nonce of the cookie; then the account
\* decides.  Only a session clears the two cookies, an error or a conflict does
\* not.
Callback(q) ==
    LET r == request[q]
        k == r.code IN
    /\ AtServer(q, "callback")
    /\ CallbackState(q)
    /\ r.cookies.nonce # 0
    /\ k # 0
    /\ ~code[k].used
    /\ code' = [code EXCEPT ![k].used = TRUE]
    /\ \/ /\ NoCookies(q, "error")
          /\ UNCHANGED service
       \/ /\ login[code[k].login].nonce = r.cookies.nonce
          /\ NewSession(code[k].login)
          /\ Answered(q, {"session", "oauth"}, clearCookie(setSessionCookie))
    /\ UNCHANGED <<login, logins, codes, ended>>

\* Mutant of Middleware: a request without a token is let through.
Middleware_NoToken(q) ==
    LET r == request[q]
        token == IF r.token # 0 THEN r.token ELSE r.cookies.session IN
    /\ AtServer(q, "logout")
    /\ token \in live \cup {0}
    /\ request' = [request EXCEPT ![q] = [@ EXCEPT !.pc = "handler", !.cookies = EmptyJar,
                                              !.token = token]]
    /\ UNCHANGED <<login, logins, provider, service, ended>>

\* NewAuthMiddleware: the header's token, or else the cookie's, is validated and
\* handed on.
Middleware(q) ==
    LET r == request[q]
        token == IF r.token # 0 THEN r.token ELSE r.cookies.session IN
    /\ AtServer(q, "logout")
    /\ \/ token \notin live /\ AnswerOnly(q, "error")
       \/ /\ token \in live
          /\ request' = [request EXCEPT ![q] = [@ EXCEPT !.pc = "handler", !.cookies = EmptyJar,
                                                    !.token = token]]
          /\ UNCHANGED <<login, logins, provider, service, ended>>

\* Mutant of Logout: the cookie stays.
Logout_KeepCookie(q) ==
    /\ request[q].pc = "handler"
    /\ live' = live \ {request[q].token}
    /\ Answered(q, {}, EmptyJar)
    /\ UNCHANGED <<jar, told, login, logins, provider, tokens, redeemed, ended, late>>

\* AuthController.Logout, some time after the middleware, which never hands on an
\* empty token (BrowserTypeOK), so that its own check passes: the session ends and
\* the cookie is cleared, or the service reports an error, with the session
\* ended or not, and the cookie stays.
Logout(q) ==
    LET token == request[q].token IN
    /\ request[q].pc = "handler"
    /\ \/ /\ live' = live \ {token}
          /\ Answered(q, {"session"}, clearSessionCookie)
          /\ UNCHANGED ended
       \/ /\ live' \in {live, live \ {token}}
          /\ ended' = ended \cup (live \ live')
          /\ NoCookies(q, "error")
    /\ UNCHANGED <<jar, told, login, logins, provider, tokens, redeemed, late>>

\* A session expires, or is refreshed over gRPC, which sets no cookie, or its
\* user is deleted.
SessionEnds(t) ==
    /\ t \in live
    /\ live' = live \ {t}
    /\ ended' = ended \cup {t}
    /\ UNCHANGED <<jar, told, request, login, logins, provider, tokens, redeemed, late>>

Serve(q) ==
    \/ Signup(q) \/ LoginHandler(q) \/ VerifyOTP(q)
    \/ OAuthLogin(q) \/ CallbackRefused(q) \/ Callback(q)
    \/ Middleware(q) \/ Logout(q)

Next ==
    \/ \E q \in Requests, b \in Browsers :
          \/ \E kind \in {"post", "oauthLogin"} : SendPlain(q, b, kind)
          \/ \E header \in 0..MaxTokens : SendLogout(q, b, header)
          \/ \E n \in Logins, k \in 0..MaxCodes : SendCallback(q, b, n, k)
    \/ \E q \in Requests : Deliver(q) \/ Lose(q) \/ Serve(q)
    \/ \E b \in Browsers : Expire(b)
    \/ \E n \in Logins : Consent(n)
    \/ \E t \in Tokens : SessionEnds(t)

Spec == Init /\ [][Next]_vars

-------------------------------------------------------------------------------
(* Properties.                                                               *)

\* A browser is only ever signed in through an OAuth login that it started
\* itself, whatever callback URLs it opens, whenever their answers arrive, and
\* whatever its other tabs do to the cookies.
OwnLoginOnly ==
    \A b \in Browsers :
        LET t == jar[b].session IN
        t # 0 /\ redeemed[t] # 0 => login[redeemed[t]].browser = b

\* A callback is refused for its state only for a cause: the URL belongs to
\* another browser's login, the browser has another login too (its cookies, or
\* the clearing of them, have replaced the first one's), the login already has
\* its session, or 15 minutes have passed.  Lost and late answers, errors and
\* conflicts are no cause.
RefusedForCause ==
    \A q \in Requests :
        LET b == request[q].browser
            n == request[q].login IN
        request[q].status = "badState"
            => \/ login[n].browser # b
               \/ \E m \in Logins \ {n} : login[m].browser = b
               \/ \E t \in Tokens : redeemed[t] = n
               \/ n \in late

\* A browser with nothing under way holds the cookie of a dead session only for
\* a cause: the session ended on its own, in a Logout that reported an error, or
\* in one whose answer was lost.
DeadCookieForCause ==
    \A b \in Browsers :
        LET t == jar[b].session IN
        t # 0 /\ t \notin live /\ (\A q \in Requests : request[q].browser # b) => t \in ended
================================================================================
