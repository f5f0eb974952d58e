-------------------------- MODULE BrowserCookiesProofs -------------------------
(***************************************************************************)
(* RefusedForCause and DeadCookieForCause for any number of browsers,      *)
(* requests, logins, codes and sessions.                                   *)
(*                                                                         *)
(* The argument for the state cookie.  From the redirect on, a browser has *)
(* the state of its login in its jar, or there is a cause why it has not;  *)
(* causes are never undone, and a callback carries the jar of the moment   *)
(* it was sent (StatesTraced).                                             *)
(*                                                                         *)
(* The argument for the session cookie.  A token is known to one browser   *)
(* only (OneHolder), and as long as its Set-Cookie is under way it is      *)
(* known to nobody (Undelivered), so that nobody can log it out.  A token  *)
(* that is in a jar and not live has then ended on its own, or in a Logout *)
(* of the same browser, whose answer will clear the jar (DeadCookies).     *)
(***************************************************************************)
EXTENDS BrowserFlowsProofs

\* Why browser b may find its state refused in a callback of login n.
Cause(b, n) ==
    \/ login[n].browser # b
    \/ \E m \in Logins \ {n} : login[m].browser = b
    \/ \E t \in Tokens : redeemed[t] = n
    \/ n \in late

Begun(n) == n \in Logins /\ n =< logins

\* Logins and sessions are numbered in the order of their draws; the state is the
\* number too.
InOrder ==
    /\ \A n \in Logins : n =< logins => login[n].state = n /\ login[n].browser \in Browsers
    /\ \A n \in Logins : ~(n =< logins) => login[n].browser = NoBrowser /\ ~login[n].redirected
    /\ \A t \in Tokens : t > tokens => redeemed[t] = 0

\* A browser that was redirected still has the state, or there is a cause.
JarsTraced ==
    \A n \in Logins : login[n].redirected =>
        jar[login[n].browser].state = n \/ Cause(login[n].browser, n)

\* What is behind the state of a request r, and behind the cookies of its answer.
StateTraced(r) ==
    /\ r.pc = "server" /\ r.kind = "callback" =>
          Begun(r.login) /\ (r.cookies.state = r.login \/ Cause(r.browser, r.login))
    /\ r.status = "badState" =>
          r.browser \in Browsers /\ Begun(r.login) /\ Cause(r.browser, r.login)
    /\ r.names = {"oauth"} =>
          /\ Begun(r.login) /\ login[r.login].browser = r.browser
          /\ r.set.state = r.login
    /\ r.names = {"session", "oauth"} =>
          /\ r.browser \in Browsers /\ r.set.state = 0
          /\ \E n \in Logins, t \in Tokens : redeemed[t] = n /\ login[n].browser = r.browser

StatesTraced ==
    /\ InOrder
    /\ JarsTraced
    /\ \A q \in Requests : StateTraced(request[q])

-------------------------------------------------------------------------------
(* Causes last.                                                              *)

\* The bounds are natural numbers.
LEMMA Counters ==
  ASSUME BrowserTypeOK
  PROVE  /\ logins \in Nat /\ logins =< MaxLogins /\ MaxLogins \in Nat
         /\ tokens \in Nat /\ tokens =< MaxTokens /\ MaxTokens \in Nat
         /\ \A n \in Logins : n \in Nat /\ n # 0
         /\ \A t \in Tokens : t \in Nat /\ t # 0
  BY BrowserBounds DEF BrowserTypeOK, Logins, Tokens

\* A state cookie that has expired stays expired.
LEMMA LateGrows ==
  ASSUME [Next]_vars
  PROVE  late \subseteq late'
<1>1. ASSUME NEW q \in Requests, Serve(q)
      PROVE  late' = late
  BY <1>1 DEF Serve, Signup, LoginHandler, VerifyOTP, OAuthLogin, CallbackRefused, Callback,
              Middleware, Logout, AtServer
<1>2. ASSUME NEW q \in Requests, NEW b \in Browsers,
             \/ \E kind \in {"post", "oauthLogin"} : SendPlain(q, b, kind)
             \/ \E header \in 0..MaxTokens : SendLogout(q, b, header)
             \/ \E n \in Logins, k \in 0..MaxCodes : SendCallback(q, b, n, k)
      PROVE  late' = late
  BY <1>2 DEF SendPlain, SendLogout, SendCallback, Send
<1>3. ASSUME NEW q \in Requests, Deliver(q) \/ Lose(q)
      PROVE  late' = late
  BY <1>3 DEF Deliver, Lose
<1>4. ASSUME NEW b \in Browsers, Expire(b)
      PROVE  late \subseteq late'
  BY <1>4 DEF Expire
<1>5. ASSUME \/ UNCHANGED vars
             \/ \E n \in Logins : Consent(n)
             \/ \E t \in Tokens : SessionEnds(t)
      PROVE  late' = late
  BY <1>5 DEF vars, Consent, SessionEnds
<1>. QED
  BY <1>1, <1>2, <1>3, <1>4, <1>5 DEF Next

\* A cause is never undone, and what is behind a request stays so.
LEMMA CausesLast ==
  ASSUME Inductive, InOrder, [Next]_vars
  PROVE  /\ \A n : Begun(n) => Begun(n)' /\ login'[n].browser = login[n].browser
         /\ \A n : \A b \in Browsers : Begun(n) /\ Cause(b, n) => Cause(b, n)'
<1>1. /\ logins \in Nat /\ logins' \in Nat /\ logins =< logins'
      /\ tokens \in Nat /\ tokens' \in Nat /\ tokens =< tokens'
      /\ \A n \in 1..logins : login'[n].browser = login[n].browser
      /\ \A t \in 1..tokens : redeemed'[t] = redeemed[t]
  BY Growth DEF Inductive
<1>2. \A n : Begun(n) => Begun(n)' /\ login'[n].browser = login[n].browser
  BY <1>1, Counters DEF Begun, Inductive, Logins
<1>3. ASSUME NEW n, NEW b \in Browsers, Begun(n), Cause(b, n)
      PROVE  Cause(b, n)'
  <2>1. CASE login[n].browser # b
    BY <1>2, <1>3, <2>1 DEF Cause
  <2>2. ASSUME NEW m \in Logins \ {n}, login[m].browser = b
        PROVE  Cause(b, n)'
    <3>1. m =< logins
      BY <2>2, BrowserAssumption DEF InOrder
    <3>2. login'[m].browser = b
      BY <1>2, <2>2, <3>1 DEF Begun
    <3>. QED
      BY <2>2, <3>2 DEF Cause
  <2>3. ASSUME NEW t \in Tokens, redeemed[t] = n
        PROVE  Cause(b, n)'
    <3>1. n # 0
      BY <1>3, Counters DEF Begun, Inductive
    <3>2. ~(t > tokens)
      BY <2>3, <3>1 DEF InOrder
    <3>3. t \in 1..tokens
      BY <1>1, <3>2, Counters DEF Inductive
    <3>4. redeemed'[t] = n
      BY <1>1, <2>3, <3>3
    <3>. QED
      BY <3>4 DEF Cause
  <2>4. CASE n \in late
    BY <2>4, LateGrows DEF Cause
  <2>. QED
    BY <1>3, <2>1, <2>2, <2>3, <2>4 DEF Cause
<1>. QED
  BY <1>2, <1>3

\* What was behind a request before a step is behind it after.
LEMMA TracedLasts ==
  ASSUME Inductive, StatesTraced, [Next]_vars, NEW q \in Requests
  PROVE  StateTraced(request[q])'  \/ request'[q] # request[q]
<1>. SUFFICES ASSUME request'[q] = request[q] PROVE StateTraced(request[q])'
  OBVIOUS
<1>. DEFINE r == request[q]
<1>1. StateTraced(r) /\ InOrder
  BY DEF StatesTraced
<1>2. r.pc # "idle" => r.browser \in Browsers
  BY DEF Inductive, RequestsOwned, RequestOwned
<1>3. /\ \A n : Begun(n) => Begun(n)' /\ login'[n].browser = login[n].browser
      /\ \A n : \A b \in Browsers : Begun(n) /\ Cause(b, n) => Cause(b, n)'
  BY <1>1, CausesLast
<1>4. ASSUME r.names = {"session", "oauth"}
      PROVE  \E n \in Logins, t \in Tokens : redeemed'[t] = n /\ login'[n].browser = r.browser
  <2>1. PICK n \in Logins, t \in Tokens : redeemed[t] = n /\ login[n].browser = r.browser
    BY <1>1, <1>4 DEF StateTraced
  <2>2. r.browser \in Browsers
    BY <1>1, <1>4 DEF StateTraced
  <2>3. n =< logins
    BY <1>1, <2>1, <2>2, BrowserAssumption DEF InOrder
  <2>4. ~(t > tokens)
    BY <1>1, <2>1, Counters DEF InOrder, Inductive
  <2>5. t \in 1..tokens
    BY <2>4, Counters DEF Inductive
  <2>6. redeemed'[t] = redeemed[t]
    BY <2>5, Growth DEF Inductive
  <2>7. login'[n].browser = r.browser
    BY <1>3, <2>1, <2>3 DEF Begun
  <2>. QED
    BY <2>1, <2>6, <2>7
<1>5. r.pc = "server" /\ r.kind = "callback" =>
          Begun(r.login)' /\ (r.cookies.state = r.login \/ Cause(r.browser, r.login)')
  BY <1>1, <1>2, <1>3 DEF StateTraced
<1>6. r.status = "badState" =>
          r.browser \in Browsers /\ Begun(r.login)' /\ Cause(r.browser, r.login)'
  BY <1>1, <1>3 DEF StateTraced
<1>7. r.names = {"oauth"} =>
          /\ Begun(r.login)' /\ login'[r.login].browser = r.browser
          /\ r.set.state = r.login
  BY <1>1, <1>3 DEF StateTraced
<1>8. r.names = {"session", "oauth"} => r.browser \in Browsers /\ r.set.state = 0
  BY <1>1 DEF StateTraced
<1>. QED
  BY <1>4, <1>5, <1>6, <1>7, <1>8 DEF StateTraced, Begun, Cause

-------------------------------------------------------------------------------
(* The steps of the requests and the state cookie.                           *)

\* What stands behind a request once request q has become k.
LEMMA OneTraced ==
  ASSUME Inductive, StatesTraced, [Next]_vars, NEW q \in Requests, NEW k,
         request' = [request EXCEPT ![q] = k], StateTraced(k)'
  PROVE  \A p \in Requests : StateTraced(request[p])'
<1>1. \A p \in Requests : request'[p] = IF p = q THEN k ELSE request[p]
  BY DEF Inductive, BrowserTypeOK
<1>2. ASSUME NEW p \in Requests
      PROVE  StateTraced(request[p])'
  <2>1. CASE p = q
    BY <1>1, <2>1 DEF StateTraced, Begun, Cause
  <2>2. CASE p # q
    BY <1>1, <2>2, TracedLasts
  <2>. QED
    BY <2>1, <2>2
<1>. QED
  BY <1>2

\* Nothing stands behind a request that waits for no callback, was not refused
\* for its state and is answered with no OAuth cookie.
LEMMA PlainTraced ==
  ASSUME NEW k, k.status # "badState", ~(k.pc = "server" /\ k.kind = "callback"),
         k.names \in {{}, {"session"}}
  PROVE  StateTraced(k)'
<1>1. k.names # {"oauth"} /\ k.names # {"session", "oauth"}
  <2>1. "oauth" \notin k.names
    OBVIOUS
  <2>. QED
    BY <2>1
<1>. QED
  BY <1>1 DEF StateTraced

\* The answers without OAuth cookies.
LEMMA AnswersTraced ==
  ASSUME Inductive, StatesTraced, [Next]_vars, NEW q \in Requests,
         \/ \E status \in Statuses \ {"badState"} : NoCookies(q, status)
         \/ \E set : Answered(q, {"session"}, set)
  PROVE  \A p \in Requests : StateTraced(request[p])'
<1>1. ASSUME NEW status \in Statuses \ {"badState"}, NoCookies(q, status)
      PROVE  \A p \in Requests : StateTraced(request[p])'
  <2>1. PICK k : /\ k = [IdleRequest EXCEPT
                            !.pc = "answered", !.browser = request[q].browser, !.status = status,
                            !.login = IF status = "badState" THEN request[q].login ELSE 0]
                 /\ request' = [request EXCEPT ![q] = k]
    BY <1>1 DEF NoCookies
  <2>2. k.pc = "answered" /\ k.status # "badState" /\ k.names = {}
    BY <2>1 DEF IdleRequest
  <2>3. StateTraced(k)'
    BY <2>2, PlainTraced
  <2>. QED
    BY <2>1, <2>3, OneTraced
<1>2. ASSUME NEW set, Answered(q, {"session"}, set)
      PROVE  \A p \in Requests : StateTraced(request[p])'
  <2>1. PICK k : /\ k = [IdleRequest EXCEPT
                            !.pc = "answered", !.browser = request[q].browser,
                            !.token = request[q].token, !.status = "ok", !.names = {"session"},
                            !.set = set]
                 /\ request' = [request EXCEPT ![q] = k]
    BY <1>2 DEF Answered
  <2>2. k.pc = "answered" /\ k.status # "badState" /\ k.names = {"session"}
    BY <2>1 DEF IdleRequest
  <2>3. StateTraced(k)'
    BY <2>2, PlainTraced
  <2>. QED
    BY <2>1, <2>3, OneTraced
<1>. QED
  BY <1>1, <1>2

\* A callback leaves the browser with the state of its login, if it has it.
LEMMA SendsTraced ==
  ASSUME Inductive, StatesTraced, [Next]_vars, NEW q \in Requests, NEW b \in Browsers,
         \/ \E kind \in {"post", "oauthLogin"} : SendPlain(q, b, kind)
         \/ \E header \in 0..MaxTokens : SendLogout(q, b, header)
         \/ \E n \in Logins, k \in 0..MaxCodes : SendCallback(q, b, n, k)
  PROVE  \A p \in Requests : StateTraced(request[p])'
<1>1. ASSUME NEW kind \in {"post", "oauthLogin"}, SendPlain(q, b, kind)
      PROVE  \A p \in Requests : StateTraced(request[p])'
  <2>. DEFINE r == [IdleRequest EXCEPT !.kind = kind]
  <2>1. PICK k : /\ k = [r EXCEPT !.pc = "server", !.browser = b]
                 /\ request' = [request EXCEPT ![q] = k]
    BY <1>1 DEF SendPlain, Send
  <2>2. k.kind # "callback" /\ k.status # "badState" /\ k.names = {}
    BY <2>1 DEF IdleRequest
  <2>3. StateTraced(k)'
    BY <2>2, PlainTraced
  <2>. QED
    BY <2>1, <2>3, OneTraced
<1>2. ASSUME NEW header \in 0..MaxTokens, SendLogout(q, b, header)
      PROVE  \A p \in Requests : StateTraced(request[p])'
  <2>. DEFINE r == [IdleRequest EXCEPT !.kind = "logout", !.token = header,
                        !.cookies = [EmptyJar EXCEPT !.session = jar[b].session]]
  <2>1. PICK k : /\ k = [r EXCEPT !.pc = "server", !.browser = b]
                 /\ request' = [request EXCEPT ![q] = k]
    BY <1>2 DEF SendLogout, Send
  <2>2. k.kind # "callback" /\ k.status # "badState" /\ k.names = {}
    BY <2>1 DEF IdleRequest
  <2>3. StateTraced(k)'
    BY <2>2, PlainTraced
  <2>. QED
    BY <2>1, <2>3, OneTraced
<1>3. ASSUME NEW n \in Logins, NEW c \in 0..MaxCodes, SendCallback(q, b, n, c)
      PROVE  \A p \in Requests : StateTraced(request[p])'
  <2>. DEFINE j == [jar[b] EXCEPT !.session = 0]
              r == [IdleRequest EXCEPT !.kind = "callback", !.login = n, !.code = c,
                                       !.cookies = j]
  <2>1. PICK k : /\ k = [r EXCEPT !.pc = "server", !.browser = b]
                 /\ request' = [request EXCEPT ![q] = k]
    BY <1>3 DEF SendCallback, Send
  <2>2. j.state = jar[b].state
    BY DEF Inductive, BrowserTypeOK, Jar
  <2>. HIDE DEF j
  <2>3. k.browser = b /\ k.status = "none" /\ k.names = {} /\ k.login = n /\ k.cookies = j
    BY <2>1 DEF IdleRequest
  <2>4. login[n].redirected /\ UNCHANGED <<login, logins, redeemed, late>>
    BY <1>3 DEF SendCallback, Send, service
  <2>5. Begun(n) /\ (jar[b].state = n \/ Cause(b, n))
    <3>1. n =< logins
      BY <2>4 DEF StatesTraced, InOrder
    <3>2. CASE login[n].browser = b
      BY <2>4, <3>1, <3>2 DEF StatesTraced, JarsTraced, Begun
    <3>3. CASE login[n].browser # b
      BY <3>1, <3>3 DEF Begun, Cause
    <3>. QED
      BY <3>2, <3>3
  <2>6. StateTraced(k)'
    BY <2>2, <2>3, <2>4, <2>5 DEF StateTraced, Begun, Cause
  <2>. QED
    BY <2>1, <2>6, OneTraced
<1>. QED
  BY <1>1, <1>2, <1>3

\* A callback refused for its state has a cause: with the state of its own login
\* it would not have been refused.
LEMMA RefusedTraced ==
  ASSUME Inductive, StatesTraced, [Next]_vars, NEW q \in Requests, CallbackRefused(q)
  PROVE  \A p \in Requests : StateTraced(request[p])'
<1>1. CASE NoCookies(q, "error")
  BY <1>1, AnswersTraced DEF Statuses
<1>2. CASE ~CallbackState(q) /\ AnswerOnly(q, "badState")
  <2>. DEFINE r == request[q]
  <2>1. PICK k : /\ k = [IdleRequest EXCEPT
                            !.pc = "answered", !.browser = r.browser, !.status = "badState",
                            !.login = IF "badState" = "badState" THEN r.login ELSE 0]
                 /\ request' = [request EXCEPT ![q] = k]
    BY <1>2 DEF AnswerOnly, NoCookies
  <2>2. k.pc = "answered" /\ k.browser = r.browser /\ k.login = r.login /\ k.names = {}
    BY <2>1 DEF IdleRequest
  <2>3. r.pc = "server" /\ r.kind = "callback" /\ UNCHANGED <<login, logins, redeemed, late>>
    BY <1>2 DEF CallbackRefused, AtServer, AnswerOnly, service
  <2>4. r.browser \in Browsers
    BY <2>3 DEF Inductive, RequestsOwned, RequestOwned
  <2>5. Begun(r.login) /\ (r.cookies.state = r.login \/ Cause(r.browser, r.login))
    BY <2>3 DEF StatesTraced, StateTraced
  <2>6. r.cookies.state # r.login
    <3>1. login[r.login].state = r.login /\ r.login # 0
      BY <2>5, Counters DEF StatesTraced, InOrder, Begun, Inductive
    <3>. QED
      BY <1>2, <3>1 DEF CallbackState
  <2>7. StateTraced(k)'
    BY <2>2, <2>3, <2>4, <2>5, <2>6 DEF StateTraced, Begun, Cause
  <2>. QED
    BY <2>1, <2>7, OneTraced
<1>. QED
  BY <1>1, <1>2 DEF CallbackRefused, AnswerOnly

\* The answer to an OAuth login carries its own state.
LEMMA LoginTraced ==
  ASSUME Inductive, StatesTraced, [Next]_vars, NEW q \in Requests, OAuthLogin(q),
         ~AnswerOnly(q, "error")
  PROVE  /\ \A p \in Requests : StateTraced(request[p])'
         /\ InOrder'
         /\ JarsTraced'
<1>0. PICK n : n = logins + 1
  OBVIOUS
<1>. DEFINE l == [browser |-> request[q].browser, state |-> n, nonce |-> n, redirected |-> FALSE]
<1>1. /\ logins < MaxLogins /\ logins' = n
      /\ login' = [login EXCEPT ![n] = l]
      /\ UNCHANGED <<jar, tokens, redeemed, late>>
      /\ request[q].pc = "server"
  BY <1>0 DEF OAuthLogin, generateRandomString, AtServer, service
<1>1a. PICK k : /\ k = [IdleRequest EXCEPT
                          !.pc = "answered", !.browser = request[q].browser, !.login = n,
                          !.status = "ok", !.names = {"oauth"}, !.set = setSecureCookie(n, n)]
                /\ request' = [request EXCEPT ![q] = k]
  BY <1>0 DEF OAuthLogin, generateRandomString
<1>2. request[q].browser \in Browsers
  BY <1>1 DEF Inductive, RequestsOwned, RequestOwned
<1>3. n \in Logins
  BY <1>0, <1>1, Counters DEF Inductive, Logins
<1>4. \A m \in Logins : login'[m] = IF m = n THEN l ELSE login[m]
  BY <1>1 DEF Inductive, BrowserTypeOK
<1>5. Begun(n)' /\ login'[n].browser = request[q].browser
  BY <1>0, <1>1, <1>3, <1>4, Counters DEF Begun, Inductive
<1>6. k.pc = "answered" /\ k.status = "ok" /\ k.names = {"oauth"} /\ k.login = n
      /\ k.browser = request[q].browser /\ k.set.state = n
  BY <1>1a DEF IdleRequest, setSecureCookie, EmptyJar
<1>7. InOrder'
  <2>1. ASSUME NEW m \in Logins
        PROVE  /\ m =< n => login'[m].state = m /\ login'[m].browser \in Browsers
               /\ ~(m =< n) => login'[m].browser = NoBrowser /\ ~login'[m].redirected
    <3>1. CASE m = n
      BY <1>0, <1>2, <1>3, <1>4, <3>1, Counters DEF Inductive
    <3>2. CASE m # n
      <4>1. m =< n <=> m =< logins
        BY <1>0, <3>2, Counters DEF Inductive
      <4>. QED
        BY <1>4, <3>2, <4>1 DEF StatesTraced, InOrder
    <3>. QED
      BY <3>1, <3>2
  <2>. QED
    BY <1>1, <2>1 DEF StatesTraced, InOrder
<1>8. JarsTraced'
  <2>1. ASSUME NEW m \in Logins, login'[m].redirected
        PROVE  jar'[login'[m].browser].state = m \/ Cause(login[m].browser, m)'
    <3>1. m # n /\ login'[m] = login[m]
      BY <1>4, <2>1
    <3>2. m =< logins /\ login[m].browser \in Browsers
      BY <2>1, <3>1 DEF StatesTraced, InOrder
    <3>3. jar[login[m].browser].state = m \/ Cause(login[m].browser, m)
      BY <2>1, <3>1 DEF StatesTraced, JarsTraced
    <3>4. Cause(login[m].browser, m) => Cause(login[m].browser, m)'
      <4>1. \A b \in Browsers : Begun(m) /\ Cause(b, m) => Cause(b, m)'
        BY CausesLast DEF StatesTraced
      <4>2. Begun(m)
        BY <3>2 DEF Begun
      <4>. DEFINE b == login[m].browser
      <4>3. login'[m].browser = b
        BY <3>1
      <4>4. Cause(b, m) => Cause(b, m)'
        BY <3>2, <4>1, <4>2, <4>3 DEF Cause
      <4>. QED
        BY <4>3, <4>4
    <3>. QED
      BY <1>1, <3>1, <3>3, <3>4
  <2>. QED
    BY <2>1 DEF JarsTraced
<1>9. StateTraced(k)'
  <2>1. k.names # {"session", "oauth"}
    <3>1. "session" \notin k.names
      BY <1>6
    <3>. QED
      BY <3>1
  <2>. QED
    BY <1>5, <1>6, <2>1 DEF StateTraced, Begun
<1>10. \A p \in Requests : StateTraced(request[p])'
  BY <1>9, <1>1a, OneTraced
<1>. QED
  BY <1>7, <1>8, <1>10

\* Whoever gets a session through a callback had begun the login it comes from.
LEMMA CallbackTraced ==
  ASSUME Inductive, StatesTraced, [Next]_vars, NEW q \in Requests, Callback(q)
  PROVE  \A p \in Requests : StateTraced(request[p])'
<1>1. CASE NoCookies(q, "error")
  BY <1>1, AnswersTraced DEF Statuses
<1>2. ASSUME ~NoCookies(q, "error")
      PROVE  \A p \in Requests : StateTraced(request[p])'
  <2>0. PICK n : n = code[request[q].code].login
    OBVIOUS
  <2>1. PICK k : /\ k = [IdleRequest EXCEPT
                            !.pc = "answered", !.browser = request[q].browser,
                            !.token = request[q].token, !.status = "ok",
                            !.names = {"session", "oauth"}, !.set = clearCookie(setSessionCookie)]
                 /\ request' = [request EXCEPT ![q] = k]
    BY <1>2 DEF Callback, Answered
  <2>2. /\ login[n].nonce = request[q].cookies.nonce
        /\ NewSession(n)
        /\ request[q].pc = "server"
        /\ UNCHANGED <<login, logins>>
    BY <1>2, <2>0 DEF Callback, AtServer
  <2>3. n \in 0..MaxLogins /\ n \in 1..logins /\ login[n].browser = request[q].browser
    BY <2>0, <2>2, NonceOwned
  <2>4. request[q].browser \in Browsers
    BY <2>2 DEF Inductive, RequestsOwned, RequestOwned
  <2>5. n \in Logins /\ tokens + 1 \in Tokens
    BY <2>2, <2>3, Counters DEF Inductive, Logins, Tokens, NewSession
  <2>6. redeemed'[tokens + 1] = n
    BY <2>2, <2>5 DEF NewSession, Inductive, BrowserTypeOK
  <2>7. /\ k.pc = "answered" /\ k.status = "ok" /\ k.names = {"session", "oauth"}
        /\ k.browser = request[q].browser /\ k.set.state = 0
    BY <2>1 DEF IdleRequest, clearCookie, setSessionCookie, EmptyJar
  <2>8. k.names # {"oauth"}
    <3>1. "session" \in k.names
      BY <2>7
    <3>. QED
      BY <3>1
  <2>9. StateTraced(k)'
    BY <2>2, <2>3, <2>4, <2>5, <2>6, <2>7, <2>8 DEF StateTraced
  <2>. QED
    BY <2>1, <2>9, OneTraced
<1>. QED
  BY <1>1, <1>2

\* The other steps of the server.
LEMMA ServeTraced ==
  ASSUME Inductive, StatesTraced, [Next]_vars, NEW q \in Requests,
         \/ Signup(q) \/ LoginHandler(q) \/ VerifyOTP(q)
         \/ OAuthLogin(q) /\ AnswerOnly(q, "error")
         \/ Middleware(q) \/ Logout(q)
  PROVE  \A p \in Requests : StateTraced(request[p])'
<1>1. CASE NoCookies(q, "ok") \/ NoCookies(q, "error")
  BY <1>1, AnswersTraced DEF Statuses
<1>2. CASE \E set : Answered(q, {"session"}, set)
  BY <1>2, AnswersTraced
<1>3. ASSUME Middleware(q), ~NoCookies(q, "error")
      PROVE  \A p \in Requests : StateTraced(request[p])'
  <2>. DEFINE token == IF request[q].token # 0 THEN request[q].token
                                               ELSE request[q].cookies.session
  <2>1. PICK k : /\ k = [request[q] EXCEPT !.pc = "handler", !.cookies = EmptyJar,
                                           !.token = token]
                 /\ request' = [request EXCEPT ![q] = k]
    BY <1>3 DEF Middleware, AnswerOnly, Inductive, BrowserTypeOK
  <2>2. UNCHANGED <<login, logins, redeemed, late>>
    BY <1>3 DEF Middleware, AtServer, AnswerOnly, service
  <2>3. /\ k.pc = "handler" /\ k.status = request[q].status /\ k.names = request[q].names
        /\ k.login = request[q].login /\ k.browser = request[q].browser
        /\ k.set = request[q].set
    BY <2>1 DEF Inductive, BrowserTypeOK, Request
  <2>4. StateTraced(request[q])
    BY DEF StatesTraced
  <2>5. StateTraced(k)'
    BY <2>2, <2>3, <2>4 DEF StateTraced, Begun, Cause
  <2>. QED
    BY <2>1, <2>5, OneTraced
<1>. QED
  BY <1>1, <1>2, <1>3
  DEF Signup, LoginHandler, VerifyOTP, OAuthLogin, Middleware, Logout, AnswerOnly

\* A request that is done has nothing behind it any more.
LEMMA DoneTraced ==
  ASSUME Inductive, StatesTraced, [Next]_vars, NEW q \in Requests,
         request' = [request EXCEPT ![q] = IdleRequest]
  PROVE  \A p \in Requests : StateTraced(request[p])'
<1>1. PICK k : k = IdleRequest
  OBVIOUS
<1>2. k.pc = "idle" /\ k.status = "none" /\ k.names = {}
  BY <1>1 DEF IdleRequest
<1>3. StateTraced(k)'
  BY <1>2, PlainTraced
<1>. QED
  BY <1>1, <1>3, OneTraced

\* Where the jars and the logins stay as they are, so does what is in order and
\* what is traced.
LEMMA StillTraced ==
  ASSUME Inductive, StatesTraced, [Next]_vars, UNCHANGED <<jar, login, logins>>
  PROVE  JarsTraced'
<1>1. ASSUME NEW n \in Logins, login[n].redirected
      PROVE  jar[login[n].browser].state = n \/ Cause(login[n].browser, n)'
  <2>1. n =< logins /\ login[n].browser \in Browsers
    BY <1>1 DEF StatesTraced, InOrder
  <2>2. PICK b \in Browsers : b = login[n].browser
    BY <2>1
  <2>3. jar[b].state = n \/ Cause(b, n)
    BY <1>1, <2>2 DEF StatesTraced, JarsTraced
  <2>4. Cause(b, n) => Cause(b, n)'
    BY <2>1, CausesLast DEF StatesTraced, Begun
  <2>. QED
    BY <2>2, <2>3, <2>4 DEF Cause
<1>. QED
  BY <1>1 DEF JarsTraced

\* An answer that arrives replaces a state only by that of another login of the
\* browser, or because the browser has a session from one.
LEMMA DeliverTraced ==
  ASSUME Inductive, StatesTraced, [Next]_vars, NEW q \in Requests, Deliver(q)
  PROVE  JarsTraced'
<1>. DEFINE r == request[q]
<1>1. /\ r.pc = "answered" /\ r.browser \in Browsers /\ StateTraced(r)
      /\ r.names \in SUBSET {"session", "oauth"}
  BY DEF Deliver, Inductive, RequestsOwned, RequestOwned, StatesTraced, BrowserTypeOK, Request
<1>2. UNCHANGED <<logins, redeemed, tokens, late>>
  BY DEF Deliver, service
<1>3. \A b \in Browsers : b # r.browser => jar'[b] = jar[b]
  BY DEF Deliver, Inductive, BrowserTypeOK
<1>4. jar'[r.browser].state = IF "oauth" \in r.names THEN r.set.state ELSE jar[r.browser].state
  BY <1>1 DEF Deliver, Inductive, BrowserTypeOK
<1>5. \A n \in Logins : /\ login'[n].browser = login[n].browser
                        /\ login'[n].redirected =>
                              login[n].redirected \/ (r.names = {"oauth"} /\ n = r.login)
  BY DEF Deliver, Inductive, BrowserTypeOK, Login
<1>6. \A n \in Logins : \A b : Cause(b, n) => Cause(b, n)'
  BY <1>2, <1>5 DEF Cause
<1>7. ASSUME NEW n \in Logins, login'[n].redirected
      PROVE  jar'[login[n].browser].state = n \/ Cause(login[n].browser, n)
  <2>. DEFINE b == login[n].browser
  <2>1. b \in Browsers
    BY <1>1, <1>5, <1>7 DEF StatesTraced, InOrder, StateTraced
  <2>2. CASE b # r.browser
    <3>1. login[n].redirected
      BY <1>1, <1>5, <1>7, <2>2 DEF StateTraced
    <3>. QED
      BY <1>3, <2>1, <2>2, <3>1 DEF StatesTraced, JarsTraced
  <2>3. CASE b = r.browser /\ "oauth" \notin r.names
    <3>1. login[n].redirected
      BY <1>5, <1>7, <2>3
    <3>. QED
      BY <1>4, <2>3, <3>1 DEF StatesTraced, JarsTraced
  <2>4. CASE b = r.browser /\ r.names = {"oauth"}
    <3>1. /\ r.login \in Logins /\ login[r.login].browser = b
          /\ jar'[b].state = r.login
      BY <1>1, <1>4, <2>4 DEF StateTraced, Begun
    <3>. QED
      BY <3>1 DEF Cause
  <2>5. CASE b = r.browser /\ r.names = {"session", "oauth"}
    <3>1. PICK m \in Logins, t \in Tokens : redeemed[t] = m /\ login[m].browser = b
      BY <1>1, <2>5 DEF StateTraced
    <3>. QED
      BY <3>1 DEF Cause
  <2>6. r.names \in {{"oauth"}, {"session", "oauth"}} \/ "oauth" \notin r.names
    BY <1>1
  <2>. QED
    BY <2>2, <2>3, <2>4, <2>5, <2>6
<1>8. ASSUME NEW n \in Logins, login'[n].redirected
      PROVE  jar'[login'[n].browser].state = n \/ Cause(login[n].browser, n)'
  <2>1. PICK b : b = login[n].browser
    OBVIOUS
  <2>2. b = login'[n].browser
    BY <1>5, <2>1
  <2>3. jar'[b].state = n \/ Cause(b, n)'
    BY <1>6, <1>7, <1>8, <2>1
  <2>. QED
    BY <2>2, <2>3 DEF Cause
<1>. QED
  BY <1>8 DEF JarsTraced

\* A state cookie that expires does so for good.
LEMMA ExpireTraced ==
  ASSUME Inductive, StatesTraced, [Next]_vars, NEW b \in Browsers, Expire(b)
  PROVE  JarsTraced'
<1>1. UNCHANGED <<login, logins, redeemed, tokens>> /\ late' = late \cup {jar[b].state}
  BY DEF Expire, service
<1>2. \A c \in Browsers : c # b => jar'[c] = jar[c]
  BY DEF Expire, Inductive, BrowserTypeOK
<1>3. ASSUME NEW n \in Logins, login[n].redirected
      PROVE  jar'[login[n].browser].state = n \/ Cause(login[n].browser, n)'
  <2>1. login[n].browser \in Browsers
    BY <1>3 DEF StatesTraced, InOrder
  <2>2. jar[login[n].browser].state = n \/ Cause(login[n].browser, n)
    BY <1>3 DEF StatesTraced, JarsTraced
  <2>3. CASE Cause(login[n].browser, n)
    BY <1>1, <2>3 DEF Cause
  <2>4. CASE jar[login[n].browser].state = n
    BY <1>1, <1>2, <2>1, <2>4 DEF Cause
  <2>. QED
    BY <2>2, <2>3, <2>4
<1>. QED
  BY <1>1, <1>3 DEF JarsTraced

\* Logins and sessions are drawn one after the other.
LEMMA OrderStep ==
  ASSUME Inductive, StatesTraced, [Next]_vars
  PROVE  InOrder'
<1>1. ASSUME UNCHANGED <<login, logins, tokens, redeemed>>
      PROVE  InOrder'
  BY <1>1 DEF StatesTraced, InOrder
<1>2. ASSUME NEW n, NewSession(n), UNCHANGED <<login, logins>>
      PROVE  InOrder'
  <2>1. tokens' = tokens + 1 /\ redeemed' = [redeemed EXCEPT ![tokens + 1] = n]
    BY <1>2 DEF NewSession
  <2>2. \A t \in Tokens : t > tokens' => t > tokens /\ t # tokens + 1
    BY <2>1, Counters DEF Inductive
  <2>3. \A t \in Tokens : t # tokens + 1 => redeemed'[t] = redeemed[t]
    BY <2>1 DEF Inductive, BrowserTypeOK
  <2>. QED
    BY <1>2, <2>2, <2>3 DEF StatesTraced, InOrder
<1>3. ASSUME NEW q \in Requests, Deliver(q)
      PROVE  InOrder'
  <2>1. UNCHANGED <<logins, tokens, redeemed>>
    BY <1>3 DEF Deliver, service
  <2>2. \A n \in Logins : /\ login'[n].browser = login[n].browser /\ login'[n].state = login[n].state
                          /\ login'[n].redirected =>
                               login[n].redirected
                               \/ (request[q].names = {"oauth"} /\ n = request[q].login)
    BY <1>3 DEF Deliver, Inductive, BrowserTypeOK, Login
  <2>3. request[q].names = {"oauth"} => request[q].login =< logins
    BY DEF StatesTraced, StateTraced, Begun
  <2>. QED
    BY <2>1, <2>2, <2>3 DEF StatesTraced, InOrder
<1>4. ASSUME NEW q \in Requests, OAuthLogin(q)
      PROVE  InOrder'
  BY <1>1, <1>4, LoginTraced DEF AnswerOnly, service
<1>5. ASSUME NEW q \in Requests,
             \/ Signup(q) \/ LoginHandler(q) \/ VerifyOTP(q) \/ CallbackRefused(q) \/ Callback(q)
             \/ Middleware(q) \/ Logout(q) \/ Lose(q)
      PROVE  InOrder'
  <2>1. ASSUME NEW status, AnswerOnly(q, status)
        PROVE  InOrder'
    BY <1>1, <2>1 DEF AnswerOnly, service
  <2>2. CASE Callback(q)
    BY <1>1, <1>2, <2>2 DEF Callback, service
  <2>3. CASE Middleware(q) \/ Logout(q) \/ Lose(q)
    BY <1>1, <2>1, <2>3 DEF Middleware, Logout, Lose, service
  <2>. QED
    BY <1>2, <1>5, <2>1, <2>2, <2>3 DEF Signup, LoginHandler, VerifyOTP, CallbackRefused
<1>6. ASSUME NEW q \in Requests, NEW b \in Browsers,
             \/ \E kind \in {"post", "oauthLogin"} : SendPlain(q, b, kind)
             \/ \E header \in 0..MaxTokens : SendLogout(q, b, header)
             \/ \E n \in Logins, k \in 0..MaxCodes : SendCallback(q, b, n, k)
      PROVE  InOrder'
  BY <1>1, <1>6 DEF SendPlain, SendLogout, SendCallback, Send, service
<1>7. CASE \/ UNCHANGED vars
           \/ \E b \in Browsers : Expire(b)
           \/ \E n \in Logins : Consent(n)
           \/ \E t \in Tokens : SessionEnds(t)
  BY <1>1, <1>7 DEF vars, Expire, Consent, SessionEnds, service
<1>. QED
  BY <1>3, <1>4, <1>5, <1>6, <1>7 DEF Next, Serve

\* Every step keeps the states traced.
LEMMA StatesStep ==
  ASSUME Inductive, StatesTraced, [Next]_vars
  PROVE  StatesTraced'
<1>1. InOrder'
  BY OrderStep
<1>2. ASSUME UNCHANGED request
      PROVE  \A p \in Requests : StateTraced(request[p])'
  BY <1>2, TracedLasts
<1>3. ASSUME NEW q \in Requests, Serve(q)
      PROVE  JarsTraced' /\ \A p \in Requests : StateTraced(request[p])'
  <2>1. CASE OAuthLogin(q) /\ ~AnswerOnly(q, "error")
    BY <2>1, LoginTraced
  <2>2. CASE ~(OAuthLogin(q) /\ ~AnswerOnly(q, "error"))
    <3>1. UNCHANGED <<jar, login, logins>>
      BY <1>3, <2>2 DEF Serve, Signup, LoginHandler, VerifyOTP, OAuthLogin, CallbackRefused,
                        Callback, Middleware, Logout, AtServer, AnswerOnly
    <3>2. \A p \in Requests : StateTraced(request[p])'
      BY <1>3, <2>2, ServeTraced, RefusedTraced, CallbackTraced DEF Serve
    <3>. QED
      BY <3>1, <3>2, StillTraced
  <2>. QED
    BY <2>1, <2>2
<1>4. ASSUME NEW q \in Requests, Deliver(q)
      PROVE  JarsTraced' /\ \A p \in Requests : StateTraced(request[p])'
  <2>1. request' = [request EXCEPT ![q] = IdleRequest]
    BY <1>4 DEF Deliver
  <2>. QED
    BY <1>4, <2>1, DeliverTraced, DoneTraced
<1>5. ASSUME NEW q \in Requests, Lose(q)
      PROVE  JarsTraced' /\ \A p \in Requests : StateTraced(request[p])'
  <2>1. request' = [request EXCEPT ![q] = IdleRequest] /\ UNCHANGED <<jar, login, logins>>
    BY <1>5 DEF Lose
  <2>. QED
    BY <2>1, StillTraced, DoneTraced
<1>6. ASSUME NEW q \in Requests, NEW b \in Browsers,
             \/ \E kind \in {"post", "oauthLogin"} : SendPlain(q, b, kind)
             \/ \E header \in 0..MaxTokens : SendLogout(q, b, header)
             \/ \E n \in Logins, k \in 0..MaxCodes : SendCallback(q, b, n, k)
      PROVE  JarsTraced' /\ \A p \in Requests : StateTraced(request[p])'
  <2>1. UNCHANGED <<jar, login, logins>>
    BY <1>6 DEF SendPlain, SendLogout, SendCallback, Send
  <2>. QED
    BY <1>6, <2>1, StillTraced, SendsTraced
<1>7. ASSUME NEW b \in Browsers, Expire(b)
      PROVE  JarsTraced' /\ \A p \in Requests : StateTraced(request[p])'
  <2>1. UNCHANGED request
    BY <1>7 DEF Expire
  <2>. QED
    BY <1>2, <1>7, <2>1, ExpireTraced
<1>8. ASSUME \/ UNCHANGED vars
             \/ \E n \in Logins : Consent(n)
             \/ \E t \in Tokens : SessionEnds(t)
      PROVE  JarsTraced' /\ \A p \in Requests : StateTraced(request[p])'
  <2>1. UNCHANGED <<request, jar, login, logins>>
    BY <1>8 DEF vars, Consent, SessionEnds
  <2>. QED
    BY <1>2, <2>1, StillTraced
<1>. QED
  BY <1>1, <1>3, <1>4, <1>5, <1>6, <1>7, <1>8 DEF Next, StatesTraced

-------------------------------------------------------------------------------
(* Who knows a token.                                                        *)

\* Browser b can send token t, or has sent it.
Carries(b, t) ==
    \/ jar[b].session = t
    \/ t \in told[b]
    \/ \E q \in Requests : /\ request[q].browser = b
                           /\ t \in {request[q].token, request[q].cookies.session}

\* ... or is being sent it.
Holds(b, t) ==
    \/ Carries(b, t)
    \/ \E q \in Requests : request[q].browser = b /\ request[q].set.session = t

\* Nobody knows a token before its session is created.
TokensIssued ==
    \A t \in Tokens :
        /\ \A b \in Browsers : Carries(b, t) => t =< tokens
        /\ \A q \in Requests :
              t \in {request[q].token, request[q].cookies.session, request[q].set.session}
                  => t =< tokens

OneHolder == \A t \in Tokens : \A b, c \in Browsers : Holds(b, t) /\ Holds(c, t) => b = c

\* A token whose Set-Cookie is under way is in that answer only, and its session
\* cannot have ended but on its own.
Undelivered ==
    \A q \in Requests : \A t \in Tokens : request[q].set.session = t =>
        /\ \A b \in Browsers : jar[b].session # t /\ t \notin told[b]
        /\ \A p \in Requests : t \notin {request[p].token, request[p].cookies.session}
        /\ \A p \in Requests \ {q} : request[p].set.session # t
        /\ t \in live \cup ended

\* Request r is the answer of a Logout that ended session t of browser b.
Ends(r, b, t) ==
    /\ r.pc = "answered" /\ r.browser = b /\ r.token = t
    /\ r.names = {"session"} /\ r.set.session = 0
Ending(b, t) == \E q \in Requests : Ends(request[q], b, t)

DeadCookies ==
    \A b \in Browsers : \A t \in Tokens :
        jar[b].session = t => t \in live \cup ended \/ Ending(b, t)

\* Only an answer sets a cookie.
OnlyAnswersSet == \A q \in Requests : request[q].pc # "answered" => request[q].set.session = 0

TokensTraced == TokensIssued /\ OneHolder /\ Undelivered /\ DeadCookies /\ OnlyAnswersSet

\* A step in which request q becomes k, which mentions tokens that its browser
\* carried and perhaps sets the cookie of a new session; a session that ends is
\* recorded in `ended`, or k is the answer that says so.
Becomes(q, k) ==
    /\ request' = [request EXCEPT ![q] = k]
    /\ told' = told /\ \A b \in Browsers : jar'[b].session = jar[b].session
    /\ \A t \in Tokens : t \in {k.token, k.cookies.session} =>
          k.browser \in Browsers /\ Carries(k.browser, t)
    /\ \/ k.set.session = 0 /\ tokens' = tokens
       \/ /\ k.pc = "answered" /\ k.set.session = tokens + 1
          /\ tokens' = tokens + 1 /\ tokens + 1 \in live'
    /\ \A t \in Tokens : t \in live \cup ended =>
          \/ t \in live' \cup ended'
          \/ t = request[q].token /\ request[q].browser \in Browsers
             /\ Ends(k, request[q].browser, t)
    /\ request[q].pc = "answered" =>
          \A t \in Tokens : t = request[q].token => t \in live' \cup ended'

-------------------------------------------------------------------------------
(* What becomes of the holders of a token.                                   *)

\* Such a step leaves the other requests alone.
LEMMA OthersStay ==
  ASSUME Inductive, NEW q \in Requests, NEW k, Becomes(q, k)
  PROVE  \A p \in Requests : request'[p] = IF p = q THEN k ELSE request[p]
BY DEF Becomes, Inductive, BrowserTypeOK

\* Whoever carries a token after the step carried it before.
LEMMA CarriersStay ==
  ASSUME Inductive, NEW q \in Requests, NEW k, Becomes(q, k), NEW b \in Browsers, NEW t \in Tokens,
         Carries(b, t)'
  PROVE  Carries(b, t)
<1>1. CASE jar'[b].session = t \/ t \in told'[b]
  BY <1>1 DEF Becomes, Carries
<1>2. ASSUME NEW p \in Requests, request'[p].browser = b,
             t \in {request'[p].token, request'[p].cookies.session}
      PROVE  Carries(b, t)
  <2>1. CASE p = q
    <3>1. request'[p] = k
      BY <2>1, OthersStay
    <3>. QED
      BY <1>2, <3>1 DEF Becomes
  <2>2. CASE p # q
    <3>1. request'[p] = request[p]
      BY <2>2, OthersStay
    <3>. QED
      BY <1>2, <3>1 DEF Carries
  <2>. QED
    BY <2>1, <2>2
<1>. QED
  BY <1>1, <1>2 DEF Carries

\* Whoever holds a token after the step held it before, or is sent a new one.
LEMMA HoldersStay ==
  ASSUME Inductive, NEW q \in Requests, NEW k, Becomes(q, k), NEW b \in Browsers, NEW t \in Tokens,
         Holds(b, t)'
  PROVE  Holds(b, t) \/ (t = tokens + 1 /\ k.browser = b)
<1>1. CASE Carries(b, t)'
  BY <1>1, CarriersStay DEF Holds
<1>2. ASSUME NEW p \in Requests, request'[p].browser = b, request'[p].set.session = t
      PROVE  Holds(b, t) \/ (t = tokens + 1 /\ k.browser = b)
  <2>1. CASE p = q
    <3>1. request'[p] = k /\ t # 0
      BY <2>1, OthersStay, Counters DEF Inductive
    <3>. QED
      BY <1>2, <3>1 DEF Becomes
  <2>2. CASE p # q
    <3>1. request'[p] = request[p]
      BY <2>2, OthersStay
    <3>. QED
      BY <1>2, <3>1 DEF Holds
  <2>. QED
    BY <2>1, <2>2
<1>. QED
  BY <1>1, <1>2 DEF Holds

\* A token somebody holds was issued.
LEMMA HeldIssued ==
  ASSUME TokensIssued, NEW b \in Browsers, NEW t \in Tokens, Holds(b, t)
  PROVE  t =< tokens
BY DEF TokensIssued, Holds

\* Tokens are issued before they are known.
LEMMA BecomesIssued ==
  ASSUME Inductive, TokensTraced, NEW q \in Requests, NEW k, Becomes(q, k)
  PROVE  TokensIssued'
<1>1. tokens \in Nat /\ tokens' \in {tokens, tokens + 1}
  BY Counters DEF Becomes, Inductive
<1>2. \A t \in Tokens : t =< tokens => t =< tokens'
  BY <1>1, Counters DEF Inductive
<1>3. ASSUME NEW t \in Tokens, NEW b \in Browsers, Carries(b, t)'
      PROVE  t =< tokens'
  BY <1>2, <1>3, CarriersStay DEF TokensTraced, TokensIssued
<1>4. ASSUME NEW t \in Tokens, NEW p \in Requests,
             t \in {request'[p].token, request'[p].cookies.session, request'[p].set.session}
      PROVE  t =< tokens'
  <2>1. CASE p # q
    <3>1. request'[p] = request[p]
      BY <2>1, OthersStay
    <3>. QED
      BY <1>2, <1>4, <3>1 DEF TokensTraced, TokensIssued
  <2>2. CASE p = q /\ t \in {k.token, k.cookies.session}
    BY <1>2, <2>2 DEF Becomes, TokensTraced, TokensIssued
  <2>3. CASE p = q /\ t = k.set.session
    <3>1. t # 0
      BY Counters DEF Inductive
    <3>. QED
      BY <1>1, <2>3, <3>1 DEF Becomes
  <2>4. p = q => request'[p] = k
    BY OthersStay
  <2>. QED
    BY <1>4, <2>1, <2>2, <2>3, <2>4
<1>. QED
  BY <1>3, <1>4 DEF TokensIssued

\* A token keeps its one holder.
LEMMA BecomesOneHolder ==
  ASSUME Inductive, TokensTraced, NEW q \in Requests, NEW k, Becomes(q, k)
  PROVE  OneHolder'
<1>. SUFFICES ASSUME NEW t \in Tokens, NEW b \in Browsers, NEW c \in Browsers,
                     Holds(b, t)', Holds(c, t)'
              PROVE  b = c
  BY DEF OneHolder
<1>1. Holds(b, t) \/ (t = tokens + 1 /\ k.browser = b)
  BY HoldersStay
<1>2. Holds(c, t) \/ (t = tokens + 1 /\ k.browser = c)
  BY HoldersStay
<1>3. Holds(b, t) \/ Holds(c, t) => t # tokens + 1
  BY HeldIssued, Counters DEF TokensTraced, Inductive
<1>. QED
  BY <1>1, <1>2, <1>3 DEF TokensTraced, OneHolder

\* A token whose Set-Cookie is under way stays unknown.
LEMMA BecomesUndelivered ==
  ASSUME Inductive, TokensTraced, NEW q \in Requests, NEW k, Becomes(q, k)
  PROVE  Undelivered'
<1>. SUFFICES ASSUME NEW p \in Requests, NEW t \in Tokens, request'[p].set.session = t
              PROVE  /\ \A b \in Browsers : jar'[b].session # t /\ t \notin told'[b]
                     /\ \A r \in Requests :
                           t \notin {request'[r].token, request'[r].cookies.session}
                     /\ \A r \in Requests \ {p} : request'[r].set.session # t
                     /\ t \in live' \cup ended'
  BY DEF Undelivered
<1>a. ASSUME NEW b \in Browsers, ~Carries(b, t)
      PROVE  jar'[b].session # t /\ t \notin told'[b]
  BY <1>a DEF Carries, Becomes
<1>0. t # 0
  BY Counters DEF Inductive
<1>1. \A r \in Requests : request'[r] = IF r = q THEN k ELSE request[r]
  BY OthersStay
<1>2. CASE p # q
  <2>1. request[p].set.session = t
    BY <1>1, <1>2
  <2>2. /\ \A b \in Browsers : jar[b].session # t /\ t \notin told[b]
        /\ \A r \in Requests : t \notin {request[r].token, request[r].cookies.session}
        /\ \A r \in Requests \ {p} : request[r].set.session # t
        /\ t \in live \cup ended
    BY <2>1 DEF TokensTraced, Undelivered
  <2>3. \A b \in Browsers : ~Carries(b, t)
    BY <2>2 DEF Carries
  <2>4. t \notin {k.token, k.cookies.session}
    BY <2>3 DEF Becomes
  <2>5. k.set.session # t
    <3>1. t =< tokens
      BY <2>1 DEF TokensTraced, TokensIssued
    <3>. QED
      BY <1>0, <3>1, Counters DEF Becomes, Inductive
  <2>6. t \in live' \cup ended'
    BY <2>2 DEF Becomes
  <2>. QED
    BY <1>1, <1>a, <2>2, <2>3, <2>4, <2>5, <2>6
<1>3. CASE p = q
  <2>1. t = tokens + 1 /\ t \in live' /\ k.set.session = t
    BY <1>0, <1>1, <1>3 DEF Becomes
  <2>2. ~(t =< tokens)
    BY <2>1, Counters DEF Inductive
  <2>3. \A b \in Browsers : ~Carries(b, t)
    BY <2>2 DEF TokensTraced, TokensIssued
  <2>4. \A r \in Requests :
           t \notin {request[r].token, request[r].cookies.session, request[r].set.session}
    BY <2>2 DEF TokensTraced, TokensIssued
  <2>5. t \notin {k.token, k.cookies.session}
    BY <2>3 DEF Becomes
  <2>. QED
    BY <1>1, <1>3, <1>a, <2>1, <2>3, <2>4, <2>5
<1>. QED
  BY <1>2, <1>3

\* A session that ends under a jar's cookie leaves the answer that clears it.
LEMMA BecomesDead ==
  ASSUME Inductive, TokensTraced, NEW q \in Requests, NEW k, Becomes(q, k)
  PROVE  DeadCookies'
<1>. SUFFICES ASSUME NEW b \in Browsers, NEW t \in Tokens, jar[b].session = t
              PROVE  t \in live' \cup ended' \/ Ending(b, t)'
  BY DEF DeadCookies, Becomes
<1>1. \A r \in Requests : request'[r] = IF r = q THEN k ELSE request[r]
  BY OthersStay
<1>2. t \in live \cup ended \/ Ending(b, t)
  BY DEF TokensTraced, DeadCookies
<1>3. CASE t \in live \cup ended /\ t \notin live' \cup ended'
  <2>1. /\ t = request[q].token /\ request[q].browser \in Browsers
        /\ Ends(k, request[q].browser, t)
    BY <1>3 DEF Becomes
  <2>2. Holds(b, t) /\ Holds(request[q].browser, t)
    BY <2>1 DEF Holds, Carries
  <2>3. b = request[q].browser
    BY <2>1, <2>2 DEF TokensTraced, OneHolder
  <2>4. Ends(request'[q], b, t)
    BY <1>1, <2>1, <2>3
  <2>. QED
    BY <2>4 DEF Ending, Ends
<1>4. ASSUME NEW p \in Requests, Ends(request[p], b, t)
      PROVE  t \in live' \cup ended' \/ Ending(b, t)'
  <2>1. CASE p = q
    BY <1>4, <2>1 DEF Ends, Becomes
  <2>2. CASE p # q
    <3>1. Ends(request'[p], b, t)
      BY <1>1, <1>4, <2>2
    <3>. QED
      BY <3>1 DEF Ending, Ends
  <2>. QED
    BY <2>1, <2>2
<1>. QED
  BY <1>2, <1>3, <1>4 DEF Ending

\* Such a step keeps the tokens traced.
LEMMA BecomesTraced ==
  ASSUME Inductive, TokensTraced, NEW q \in Requests, NEW k, Becomes(q, k)
  PROVE  TokensTraced'
<1>1. OnlyAnswersSet'
  <2>1. \A p \in Requests : request'[p] = IF p = q THEN k ELSE request[p]
    BY OthersStay
  <2>2. k.pc # "answered" => k.set.session = 0
    BY DEF Becomes
  <2>. QED
    BY <2>1, <2>2 DEF OnlyAnswersSet, TokensTraced
<1>. QED
  BY <1>1, BecomesIssued, BecomesOneHolder, BecomesUndelivered, BecomesDead DEF TokensTraced

-------------------------------------------------------------------------------
(* The steps and the session cookie.                                         *)

\* A request goes out with the cookie of its jar and with what its browser was
\* told.
LEMMA SendsBecome ==
  ASSUME Inductive, TokensTraced, NEW q \in Requests, NEW b \in Browsers,
         \/ \E kind \in {"post", "oauthLogin"} : SendPlain(q, b, kind)
         \/ \E header \in 0..MaxTokens : SendLogout(q, b, header)
         \/ \E n \in Logins, k \in 0..MaxCodes : SendCallback(q, b, n, k)
  PROVE  TokensTraced'
<1>0. \A t \in Tokens : t # 0
  BY Counters DEF Inductive
<1>1. ASSUME NEW r, NEW k, Send(q, b, r), k = [r EXCEPT !.pc = "server", !.browser = b],
             k.browser = b, k.set.session = 0, k.token \in {0} \cup told[b],
             k.cookies.session \in {0, jar[b].session}
      PROVE  TokensTraced'
  <2>1. /\ request[q].pc = "idle" /\ request' = [request EXCEPT ![q] = k]
        /\ UNCHANGED <<jar, told, live, tokens, ended>>
    BY <1>1 DEF Send, service
  <2>2. Becomes(q, k)
    BY <1>0, <1>1, <2>1 DEF Becomes, Carries
  <2>. QED
    BY <2>2, BecomesTraced
<1>2. ASSUME NEW kind \in {"post", "oauthLogin"}, SendPlain(q, b, kind)
      PROVE  TokensTraced'
  <2>. DEFINE r == [IdleRequest EXCEPT !.kind = kind]
              k == [r EXCEPT !.pc = "server", !.browser = b]
  <2>1. k.browser = b /\ k.set.session = 0 /\ k.token = 0 /\ k.cookies.session = 0
    BY DEF IdleRequest, EmptyJar
  <2>2. Send(q, b, r)
    BY <1>2 DEF SendPlain
  <2>. QED
    BY <1>1, <2>1, <2>2
<1>3. ASSUME NEW header \in 0..MaxTokens, SendLogout(q, b, header)
      PROVE  TokensTraced'
  <2>. DEFINE r == [IdleRequest EXCEPT !.kind = "logout", !.token = header,
                        !.cookies = [EmptyJar EXCEPT !.session = jar[b].session]]
              k == [r EXCEPT !.pc = "server", !.browser = b]
  <2>1. /\ k.browser = b /\ k.set.session = 0 /\ k.token = header
        /\ k.cookies.session = jar[b].session
    BY DEF IdleRequest, EmptyJar
  <2>2. Send(q, b, r) /\ header \in {0} \cup told[b]
    BY <1>3 DEF SendLogout
  <2>. QED
    BY <1>1, <2>1, <2>2
<1>4. ASSUME NEW n \in Logins, NEW c \in 0..MaxCodes, SendCallback(q, b, n, c)
      PROVE  TokensTraced'
  <2>. DEFINE j == [jar[b] EXCEPT !.session = 0]
              r == [IdleRequest EXCEPT !.kind = "callback", !.login = n, !.code = c,
                                       !.cookies = j]
              k == [r EXCEPT !.pc = "server", !.browser = b]
  <2>1. j.session = 0
    BY DEF Inductive, BrowserTypeOK, Jar
  <2>2. Send(q, b, r)
    BY <1>4 DEF SendCallback
  <2>. HIDE DEF j
  <2>3. k.browser = b /\ k.set.session = 0 /\ k.token = 0 /\ k.cookies = j
    BY DEF IdleRequest, EmptyJar
  <2>. QED
    BY <1>1, <2>1, <2>2, <2>3
<1>. QED
  BY <1>2, <1>3, <1>4

\* An answer without cookies forgets the tokens of its request.
LEMMA NoCookiesBecomes ==
  ASSUME Inductive, TokensTraced, NEW q \in Requests, NEW status, NoCookies(q, status),
         request[q].pc # "answered", UNCHANGED <<jar, told, tokens>>,
         live \cup ended \subseteq live' \cup ended'
  PROVE  TokensTraced'
<1>1. PICK k : /\ k = [IdleRequest EXCEPT
                          !.pc = "answered", !.browser = request[q].browser, !.status = status,
                          !.login = IF status = "badState" THEN request[q].login ELSE 0]
               /\ request' = [request EXCEPT ![q] = k]
  BY DEF NoCookies
<1>2. k.token = 0 /\ k.cookies.session = 0 /\ k.set.session = 0
  BY <1>1 DEF IdleRequest, EmptyJar
<1>3. \A t \in Tokens : t # 0
  BY Counters DEF Inductive
<1>4. Becomes(q, k)
  BY <1>1, <1>2, <1>3 DEF Becomes
<1>. QED
  BY <1>4, BecomesTraced

\* The answer of a sign-in sets the cookie of the new session.
LEMMA SignInBecomes ==
  ASSUME Inductive, TokensTraced, NEW q \in Requests, NEW n, NEW names, NEW set, NewSession(n),
         Answered(q, names, set), set.session = tokens + 1, request[q].pc = "server",
         UNCHANGED <<jar, told, ended>>
  PROVE  TokensTraced'
<1>1. PICK k : /\ k = [IdleRequest EXCEPT
                          !.pc = "answered", !.browser = request[q].browser,
                          !.token = request[q].token, !.status = "ok", !.names = names,
                          !.set = set]
               /\ request' = [request EXCEPT ![q] = k]
  BY DEF Answered
<1>2. /\ k.browser = request[q].browser /\ k.token = request[q].token
      /\ k.cookies.session = 0 /\ k.set = set /\ k.pc = "answered"
  BY <1>1 DEF IdleRequest, EmptyJar
<1>3. \A t \in Tokens : t # 0
  BY Counters DEF Inductive
<1>4. request[q].browser \in Browsers
  BY DEF Inductive, RequestsOwned, RequestOwned
<1>5. tokens' = tokens + 1 /\ live' = live \cup {tokens + 1}
  BY DEF NewSession
<1>6. \A t \in Tokens : t = k.token => Carries(k.browser, t)
  BY <1>2 DEF Carries
<1>7. Becomes(q, k)
  BY <1>1, <1>2, <1>3, <1>4, <1>5, <1>6 DEF Becomes
<1>. QED
  BY <1>7, BecomesTraced

\* The posts.
LEMMA PostBecomes ==
  ASSUME Inductive, TokensTraced, NEW q \in Requests, Signup(q) \/ LoginHandler(q) \/ VerifyOTP(q)
  PROVE  TokensTraced'
<1>1. request[q].pc = "server" /\ UNCHANGED <<jar, told>>
  BY DEF Signup, LoginHandler, VerifyOTP, AtServer
<1>2. ASSUME NEW status, AnswerOnly(q, status)
      PROVE  TokensTraced'
  <2>1. NoCookies(q, status) /\ UNCHANGED <<live, tokens, ended>>
    BY <1>2 DEF AnswerOnly, service
  <2>. QED
    BY <1>1, <2>1, NoCookiesBecomes
<1>3. ASSUME NewSession(0), Answered(q, {"session"}, setSessionCookie), UNCHANGED ended
      PROVE  TokensTraced'
  <2>1. setSessionCookie.session = tokens + 1
    BY DEF setSessionCookie, EmptyJar
  <2>. QED
    BY <1>1, <1>3, <2>1, SignInBecomes
<1>. QED
  BY <1>2, <1>3 DEF Signup, LoginHandler, VerifyOTP

\* The OAuth handlers.
LEMMA OAuthBecomes ==
  ASSUME Inductive, TokensTraced, NEW q \in Requests,
         OAuthLogin(q) \/ CallbackRefused(q) \/ Callback(q)
  PROVE  TokensTraced'
<1>1. request[q].pc = "server" /\ UNCHANGED <<jar, told>>
  BY DEF OAuthLogin, CallbackRefused, Callback, AtServer
<1>2. ASSUME NEW status, AnswerOnly(q, status)
      PROVE  TokensTraced'
  <2>1. NoCookies(q, status) /\ UNCHANGED <<live, tokens, ended>>
    BY <1>2 DEF AnswerOnly, service
  <2>. QED
    BY <1>1, <2>1, NoCookiesBecomes
<1>3. CASE OAuthLogin(q) /\ ~AnswerOnly(q, "error")
  <2>. DEFINE n == logins + 1
  <2>1. PICK k : /\ k = [IdleRequest EXCEPT
                            !.pc = "answered", !.browser = request[q].browser, !.login = n,
                            !.status = "ok", !.names = {"oauth"},
                            !.set = setSecureCookie(generateRandomString(n),
                                                    generateRandomString(n))]
                 /\ request' = [request EXCEPT ![q] = k]
    BY <1>3 DEF OAuthLogin
  <2>2. k.token = 0 /\ k.cookies.session = 0 /\ k.set.session = 0
    BY <2>1 DEF IdleRequest, EmptyJar, setSecureCookie
  <2>3. UNCHANGED <<live, tokens, ended>>
    BY <1>3 DEF OAuthLogin, service
  <2>4. \A t \in Tokens : t # 0
    BY Counters DEF Inductive
  <2>5. Becomes(q, k)
    BY <1>1, <2>1, <2>2, <2>3, <2>4 DEF Becomes
  <2>. QED
    BY <2>5, BecomesTraced
<1>4. CASE Callback(q)
  <2>1. CASE NoCookies(q, "error") /\ UNCHANGED service
    BY <1>1, <1>4, <2>1, NoCookiesBecomes DEF Callback, service
  <2>2. ASSUME NEW n, NewSession(n),
               Answered(q, {"session", "oauth"}, clearCookie(setSessionCookie))
        PROVE  TokensTraced'
    <3>1. clearCookie(setSessionCookie).session = tokens + 1
      BY DEF clearCookie, setSessionCookie, EmptyJar
    <3>2. UNCHANGED ended
      BY <1>4 DEF Callback
    <3>. QED
      BY <1>1, <2>2, <3>1, <3>2, SignInBecomes
  <2>. QED
    BY <1>4, <2>1, <2>2 DEF Callback
<1>. QED
  BY <1>2, <1>3, <1>4 DEF CallbackRefused

\* The middleware hands on a token of the request; a Logout ends its session and
\* says so, or reports an error.
LEMMA LogoutBecomes ==
  ASSUME Inductive, TokensTraced, NEW q \in Requests, Middleware(q) \/ Logout(q)
  PROVE  TokensTraced'
<1>0. request[q].pc \in {"server", "handler"}
  BY DEF Middleware, Logout, AtServer
<1>1. request[q].browser \in Browsers /\ \A t \in Tokens : t # 0
  BY <1>0, Counters DEF Inductive, RequestsOwned, RequestOwned
<1>2. \A t \in Tokens : t \in {request[q].token, request[q].cookies.session}
                            => Carries(request[q].browser, t)
  BY DEF Carries
<1>3. CASE Middleware(q) /\ AnswerOnly(q, "error")
  <2>1. NoCookies(q, "error") /\ UNCHANGED <<jar, told, live, tokens, ended>>
    BY <1>3 DEF AnswerOnly, Middleware, AtServer, service
  <2>. QED
    BY <1>0, <2>1, NoCookiesBecomes
<1>4. CASE Middleware(q) /\ ~AnswerOnly(q, "error")
  <2>. DEFINE token == IF request[q].token # 0 THEN request[q].token
                                               ELSE request[q].cookies.session
  <2>1. PICK k : /\ k = [request[q] EXCEPT !.pc = "handler", !.cookies = EmptyJar,
                                           !.token = token]
                 /\ request' = [request EXCEPT ![q] = k]
    BY <1>4 DEF Middleware, Inductive, BrowserTypeOK
  <2>2. /\ k.browser = request[q].browser /\ k.token = token /\ k.cookies.session = 0
        /\ k.set = request[q].set
    BY <2>1 DEF Inductive, BrowserTypeOK, Request, EmptyJar
  <2>3. request[q].pc = "server" /\ UNCHANGED <<jar, told, live, tokens, ended>>
    BY <1>4 DEF Middleware, AtServer, service
  <2>5. Becomes(q, k)
    BY <1>1, <1>2, <2>1, <2>2, <2>3 DEF Becomes, TokensTraced, OnlyAnswersSet
  <2>. QED
    BY <2>5, BecomesTraced
<1>5. CASE Logout(q) /\ Answered(q, {"session"}, clearSessionCookie)
  <2>1. PICK k : /\ k = [IdleRequest EXCEPT
                            !.pc = "answered", !.browser = request[q].browser,
                            !.token = request[q].token, !.status = "ok", !.names = {"session"},
                            !.set = clearSessionCookie]
                 /\ request' = [request EXCEPT ![q] = k]
    BY <1>5 DEF Answered
  <2>2. /\ k.pc = "answered" /\ k.browser = request[q].browser /\ k.token = request[q].token
        /\ k.cookies.session = 0 /\ k.set.session = 0 /\ k.names = {"session"}
    BY <2>1 DEF IdleRequest, EmptyJar, clearSessionCookie
  <2>3. request[q].pc = "handler" /\ UNCHANGED <<jar, told, tokens>>
    BY <1>5 DEF Logout
  <2>4. live \cup ended \subseteq live' \cup ended' \cup {request[q].token}
    BY <1>5 DEF Logout
  <2>5. \A t \in Tokens : t = request[q].token => Ends(k, request[q].browser, t)
    BY <2>2 DEF Ends
  <2>6. Becomes(q, k)
    BY <1>1, <1>2, <2>1, <2>2, <2>3, <2>4, <2>5 DEF Becomes
  <2>. QED
    BY <2>6, BecomesTraced
<1>6. CASE Logout(q) /\ ~Answered(q, {"session"}, clearSessionCookie)
  <2>1. /\ NoCookies(q, "error") /\ UNCHANGED <<jar, told, tokens>>
        /\ live \cup ended \subseteq live' \cup ended'
    BY <1>6 DEF Logout
  <2>. QED
    BY <1>0, <1>6, <2>1, NoCookiesBecomes DEF Logout
<1>. QED
  BY <1>3, <1>4, <1>5, <1>6

\* A step that touches no request and no session cookie, and in which sessions
\* only end on their own.
LEMMA RestTraced ==
  ASSUME TokensTraced, UNCHANGED <<request, told, tokens>>,
         \A b \in Browsers : jar'[b].session = jar[b].session,
         live \cup ended \subseteq live' \cup ended'
  PROVE  TokensTraced'
<1>1. TokensIssued' /\ OneHolder' /\ OnlyAnswersSet'
  BY DEF TokensTraced, TokensIssued, OneHolder, OnlyAnswersSet, Holds, Carries
<1>2. Undelivered'
  BY DEF TokensTraced, Undelivered
<1>3. DeadCookies'
  BY DEF TokensTraced, DeadCookies, Ending, Ends
<1>. QED
  BY <1>1, <1>2, <1>3 DEF TokensTraced

\* A request that is over mentions nothing.
LEMMA IdleMentions ==
  /\ IdleRequest.token = 0 /\ IdleRequest.cookies.session = 0 /\ IdleRequest.set.session = 0
  /\ IdleRequest.pc = "idle"
BY DEF IdleRequest, EmptyJar

\* The answer of a Logout that is lost leaves its session in `ended`.
LEMMA LoseTraced ==
  ASSUME Inductive, TokensTraced, NEW q \in Requests, Lose(q)
  PROVE  TokensTraced'
<1>1. /\ request' = [request EXCEPT ![q] = IdleRequest]
      /\ ended' = ended \cup ({request[q].token} \ {0})
      /\ UNCHANGED <<jar, told, live, tokens>>
  BY DEF Lose, service
<1>2. \A t \in Tokens : t # 0
  BY Counters DEF Inductive
<1>3. Becomes(q, IdleRequest)
  BY <1>1, <1>2, IdleMentions DEF Becomes
<1>. QED
  BY <1>3, BecomesTraced

\* An answer that arrives hands its tokens from the request to the jar and the
\* scripts of the same browser, and replaces the cookie of a session that ended.
LEMMA DeliverTraces ==
  ASSUME Inductive, TokensTraced, NEW q \in Requests, Deliver(q)
  PROVE  TokensTraced'
<1>. DEFINE r == request[q]
            a == r.browser
<1>1. r.pc = "answered" /\ a \in Browsers /\ r.set.session \in 0..MaxTokens
  BY DEF Deliver, Inductive, RequestsOwned, RequestOwned, BrowserTypeOK, Request, Jar
<1>2. \A p \in Requests : request'[p] = IF p = q THEN IdleRequest ELSE request[p]
  BY DEF Deliver, Inductive, BrowserTypeOK
<1>3. UNCHANGED <<live, tokens, ended>>
  BY DEF Deliver, service
<1>4. \A b \in Browsers : b # a => jar'[b] = jar[b] /\ told'[b] = told[b]
  BY DEF Deliver, Inductive, BrowserTypeOK
<1>5. /\ jar'[a].session = IF "session" \in r.names THEN r.set.session ELSE jar[a].session
      /\ told'[a] \subseteq told[a] \cup {r.set.session}
  BY <1>1 DEF Deliver, Inductive, BrowserTypeOK
<1>6. \A t \in Tokens : t # 0
  BY Counters DEF Inductive
<1>. HIDE DEF r, a
<1>7. ASSUME NEW t \in Tokens, NEW b \in Browsers, jar'[b].session = t \/ t \in told'[b]
      PROVE  Holds(b, t)
  <2>1. CASE b # a
    BY <1>4, <1>7, <2>1 DEF Holds, Carries
  <2>2. CASE b = a
    BY <1>5, <1>7, <2>2 DEF Holds, Carries, r, a
  <2>. QED
    BY <2>1, <2>2
<1>8. ASSUME NEW t \in Tokens, NEW b \in Browsers, Holds(b, t)'
      PROVE  Holds(b, t)
  <2>1. CASE jar'[b].session = t \/ t \in told'[b]
    BY <1>7, <2>1
  <2>2. ASSUME NEW p \in Requests, request'[p].browser = b,
               t \in {request'[p].token, request'[p].cookies.session, request'[p].set.session}
        PROVE  Holds(b, t)
    <3>1. p # q
      BY <1>2, <1>6, <2>2, IdleMentions
    <3>2. request'[p] = request[p]
      BY <1>2, <3>1
    <3>. QED
      BY <2>2, <3>2 DEF Holds, Carries
  <2>. QED
    BY <1>8, <2>1, <2>2 DEF Holds, Carries
<1>9. OneHolder'
  BY <1>8 DEF TokensTraced, OneHolder
<1>10. TokensIssued'
  <2>1. ASSUME NEW t \in Tokens, NEW b \in Browsers, Carries(b, t)'
        PROVE  t =< tokens'
    BY <1>3, <1>8, <2>1, HeldIssued DEF TokensTraced, Holds
  <2>2. ASSUME NEW t \in Tokens, NEW p \in Requests,
               t \in {request'[p].token, request'[p].cookies.session, request'[p].set.session}
        PROVE  t =< tokens'
    <3>1. p # q
      BY <1>2, <1>6, <2>2, IdleMentions
    <3>2. request'[p] = request[p]
      BY <1>2, <3>1
    <3>. QED
      BY <1>3, <2>2, <3>2 DEF TokensTraced, TokensIssued
  <2>. QED
    BY <2>1, <2>2 DEF TokensIssued
<1>11. Undelivered'
  <2>. SUFFICES ASSUME NEW p \in Requests, NEW t \in Tokens, request'[p].set.session = t
                PROVE  /\ \A b \in Browsers : jar'[b].session # t /\ t \notin told'[b]
                       /\ \A s \in Requests :
                             t \notin {request'[s].token, request'[s].cookies.session}
                       /\ \A s \in Requests \ {p} : request'[s].set.session # t
                       /\ t \in live' \cup ended'
    BY DEF Undelivered
  <2>1. p # q
    BY <1>2, <1>6, IdleMentions
  <2>2. request[p].set.session = t
    BY <1>2, <2>1
  <2>3. /\ \A b \in Browsers : jar[b].session # t /\ t \notin told[b]
        /\ \A s \in Requests : t \notin {request[s].token, request[s].cookies.session}
        /\ \A s \in Requests \ {p} : request[s].set.session # t
        /\ t \in live \cup ended
    BY <2>2 DEF TokensTraced, Undelivered
  <2>4. r.set.session # t
    BY <2>1, <2>3 DEF r
  <2>5. \A b \in Browsers : jar'[b].session # t /\ t \notin told'[b]
    BY <1>4, <1>5, <2>3, <2>4
  <2>. QED
    BY <1>2, <1>3, <1>6, <2>3, <2>5, IdleMentions
<1>12. DeadCookies'
  <2>. SUFFICES ASSUME NEW b \in Browsers, NEW t \in Tokens, jar'[b].session = t
                PROVE  t \in live \cup ended \/ Ending(b, t)'
    BY <1>3 DEF DeadCookies
  <2>1. CASE b = a /\ "session" \in r.names
    BY <1>5, <2>1 DEF TokensTraced, Undelivered, r
  <2>2. CASE ~(b = a /\ "session" \in r.names)
    <3>1. jar[b].session = t
      BY <1>4, <1>5, <2>2
    <3>2. ASSUME NEW p \in Requests, Ends(request[p], b, t)
          PROVE  Ending(b, t)'
      <4>1. p # q
        BY <2>2, <3>2 DEF Ends, r, a
      <4>2. Ends(request'[p], b, t)
        BY <1>2, <3>2, <4>1
      <4>. QED
        BY <4>2 DEF Ending, Ends
    <3>. QED
      BY <3>1, <3>2 DEF TokensTraced, DeadCookies, Ending
  <2>. QED
    BY <2>1, <2>2
<1>13. OnlyAnswersSet'
  BY <1>2, IdleMentions DEF TokensTraced, OnlyAnswersSet
<1>. QED
  BY <1>9, <1>10, <1>11, <1>12, <1>13 DEF TokensTraced

\* Every step keeps the tokens traced.
LEMMA TokensStep ==
  ASSUME Inductive, TokensTraced, [Next]_vars
  PROVE  TokensTraced'
<1>1. ASSUME NEW q \in Requests, Serve(q)
      PROVE  TokensTraced'
  BY <1>1, PostBecomes, OAuthBecomes, LogoutBecomes DEF Serve
<1>2. ASSUME NEW q \in Requests, NEW b \in Browsers,
             \/ \E kind \in {"post", "oauthLogin"} : SendPlain(q, b, kind)
             \/ \E header \in 0..MaxTokens : SendLogout(q, b, header)
             \/ \E n \in Logins, k \in 0..MaxCodes : SendCallback(q, b, n, k)
      PROVE  TokensTraced'
  BY <1>2, SendsBecome
<1>3. ASSUME NEW q \in Requests, Deliver(q) \/ Lose(q)
      PROVE  TokensTraced'
  BY <1>3, DeliverTraces, LoseTraced
<1>4. ASSUME NEW b \in Browsers, Expire(b)
      PROVE  TokensTraced'
  <2>1. /\ \A c \in Browsers : jar'[c].session = jar[c].session
        /\ UNCHANGED <<request, told, tokens, live, ended>>
    BY <1>4 DEF Expire, service, Inductive, BrowserTypeOK, Jar
  <2>. QED
    BY <2>1, RestTraced
<1>5. ASSUME NEW t \in Tokens, SessionEnds(t)
      PROVE  TokensTraced'
  <2>1. /\ UNCHANGED <<request, jar, told, tokens>>
        /\ live \cup ended \subseteq live' \cup ended'
    BY <1>5 DEF SessionEnds
  <2>. QED
    BY <2>1, RestTraced
<1>6. CASE UNCHANGED vars \/ \E n \in Logins : Consent(n)
  <2>1. UNCHANGED <<request, jar, told, tokens, live, ended>>
    BY <1>6 DEF vars, Consent, service
  <2>. QED
    BY <2>1, RestTraced
<1>. QED
  BY <1>1, <1>2, <1>3, <1>4, <1>5, <1>6 DEF Next

-------------------------------------------------------------------------------
(* The theorems.                                                             *)

\* Before anything happened, nothing is owed.
LEMMA TracedInit ==
  ASSUME Init
  PROVE  StatesTraced /\ TokensTraced
<1>1. /\ \A b \in Browsers : jar[b].session = 0 /\ told[b] = {}
      /\ \A q \in Requests : request[q] = IdleRequest
      /\ \A n \in Logins : login[n].browser = NoBrowser /\ ~login[n].redirected
      /\ \A t \in Tokens : redeemed[t] = 0 /\ t # 0
      /\ \A n \in Logins : ~(n =< logins)
  BY BrowserBounds DEF Init, EmptyJar, Logins, Tokens
<1>2. IdleRequest.status = "none" /\ IdleRequest.names = {} /\ IdleRequest.kind = "none"
  BY DEF IdleRequest
<1>3. InOrder /\ JarsTraced
  BY <1>1 DEF InOrder, JarsTraced
<1>4. \A q \in Requests : StateTraced(request[q])
  BY <1>1, <1>2, IdleMentions DEF StateTraced
<1>5. TokensIssued /\ OneHolder /\ Undelivered /\ OnlyAnswersSet
  BY <1>1, IdleMentions DEF TokensIssued, OneHolder, Undelivered, OnlyAnswersSet, Holds, Carries
<1>6. DeadCookies
  BY <1>1 DEF DeadCookies
<1>. QED
  BY <1>3, <1>4, <1>5, <1>6 DEF StatesTraced, TokensTraced

\* The invariants of both cookies hold in every state that can be reached.
THEOREM CookiesTraced == Spec => [](Inductive /\ StatesTraced /\ TokensTraced)
<1>1. Init => Inductive /\ StatesTraced /\ TokensTraced
  BY BrowserInit, TracedInit
<1>2. Inductive /\ StatesTraced /\ TokensTraced /\ [Next]_vars
          => (Inductive /\ StatesTraced /\ TokensTraced)'
  BY BrowserStep, StatesStep, TokensStep
<1>. QED
  BY <1>1, <1>2, PTL DEF Spec

\* Callback refuses a state only for a cause: the login is another browser's, or
\* one of several of this browser, or has its session, or is 15 minutes old.
THEOREM StatesRefusedForCause == Spec => []RefusedForCause
<1>1. StatesTraced => RefusedForCause
  BY DEF StatesTraced, StateTraced, RefusedForCause, Cause
<1>. QED
  BY <1>1, CookiesTraced, PTL

\* A browser with nothing under way keeps the cookie of a dead session only if the
\* session ended on its own, in a Logout that reported an error or in one whose
\* answer was lost.
THEOREM CookiesDeadForCause == Spec => []DeadCookieForCause
<1>1. ASSUME Inductive, TokensTraced
      PROVE  DeadCookieForCause
  <2>. SUFFICES ASSUME NEW b \in Browsers, jar[b].session # 0, jar[b].session \notin live,
                       \A q \in Requests : request[q].browser # b
                PROVE  jar[b].session \in ended
    BY DEF DeadCookieForCause
  <2>1. jar[b].session \in Tokens
    BY <1>1, BrowserBounds DEF Inductive, BrowserTypeOK, Jar, Tokens
  <2>. QED
    BY <1>1, <2>1 DEF TokensTraced, DeadCookies, Ending, Ends
<1>. QED
  BY <1>1, CookiesTraced, PTL
================================================================================
