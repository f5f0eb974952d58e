--------------------------- MODULE BrowserFlowsProofs --------------------------
(***************************************************************************)
(* OwnLoginOnly for any number of browsers, requests, logins and sessions. *)
(*                                                                         *)
(* The invariant follows a nonce on its way: whoever has a nonce, in a     *)
(* cookie jar, in the cookies of a request under way or in the Set-Cookie  *)
(* of an answer, is the browser whose login drew it (Drawn makes the nonce *)
(* name that login), and so is the session that the nonce let through.     *)
(***************************************************************************)
EXTENDS BrowserFlows, TLAPS

-------------------------------------------------------------------------------
(* Types.                                                                    *)

\* The empty jar and the idle request are well typed.
LEMMA EmptyTypes ==
  /\ EmptyJar \in Jar
  /\ IdleRequest \in Request
<1>1. EmptyJar \in Jar
  BY BrowserBounds DEF EmptyJar, Jar
<1>. QED
  BY <1>1, BrowserBounds DEF IdleRequest, Request, Kinds, Statuses

\* A jar without its OAuth cookies is a jar.
LEMMA ClearedJar ==
  ASSUME NEW j \in Jar
  PROVE  [j EXCEPT !.state = 0, !.nonce = 0] \in Jar
<1>1. 0 \in 0..MaxLogins
  BY BrowserBounds
<1>. QED
  BY <1>1 DEF Jar

\* Requests stay requests when one of them is replaced by a request that is not
\* in its handler, or is there with a token.
LEMMA ReplaceRequest ==
  ASSUME BrowserTypeOK, NEW q \in Requests, NEW r \in Request,
         r.pc = "handler" => r.token \in Tokens,
         request' = [request EXCEPT ![q] = r]
  PROVE  /\ request' \in [Requests -> Request]
         /\ \A p \in Requests : request'[p].pc = "handler" => request'[p].token \in Tokens
  BY DEF BrowserTypeOK

\* An answer that sets no cookie keeps the requests typed.
LEMMA NoCookiesType ==
  ASSUME BrowserTypeOK, NEW q \in Requests, NEW status \in Statuses, NoCookies(q, status)
  PROVE  /\ request' \in [Requests -> Request]
         /\ \A p \in Requests : request'[p].pc = "handler" => request'[p].token \in Tokens
<1>. DEFINE r == [IdleRequest EXCEPT
                      !.pc = "answered", !.browser = request[q].browser, !.status = status,
                      !.login = IF status = "badState" THEN request[q].login ELSE 0]
<1>1. request' = [request EXCEPT ![q] = r]
  BY DEF NoCookies
<1>2. r \in Request
  <2>1. request[q].browser \in Browsers \cup {NoBrowser} /\ request[q].login \in 0..MaxLogins
    BY DEF BrowserTypeOK, Request
  <2>. QED
    BY <2>1, EmptyTypes, BrowserBounds DEF IdleRequest, Request
<1>3. r.pc = "answered"
  BY DEF IdleRequest
<1>. QED
  BY <1>1, <1>2, <1>3, ReplaceRequest

\* An answer with cookies keeps the requests typed.
LEMMA AnsweredType ==
  ASSUME BrowserTypeOK, NEW q \in Requests, NEW names \in SUBSET {"session", "oauth"},
         NEW set \in Jar, Answered(q, names, set)
  PROVE  /\ request' \in [Requests -> Request]
         /\ \A p \in Requests : request'[p].pc = "handler" => request'[p].token \in Tokens
<1>. DEFINE r == [IdleRequest EXCEPT
                    !.pc = "answered", !.browser = request[q].browser, !.token = request[q].token,
                    !.status = "ok", !.names = names, !.set = set]
<1>1. request' = [request EXCEPT ![q] = r]
  BY DEF Answered
<1>2. r \in Request
  <2>1. request[q].browser \in Browsers \cup {NoBrowser} /\ request[q].token \in 0..MaxTokens
    BY DEF BrowserTypeOK, Request
  <2>. QED
    BY <2>1, EmptyTypes, BrowserBounds DEF IdleRequest, Request, Statuses
<1>3. r.pc = "answered"
  BY DEF IdleRequest
<1>. QED
  BY <1>1, <1>2, <1>3, ReplaceRequest

\* A new session keeps the session table and its history typed, and its cookie is one.
LEMMA NewSessionType ==
  ASSUME BrowserTypeOK, NEW n \in 0..MaxLogins, NewSession(n)
  PROVE  /\ live' \in SUBSET Tokens /\ tokens' \in 0..MaxTokens
         /\ redeemed' \in [Tokens -> 0..MaxLogins]
         /\ setSessionCookie \in Jar
  BY BrowserBounds DEF BrowserTypeOK, NewSession, setSessionCookie, Tokens, Jar, EmptyJar

\* Sending a well-typed request keeps all types.
LEMMA SendType ==
  ASSUME BrowserTypeOK, NEW q \in Requests, NEW b \in Browsers, NEW r \in Request, Send(q, b, r)
  PROVE  BrowserTypeOK'
<1>. DEFINE s == [r EXCEPT !.pc = "server", !.browser = b]
<1>1. s \in Request /\ s.pc = "server"
  BY DEF Request
<1>2. request' = [request EXCEPT ![q] = s]
  BY DEF Send
<1>3. /\ request' \in [Requests -> Request]
      /\ \A p \in Requests : request'[p].pc = "handler" => request'[p].token \in Tokens
  BY <1>1, <1>2, ReplaceRequest
<1>4. UNCHANGED <<jar, told, login, logins, code, codes, live, tokens, redeemed, ended, late>>
  BY DEF Send, provider, service
<1>. QED
  BY <1>3, <1>4 DEF BrowserTypeOK

\* Every request that a browser can send is well typed.
LEMMA SendsType ==
  ASSUME BrowserTypeOK, NEW q \in Requests, NEW b \in Browsers,
         \/ \E kind \in {"post", "oauthLogin"} : SendPlain(q, b, kind)
         \/ \E header \in 0..MaxTokens : SendLogout(q, b, header)
         \/ \E n \in Logins, k \in 0..MaxCodes : SendCallback(q, b, n, k)
  PROVE  BrowserTypeOK'
<1>0. jar[b] \in Jar
  BY DEF BrowserTypeOK
<1>1. ASSUME NEW kind \in {"post", "oauthLogin"}, SendPlain(q, b, kind)
      PROVE  BrowserTypeOK'
  <2>1. [IdleRequest EXCEPT !.kind = kind] \in Request
    BY EmptyTypes DEF IdleRequest, Request, Kinds
  <2>. QED
    BY <1>1, <2>1, SendType DEF SendPlain
<1>2. ASSUME NEW header \in 0..MaxTokens, SendLogout(q, b, header)
      PROVE  BrowserTypeOK'
  <2>1. [EmptyJar EXCEPT !.session = jar[b].session] \in Jar
    BY <1>0, EmptyTypes DEF EmptyJar, Jar
  <2>2. [IdleRequest EXCEPT !.kind = "logout", !.token = header,
                            !.cookies = [EmptyJar EXCEPT !.session = jar[b].session]] \in Request
    BY <2>1, EmptyTypes DEF IdleRequest, Request, Kinds
  <2>. QED
    BY <1>2, <2>2, SendType DEF SendLogout
<1>3. ASSUME NEW n \in Logins, NEW k \in 0..MaxCodes, SendCallback(q, b, n, k)
      PROVE  BrowserTypeOK'
  <2>1. [jar[b] EXCEPT !.session = 0] \in Jar
    BY <1>0, BrowserBounds DEF Jar
  <2>3. n \in 0..MaxLogins
    BY BrowserBounds DEF Logins
  <2>2. [IdleRequest EXCEPT !.kind = "callback", !.login = n, !.code = k,
                            !.cookies = [jar[b] EXCEPT !.session = 0]] \in Request
    BY <2>1, <2>3, EmptyTypes DEF IdleRequest, Request, Kinds
  <2>. QED
    BY <1>3, <2>2, SendType DEF SendCallback
<1>. QED
  BY <1>1, <1>2, <1>3

\* An answer that arrives leaves a well-typed jar.
LEMMA DeliverType ==
  ASSUME BrowserTypeOK, NEW q \in Requests, request[q].browser \in Browsers, Deliver(q)
  PROVE  BrowserTypeOK'
<1>. DEFINE r == request[q]
            b == request[q].browser
            new == [session |-> IF "session" \in r.names THEN r.set.session ELSE jar[b].session,
                    state |-> IF "oauth" \in r.names THEN r.set.state ELSE jar[b].state,
                    nonce |-> IF "oauth" \in r.names THEN r.set.nonce ELSE jar[b].nonce]
<1>1. r \in Request /\ jar[b] \in Jar
  BY DEF BrowserTypeOK
<1>2. r.set \in Jar
  BY <1>1 DEF Request
<1>3. new \in Jar
  BY <1>1, <1>2 DEF Jar
<1>4. jar' = [jar EXCEPT ![b] = new]
  BY DEF Deliver
<1>5. jar' \in [Browsers -> Jar]
  BY <1>3, <1>4 DEF BrowserTypeOK
<1>6. told' \in [Browsers -> SUBSET Tokens]
  <2>1. r.set.session \in 0..MaxTokens
    BY <1>2 DEF Jar
  <2>2. {r.set.session} \ {0} \subseteq Tokens
    BY <2>1, BrowserBounds DEF Tokens
  <2>3. told' = [told EXCEPT ![b] =
                   @ \cup (IF r.names = {"session"} THEN {r.set.session} \ {0} ELSE {})]
    BY DEF Deliver
  <2>. QED
    BY <2>2, <2>3 DEF BrowserTypeOK
<1>7. login' \in [Logins -> Login]
  <2>1. \A n \in Logins :
          [login[n] EXCEPT !.redirected = @ \/ (r.names = {"oauth"} /\ n = r.login)] \in Login
    BY DEF BrowserTypeOK, Login
  <2>. QED
    BY <2>1 DEF Deliver
<1>8. /\ request' \in [Requests -> Request]
      /\ \A p \in Requests : request'[p].pc = "handler" => request'[p].token \in Tokens
  <2>1. request' = [request EXCEPT ![q] = IdleRequest] /\ IdleRequest.pc = "idle"
    BY DEF Deliver, IdleRequest
  <2>. QED
    BY <2>1, EmptyTypes, ReplaceRequest
<1>9. UNCHANGED <<logins, code, codes, live, tokens, redeemed, ended, late>>
  BY DEF Deliver, provider, service
<1>. QED
  BY <1>5, <1>6, <1>7, <1>8, <1>9 DEF BrowserTypeOK

\* Lost answers, expiring cookies, consent and sessions that end keep all types.
LEMMA BrowserMovesType ==
  ASSUME BrowserTypeOK,
         \/ \E q \in Requests : Lose(q)
         \/ \E b \in Browsers : Expire(b)
         \/ \E n \in Logins : Consent(n)
         \/ \E t \in Tokens : SessionEnds(t)
  PROVE  BrowserTypeOK'
<1>1. ASSUME NEW q \in Requests, Lose(q)
      PROVE  BrowserTypeOK'
  <2>1. request' = [request EXCEPT ![q] = IdleRequest] /\ IdleRequest.pc = "idle"
    BY <1>1 DEF Lose, IdleRequest
  <2>2. /\ request' \in [Requests -> Request]
        /\ \A p \in Requests : request'[p].pc = "handler" => request'[p].token \in Tokens
    BY <2>1, EmptyTypes, ReplaceRequest
  <2>3. ended' \in SUBSET Tokens
    <3>1. request[q].token \in 0..MaxTokens
      BY DEF BrowserTypeOK, Request
    <3>2. ended' = ended \cup ({request[q].token} \ {0})
      BY <1>1 DEF Lose
    <3>3. {request[q].token} \ {0} \subseteq Tokens
      BY <3>1, BrowserBounds DEF Tokens
    <3>. QED
      BY <3>2, <3>3 DEF BrowserTypeOK
  <2>4. UNCHANGED <<jar, told, login, logins, code, codes, live, tokens, redeemed, late>>
    BY <1>1 DEF Lose, provider, service
  <2>. QED
    BY <2>2, <2>3, <2>4 DEF BrowserTypeOK
<1>2. ASSUME NEW b \in Browsers, Expire(b)
      PROVE  BrowserTypeOK'
  <2>1. jar[b] \in Jar /\ jar[b].state # 0
    BY <1>2 DEF Expire, BrowserTypeOK
  <2>2. jar' = [jar EXCEPT ![b] = [jar[b] EXCEPT !.state = 0, !.nonce = 0]]
    BY <1>2 DEF Expire, BrowserTypeOK
  <2>6. [jar[b] EXCEPT !.state = 0, !.nonce = 0] \in Jar
    BY <2>1, ClearedJar
  <2>3. jar' \in [Browsers -> Jar]
    BY <2>2, <2>6 DEF BrowserTypeOK
  <2>4. late' \in SUBSET Logins
    BY <1>2, <2>1, BrowserBounds DEF Expire, BrowserTypeOK, Jar, Logins
  <2>5. UNCHANGED <<told, request, login, logins, code, codes, live, tokens, redeemed, ended>>
    BY <1>2 DEF Expire, provider, service
  <2>. QED
    BY <2>3, <2>4, <2>5 DEF BrowserTypeOK
<1>3. ASSUME NEW n \in Logins, Consent(n)
      PROVE  BrowserTypeOK'
  <2>1. codes' \in 0..MaxCodes /\ n \in 0..MaxLogins
    BY <1>3, BrowserBounds DEF Consent, BrowserTypeOK, Logins
  <2>2. [login |-> n, used |-> FALSE] \in Code
    BY <2>1 DEF Code
  <2>3. code' \in [Codes -> Code]
    BY <1>3, <2>2 DEF Consent, BrowserTypeOK
  <2>4. UNCHANGED <<jar, told, request, login, logins, live, tokens, redeemed, ended, late>>
    BY <1>3 DEF Consent, service
  <2>. QED
    BY <2>1, <2>3, <2>4 DEF BrowserTypeOK
<1>4. ASSUME NEW t \in Tokens, SessionEnds(t)
      PROVE  BrowserTypeOK'
  BY <1>4 DEF SessionEnds, BrowserTypeOK, provider
<1>. QED
  BY <1>1, <1>2, <1>3, <1>4

\* A handler that answers and changes nothing else keeps all types.
LEMMA AnswerOnlyType ==
  ASSUME BrowserTypeOK, NEW q \in Requests, NEW status \in Statuses, AnswerOnly(q, status),
         UNCHANGED <<jar, told, late>>
  PROVE  BrowserTypeOK'
<1>1. UNCHANGED <<jar, told, login, logins, code, codes, live, tokens, redeemed, ended, late>>
  BY DEF AnswerOnly, provider, service
<1>2. NoCookies(q, status)
  BY DEF AnswerOnly
<1>. QED
  BY <1>1, <1>2, NoCookiesType DEF BrowserTypeOK

\* The handlers of Signup, Login and VerifyOTP keep all types.
LEMMA PostType ==
  ASSUME BrowserTypeOK, NEW q \in Requests, Signup(q) \/ LoginHandler(q) \/ VerifyOTP(q)
  PROVE  BrowserTypeOK'
<1>. UNCHANGED <<jar, told, late>>
  BY DEF Signup, LoginHandler, VerifyOTP, AtServer
<1>1. ASSUME NEW status \in {"ok", "error"}, AnswerOnly(q, status)
      PROVE  BrowserTypeOK'
  BY <1>1, AnswerOnlyType DEF Statuses
<1>2. ASSUME NewSession(0), Answered(q, {"session"}, setSessionCookie),
             UNCHANGED <<login, logins, provider, ended>>
      PROVE  BrowserTypeOK'
  <2>1. 0 \in 0..MaxLogins
    BY BrowserBounds
  <2>2. /\ live' \in SUBSET Tokens /\ tokens' \in 0..MaxTokens
        /\ redeemed' \in [Tokens -> 0..MaxLogins]
        /\ setSessionCookie \in Jar
    BY <1>2, <2>1, NewSessionType
  <2>3. /\ request' \in [Requests -> Request]
        /\ \A p \in Requests : request'[p].pc = "handler" => request'[p].token \in Tokens
    BY <1>2, <2>2, AnsweredType
  <2>4. UNCHANGED <<login, logins, code, codes, ended>>
    BY <1>2 DEF provider
  <2>. QED
    BY <2>2, <2>3, <2>4 DEF BrowserTypeOK
<1>. QED
  BY <1>1, <1>2 DEF Signup, LoginHandler, VerifyOTP

\* The OAuth handlers keep all types.
LEMMA OAuthType ==
  ASSUME BrowserTypeOK, NEW q \in Requests, request[q].browser \in Browsers,
         OAuthLogin(q) \/ CallbackRefused(q) \/ Callback(q)
  PROVE  BrowserTypeOK'
<1>. UNCHANGED <<jar, told, late>>
  BY DEF OAuthLogin, CallbackRefused, Callback, AtServer
<1>1. ASSUME NEW status \in {"error", "badState"}, AnswerOnly(q, status)
      PROVE  BrowserTypeOK'
  BY <1>1, AnswerOnlyType DEF Statuses
<1>2. ASSUME OAuthLogin(q), ~AnswerOnly(q, "error")
      PROVE  BrowserTypeOK'
  <2>. DEFINE n == logins + 1
              r == [IdleRequest EXCEPT
                      !.pc = "answered", !.browser = request[q].browser, !.login = n,
                      !.status = "ok", !.names = {"oauth"}, !.set = setSecureCookie(n, n)]
              l == [browser |-> request[q].browser, state |-> n, nonce |-> n,
                    redirected |-> FALSE]
  <2>1. /\ logins < MaxLogins /\ logins' = n
        /\ login' = [login EXCEPT ![n] = l]
        /\ request' = [request EXCEPT ![q] = r]
        /\ UNCHANGED <<code, codes, live, tokens, redeemed, ended>>
    BY <1>2 DEF OAuthLogin, generateRandomString, provider, service
  <2>2. n \in 0..MaxLogins
    BY <2>1, BrowserBounds DEF BrowserTypeOK
  <2>3. setSecureCookie(n, n) \in Jar
    BY <2>2, EmptyTypes DEF setSecureCookie, EmptyJar, Jar
  <2>4. r \in Request /\ r.pc = "answered"
    BY <2>2, <2>3, EmptyTypes DEF IdleRequest, Request, Statuses
  <2>5. l \in Login
    BY <2>2 DEF Login
  <2>6. login' \in [Logins -> Login]
    BY <2>1, <2>5 DEF BrowserTypeOK
  <2>7. /\ request' \in [Requests -> Request]
        /\ \A p \in Requests : request'[p].pc = "handler" => request'[p].token \in Tokens
    BY <2>1, <2>4, ReplaceRequest
  <2>. QED
    BY <2>1, <2>2, <2>6, <2>7 DEF BrowserTypeOK
<1>3. ASSUME Callback(q)
      PROVE  BrowserTypeOK'
  <2>. DEFINE k == request[q].code
  <2>1. k \in Codes
    <3>1. k \in 0..MaxCodes /\ k # 0
      BY <1>3 DEF Callback, BrowserTypeOK, Request
    <3>. QED
      BY <3>1, BrowserBounds DEF Codes
  <2>2. code[k] \in Code
    BY <2>1 DEF BrowserTypeOK
  <2>3. code' = [code EXCEPT ![k] = [code[k] EXCEPT !.used = TRUE]]
    BY <1>3, <2>1 DEF Callback, BrowserTypeOK
  <2>4. [code[k] EXCEPT !.used = TRUE] \in Code
    BY <2>2 DEF Code
  <2>5. code' \in [Codes -> Code]
    BY <2>3, <2>4 DEF BrowserTypeOK
  <2>6. UNCHANGED <<login, logins, codes, ended>>
    BY <1>3 DEF Callback
  <2>7. CASE NoCookies(q, "error") /\ UNCHANGED service
    <3>1. UNCHANGED <<live, tokens, redeemed>>
      BY <2>7 DEF service
    <3>2. /\ request' \in [Requests -> Request]
          /\ \A p \in Requests : request'[p].pc = "handler" => request'[p].token \in Tokens
      BY <2>7, NoCookiesType DEF Statuses
    <3>. QED
      BY <2>5, <2>6, <3>1, <3>2 DEF BrowserTypeOK
  <2>8. CASE NewSession(code[k].login)
               /\ Answered(q, {"session", "oauth"}, clearCookie(setSessionCookie))
    <3>1. code[k].login \in 0..MaxLogins
      BY <2>2 DEF Code
    <3>2. /\ live' \in SUBSET Tokens /\ tokens' \in 0..MaxTokens
          /\ redeemed' \in [Tokens -> 0..MaxLogins]
          /\ setSessionCookie \in Jar
      BY <2>8, <3>1, NewSessionType
    <3>3. clearCookie(setSessionCookie) \in Jar
      BY <3>2, ClearedJar DEF clearCookie
    <3>4. /\ request' \in [Requests -> Request]
          /\ \A p \in Requests : request'[p].pc = "handler" => request'[p].token \in Tokens
      BY <2>8, <3>3, AnsweredType
    <3>. QED
      BY <2>5, <2>6, <3>2, <3>4 DEF BrowserTypeOK
  <2>. QED
    BY <1>3, <2>7, <2>8 DEF Callback
<1>. QED
  BY <1>1, <1>2, <1>3 DEF CallbackRefused

\* The middleware and Logout keep all types.
LEMMA LogoutType ==
  ASSUME BrowserTypeOK, NEW q \in Requests, Middleware(q) \/ Logout(q)
  PROVE  BrowserTypeOK'
<1>. DEFINE token == IF request[q].token # 0 THEN request[q].token
                                             ELSE request[q].cookies.session
<1>0. request[q] \in Request
  BY DEF BrowserTypeOK
<1>1. ASSUME Middleware(q), AnswerOnly(q, "error")
      PROVE  BrowserTypeOK'
  BY <1>1, AnswerOnlyType DEF Middleware, AtServer, Statuses
<1>2. ASSUME Middleware(q), ~AnswerOnly(q, "error")
      PROVE  BrowserTypeOK'
  <2>. DEFINE r == [request[q] EXCEPT !.pc = "handler", !.cookies = EmptyJar, !.token = token]
  <2>1. /\ token \in live
        /\ request' = [request EXCEPT ![q] = r]
        /\ UNCHANGED <<jar, told, login, logins, code, codes, live, tokens, redeemed, ended, late>>
    BY <1>2 DEF Middleware, AtServer, provider, service, BrowserTypeOK
  <2>2. token \in Tokens /\ token \in 0..MaxTokens
    BY <2>1, BrowserBounds DEF BrowserTypeOK, Tokens
  <2>3. r \in Request /\ r.token = token
    BY <1>0, <2>2, EmptyTypes DEF Request
  <2>4. /\ request' \in [Requests -> Request]
        /\ \A p \in Requests : request'[p].pc = "handler" => request'[p].token \in Tokens
    BY <2>1, <2>2, <2>3, ReplaceRequest
  <2>. QED
    BY <2>1, <2>4 DEF BrowserTypeOK
<1>3. ASSUME Logout(q)
      PROVE  BrowserTypeOK'
  <2>1. UNCHANGED <<jar, told, login, logins, code, codes, tokens, redeemed, late>>
    BY <1>3 DEF Logout, provider
  <2>2. live' \in SUBSET Tokens /\ ended' \in SUBSET Tokens
    BY <1>3 DEF Logout, BrowserTypeOK
  <2>3. /\ request' \in [Requests -> Request]
        /\ \A p \in Requests : request'[p].pc = "handler" => request'[p].token \in Tokens
    <3>1. CASE Answered(q, {"session"}, clearSessionCookie)
      BY <3>1, EmptyTypes, AnsweredType DEF clearSessionCookie
    <3>2. CASE NoCookies(q, "error")
      BY <3>2, NoCookiesType DEF Statuses
    <3>. QED
      BY <1>3, <3>1, <3>2 DEF Logout
  <2>. QED
    BY <2>1, <2>2, <2>3 DEF BrowserTypeOK
<1>. QED
  BY <1>1, <1>2, <1>3

-------------------------------------------------------------------------------
(* The invariant.                                                            *)

\* What jar j of browser b may hold when the first L logins are lg and the first
\* T sessions come from rd.
Owned(j, b, lg, L, rd, T) ==
    /\ j.nonce # 0 => j.nonce \in 1..L /\ lg[j.nonce].browser = b
    /\ j.session # 0 => /\ j.session \in 1..T
                        /\ rd[j.session] # 0 => /\ rd[j.session] \in 1..L
                                               /\ lg[rd[j.session]].browser = b

\* The nonce names the login that drew it.
Drawn == \A n \in Logins : login[n].nonce = IF n =< logins THEN n ELSE 0

JarsOwned == \A b \in Browsers : Owned(jar[b], b, login, logins, redeemed, tokens)

RequestOwned(r) ==
    r.pc # "idle" =>
        /\ r.browser \in Browsers
        /\ Owned(r.cookies, r.browser, login, logins, redeemed, tokens)
        /\ Owned(r.set, r.browser, login, logins, redeemed, tokens)
RequestsOwned == \A q \in Requests : RequestOwned(request[q])

\* A callback's code was issued for a login.
CodesNamed == \A q \in Requests : request[q].code # 0 => code[request[q].code].login # 0

Inductive == BrowserTypeOK /\ Drawn /\ JarsOwned /\ RequestsOwned /\ CodesNamed

\* What is owned stays so when logins and sessions are added and the old ones keep
\* their browser and their login.
LEMMA OwnedGrows ==
  ASSUME NEW lg, NEW lg2, NEW rd, NEW rd2, NEW L \in Nat, NEW L2 \in Nat, NEW T \in Nat,
         NEW T2 \in Nat, L =< L2, T =< T2,
         \A n \in 1..L : lg2[n].browser = lg[n].browser,
         \A t \in 1..T : rd2[t] = rd[t],
         NEW j, NEW b, Owned(j, b, lg, L, rd, T)
  PROVE  Owned(j, b, lg2, L2, rd2, T2)
<1>1. ASSUME j.nonce # 0
      PROVE  j.nonce \in 1..L2 /\ lg2[j.nonce].browser = b
  BY <1>1 DEF Owned
<1>2. ASSUME j.session # 0
      PROVE  j.session \in 1..T2 /\ rd2[j.session] = rd[j.session]
  BY <1>2 DEF Owned
<1>3. ASSUME j.session # 0, rd2[j.session] # 0
      PROVE  rd2[j.session] \in 1..L2 /\ lg2[rd2[j.session]].browser = b
  BY <1>2, <1>3 DEF Owned
<1>. QED
  BY <1>1, <1>2, <1>3 DEF Owned

\* No step forgets who started a login or where a session comes from.
LEMMA Growth ==
  ASSUME BrowserTypeOK, [Next]_vars
  PROVE  /\ logins \in Nat /\ logins' \in Nat /\ logins =< logins'
         /\ tokens \in Nat /\ tokens' \in Nat /\ tokens =< tokens'
         /\ \A n \in 1..logins : login'[n].browser = login[n].browser
         /\ \A t \in 1..tokens : redeemed'[t] = redeemed[t]
<1>0. logins \in Nat /\ tokens \in Nat /\ logins =< MaxLogins
  BY BrowserBounds DEF BrowserTypeOK
<1>1. CASE UNCHANGED <<login, logins, tokens, redeemed>>
  BY <1>0, <1>1
<1>2. ASSUME NEW q \in Requests, Deliver(q)
      PROVE  /\ UNCHANGED <<logins, tokens, redeemed>>
             /\ \A n \in 1..logins : login'[n].browser = login[n].browser
  <2>1. \A n \in Logins : login'[n].browser = login[n].browser
    BY <1>2 DEF Deliver, BrowserTypeOK, Login
  <2>2. \A n \in 1..logins : n \in Logins
    BY <1>0, BrowserBounds DEF Logins
  <2>. QED
    BY <1>2, <2>1, <2>2 DEF Deliver, service
<1>3. ASSUME NEW n, NewSession(n), UNCHANGED <<login, logins>>
      PROVE  /\ tokens' = tokens + 1
             /\ \A t \in 1..tokens : redeemed'[t] = redeemed[t]
  BY <1>0, <1>3 DEF NewSession, BrowserTypeOK
<1>4. ASSUME NEW q \in Requests, OAuthLogin(q), ~AnswerOnly(q, "error")
      PROVE  /\ logins' = logins + 1 /\ UNCHANGED <<tokens, redeemed>>
             /\ \A n \in 1..logins : login'[n].browser = login[n].browser
  <2>. DEFINE l == [browser |-> request[q].browser, state |-> logins + 1,
                    nonce |-> logins + 1, redirected |-> FALSE]
  <2>1. /\ logins' = logins + 1
        /\ login' = [login EXCEPT ![logins + 1] = l]
        /\ UNCHANGED <<tokens, redeemed>>
    BY <1>4 DEF OAuthLogin, generateRandomString, service
  <2>2. \A n \in 1..logins : n \in Logins /\ n # logins + 1
    BY <1>0, BrowserBounds DEF Logins
  <2>. QED
    BY <2>1, <2>2 DEF BrowserTypeOK
<1>5. ASSUME NEW q \in Requests, NEW status, AnswerOnly(q, status)
      PROVE  UNCHANGED <<login, logins, tokens, redeemed>>
  BY <1>5 DEF AnswerOnly, service
<1>6. ASSUME NEW q \in Requests, Signup(q) \/ LoginHandler(q) \/ VerifyOTP(q)
      PROVE  \/ UNCHANGED <<login, logins, tokens, redeemed>>
             \/ NewSession(0) /\ UNCHANGED <<login, logins>>
  BY <1>5, <1>6 DEF Signup, LoginHandler, VerifyOTP
<1>7. ASSUME NEW q \in Requests, CallbackRefused(q) \/ Callback(q)
      PROVE  \/ UNCHANGED <<login, logins, tokens, redeemed>>
             \/ \E n : NewSession(n) /\ UNCHANGED <<login, logins>>
  BY <1>5, <1>7 DEF CallbackRefused, Callback, service
<1>8. ASSUME NEW q \in Requests, Middleware(q) \/ Logout(q) \/ Lose(q)
      PROVE  UNCHANGED <<login, logins, tokens, redeemed>>
  BY <1>5, <1>8 DEF Middleware, Logout, Lose, service
<1>9. ASSUME NEW q \in Requests, NEW b \in Browsers,
             \/ \E kind \in {"post", "oauthLogin"} : SendPlain(q, b, kind)
             \/ \E header \in 0..MaxTokens : SendLogout(q, b, header)
             \/ \E n \in Logins, k \in 0..MaxCodes : SendCallback(q, b, n, k)
      PROVE  UNCHANGED <<login, logins, tokens, redeemed>>
  BY <1>9 DEF SendPlain, SendLogout, SendCallback, Send, service
<1>10. ASSUME \/ \E b \in Browsers : Expire(b)
              \/ \E n \in Logins : Consent(n)
              \/ \E t \in Tokens : SessionEnds(t)
       PROVE  UNCHANGED <<login, logins, tokens, redeemed>>
  BY <1>10 DEF Expire, Consent, SessionEnds, service
<1>11. CASE UNCHANGED vars
  BY <1>1, <1>11 DEF vars, service
<1>12. CASE \E n : NewSession(n) /\ UNCHANGED <<login, logins>>
  BY <1>0, <1>3, <1>12
<1>13. CASE \E q \in Requests : OAuthLogin(q)
  BY <1>0, <1>1, <1>4, <1>5, <1>13
<1>14. CASE \E q \in Requests : Deliver(q)
  BY <1>0, <1>2, <1>14
<1>. QED
  BY <1>1, <1>6, <1>7, <1>8, <1>9, <1>10, <1>11, <1>12, <1>13, <1>14 DEF Next, Serve

\* What was owned before a step is owned after it.
LEMMA Carried ==
  ASSUME Inductive, [Next]_vars
  PROVE  /\ \A b \in Browsers : Owned(jar[b], b, login', logins', redeemed', tokens')
         /\ \A q \in Requests : request[q].pc # "idle" =>
              /\ request[q].browser \in Browsers
              /\ Owned(request[q].cookies, request[q].browser, login', logins', redeemed', tokens')
              /\ Owned(request[q].set, request[q].browser, login', logins', redeemed', tokens')
<1>1. /\ logins \in Nat /\ logins' \in Nat /\ logins =< logins'
      /\ tokens \in Nat /\ tokens' \in Nat /\ tokens =< tokens'
      /\ \A n \in 1..logins : login'[n].browser = login[n].browser
      /\ \A t \in 1..tokens : redeemed'[t] = redeemed[t]
  BY Growth DEF Inductive
<1>2. ASSUME NEW j, NEW b, Owned(j, b, login, logins, redeemed, tokens)
      PROVE  Owned(j, b, login', logins', redeemed', tokens')
  BY <1>1, <1>2, OwnedGrows
<1>3. \A b \in Browsers : Owned(jar[b], b, login, logins, redeemed, tokens)
  BY DEF Inductive, JarsOwned
<1>4. \A q \in Requests : request[q].pc # "idle" =>
        /\ request[q].browser \in Browsers
        /\ Owned(request[q].cookies, request[q].browser, login, logins, redeemed, tokens)
        /\ Owned(request[q].set, request[q].browser, login, logins, redeemed, tokens)
  BY DEF Inductive, RequestsOwned, RequestOwned
<1>. QED
  BY <1>2, <1>3, <1>4

\* An empty jar is anybody's.
LEMMA EmptyOwned ==
  ASSUME NEW b, NEW lg, NEW L, NEW rd, NEW T
  PROVE  Owned(EmptyJar, b, lg, L, rd, T)
  BY DEF Owned, EmptyJar

\* A request that replaces another keeps the requests owned if it is owned itself.
LEMMA ReplacedOwned ==
  ASSUME Inductive, [Next]_vars, NEW q \in Requests, NEW r,
         request' = [request EXCEPT ![q] = r],
         r.pc # "idle" =>
            /\ r.browser \in Browsers
            /\ Owned(r.cookies, r.browser, login', logins', redeemed', tokens')
            /\ Owned(r.set, r.browser, login', logins', redeemed', tokens')
  PROVE  RequestsOwned'
<1>1. \A p \in Requests : request'[p] = IF p = q THEN r ELSE request[p]
  BY DEF Inductive, BrowserTypeOK
<1>2. ASSUME NEW p \in Requests
      PROVE  RequestOwned(request[p])'
  <2>1. CASE p = q
    BY <1>1, <2>1 DEF RequestOwned
  <2>2. CASE p # q
    BY <1>1, <2>2, Carried DEF RequestOwned
  <2>. QED
    BY <2>1, <2>2
<1>. QED
  BY <1>2 DEF RequestsOwned

\* Jars and requests that a step leaves alone are owned after it as before.
LEMMA UnchangedOwned ==
  ASSUME Inductive, [Next]_vars
  PROVE  /\ UNCHANGED jar => JarsOwned'
         /\ UNCHANGED request => RequestsOwned'
<1>1. ASSUME UNCHANGED jar PROVE JarsOwned'
  BY <1>1, Carried DEF JarsOwned
<1>2. ASSUME UNCHANGED request PROVE RequestsOwned'
  BY <1>2, Carried DEF RequestsOwned, RequestOwned
<1>. QED
  BY <1>1, <1>2

-------------------------------------------------------------------------------
(* The steps.                                                                *)

\* Every step keeps all types.
LEMMA TypeStep ==
  ASSUME Inductive, [Next]_vars
  PROVE  BrowserTypeOK'
<1>0. BrowserTypeOK
  BY DEF Inductive
<1>1. \A q \in Requests : request[q].pc # "idle" => request[q].browser \in Browsers
  BY DEF Inductive, RequestsOwned, RequestOwned
<1>2. CASE UNCHANGED vars
  BY <1>0, <1>2 DEF vars, provider, service, BrowserTypeOK
<1>3. ASSUME NEW q \in Requests, Deliver(q)
      PROVE  BrowserTypeOK'
  BY <1>0, <1>1, <1>3, DeliverType DEF Deliver
<1>4. ASSUME NEW q \in Requests, OAuthLogin(q) \/ CallbackRefused(q) \/ Callback(q)
      PROVE  BrowserTypeOK'
  <2>1. request[q].browser \in Browsers
    BY <1>1, <1>4 DEF OAuthLogin, CallbackRefused, Callback, AtServer
  <2>. QED
    BY <1>0, <1>4, <2>1, OAuthType
<1>. QED
  BY <1>0, <1>2, <1>3, <1>4, SendsType, BrowserMovesType, PostType, LogoutType DEF Next, Serve

\* An answer without cookies is owned.
LEMMA NoCookiesOwned ==
  ASSUME Inductive, [Next]_vars, NEW q \in Requests, NEW status,
         request[q].browser \in Browsers, NoCookies(q, status)
  PROVE  RequestsOwned'
<1>. DEFINE r == [IdleRequest EXCEPT
                      !.pc = "answered", !.browser = request[q].browser, !.status = status,
                      !.login = IF status = "badState" THEN request[q].login ELSE 0]
<1>1. request' = [request EXCEPT ![q] = r]
  BY DEF NoCookies
<1>2. r.browser = request[q].browser /\ r.cookies = EmptyJar /\ r.set = EmptyJar
  BY DEF IdleRequest
<1>3. /\ Owned(r.cookies, r.browser, login', logins', redeemed', tokens')
      /\ Owned(r.set, r.browser, login', logins', redeemed', tokens')
  BY <1>2, EmptyOwned
<1>. HIDE DEF r
<1>. QED
  BY <1>1, <1>2, <1>3, ReplacedOwned

\* An answer with owned cookies is owned.
LEMMA AnsweredOwned ==
  ASSUME Inductive, [Next]_vars, NEW q \in Requests, NEW names, NEW set,
         request[q].browser \in Browsers, Answered(q, names, set),
         Owned(set, request[q].browser, login', logins', redeemed', tokens')
  PROVE  RequestsOwned'
<1>. DEFINE r == [IdleRequest EXCEPT
                    !.pc = "answered", !.browser = request[q].browser, !.token = request[q].token,
                    !.status = "ok", !.names = names, !.set = set]
<1>1. request' = [request EXCEPT ![q] = r]
  BY DEF Answered
<1>2. r.browser = request[q].browser /\ r.cookies = EmptyJar /\ r.set = set
  BY DEF IdleRequest
<1>3. /\ Owned(r.cookies, r.browser, login', logins', redeemed', tokens')
      /\ Owned(r.set, r.browser, login', logins', redeemed', tokens')
  BY <1>2, EmptyOwned
<1>. HIDE DEF r
<1>. QED
  BY <1>1, <1>2, <1>3, ReplacedOwned

\* The cookie of a new session is owned by the browser of the login it comes from.
LEMMA NewSessionOwned ==
  ASSUME BrowserTypeOK, NEW b, NEW n \in 0..MaxLogins, NewSession(n), UNCHANGED <<login, logins>>,
         n # 0 => n \in 1..logins /\ login[n].browser = b
  PROVE  /\ Owned(setSessionCookie, b, login', logins', redeemed', tokens')
         /\ Owned(clearCookie(setSessionCookie), b, login', logins', redeemed', tokens')
<1>1. tokens \in Nat /\ tokens < MaxTokens /\ tokens' = tokens + 1
  BY BrowserBounds DEF BrowserTypeOK, NewSession
<1>2. tokens + 1 \in Tokens
  BY <1>1, BrowserBounds DEF Tokens
<1>3. redeemed'[tokens + 1] = n
  BY <1>2 DEF NewSession, BrowserTypeOK
<1>4. /\ setSessionCookie.session = tokens + 1
      /\ setSessionCookie.nonce = 0
      /\ clearCookie(setSessionCookie).session = tokens + 1
      /\ clearCookie(setSessionCookie).nonce = 0
  BY DEF setSessionCookie, clearCookie, EmptyJar
<1>5. tokens + 1 \in 1..tokens' /\ tokens + 1 # 0
  BY <1>1
<1>6. n # 0 => n \in 1..logins' /\ login'[n].browser = b
  OBVIOUS
<1>. QED
  BY <1>3, <1>4, <1>5, <1>6 DEF Owned

\* A callback that gets a session has the nonce of its browser's own login.
LEMMA NonceOwned ==
  ASSUME Inductive, NEW q \in Requests, Callback(q),
         login[code[request[q].code].login].nonce = request[q].cookies.nonce
  PROVE  LET n == code[request[q].code].login
         IN  /\ n \in 0..MaxLogins
             /\ n \in 1..logins /\ login[n].browser = request[q].browser
<1>. DEFINE k == request[q].code
            n == code[k].login
<1>1. k \in Codes
  <2>1. k \in 0..MaxCodes /\ k # 0
    BY DEF Callback, Inductive, BrowserTypeOK, Request
  <2>. QED
    BY <2>1, BrowserBounds DEF Codes
<1>2. n \in 0..MaxLogins /\ n # 0
  <2>1. n \in 0..MaxLogins
    BY <1>1 DEF Inductive, BrowserTypeOK, Code
  <2>2. n # 0
    BY DEF Callback, Inductive, CodesNamed
  <2>. QED
    BY <2>1, <2>2
<1>3. n \in Logins
  BY <1>2, BrowserBounds DEF Logins
<1>4. login[n].nonce # 0
  BY DEF Callback
<1>5. login[n].nonce = n
  BY <1>3, <1>4 DEF Inductive, Drawn
<1>6. /\ request[q].cookies.nonce \in 1..logins
      /\ login[request[q].cookies.nonce].browser = request[q].browser
  BY <1>4 DEF Callback, AtServer, Inductive, RequestsOwned, RequestOwned, Owned
<1>. QED
  BY <1>2, <1>5, <1>6

\* Whatever the handlers do to a request, it and the cookies it is answered with
\* stay its browser's own.
LEMMA ServeOwned ==
  ASSUME Inductive, [Next]_vars, NEW q \in Requests, Serve(q)
  PROVE  RequestsOwned'
<1>0. BrowserTypeOK
  BY DEF Inductive
<1>1. request[q].pc # "idle"
  BY DEF Serve, Signup, LoginHandler, VerifyOTP, OAuthLogin, CallbackRefused, Callback,
         Middleware, Logout, AtServer
<1>2. request[q].browser \in Browsers
  BY <1>1 DEF Inductive, RequestsOwned, RequestOwned
<1>3. ASSUME NEW status, AnswerOnly(q, status)
      PROVE  RequestsOwned'
  BY <1>2, <1>3, NoCookiesOwned DEF AnswerOnly
<1>4. CASE Signup(q) \/ LoginHandler(q) \/ VerifyOTP(q)
  <2>1. CASE NewSession(0) /\ Answered(q, {"session"}, setSessionCookie)
               /\ UNCHANGED <<login, logins, provider, ended>>
    <3>1. 0 \in 0..MaxLogins
      BY BrowserBounds
    <3>2. Owned(setSessionCookie, request[q].browser, login', logins', redeemed', tokens')
      BY <1>0, <2>1, <3>1, NewSessionOwned
    <3>. QED
      BY <1>2, <2>1, <3>2, AnsweredOwned
  <2>. QED
    BY <1>3, <1>4, <2>1 DEF Signup, LoginHandler, VerifyOTP
<1>5. ASSUME OAuthLogin(q), ~AnswerOnly(q, "error")
      PROVE  RequestsOwned'
  <2>. DEFINE n == logins + 1
              r == [IdleRequest EXCEPT
                      !.pc = "answered", !.browser = request[q].browser, !.login = n,
                      !.status = "ok", !.names = {"oauth"}, !.set = setSecureCookie(n, n)]
              l == [browser |-> request[q].browser, state |-> n, nonce |-> n,
                    redirected |-> FALSE]
  <2>1. /\ logins < MaxLogins /\ logins' = n
        /\ login' = [login EXCEPT ![n] = l]
        /\ request' = [request EXCEPT ![q] = r]
    BY <1>5 DEF OAuthLogin, generateRandomString
  <2>2. n \in Logins /\ n \in 1..logins'
    BY <1>0, <2>1, BrowserBounds DEF BrowserTypeOK, Logins
  <2>3. login'[n].browser = request[q].browser
    BY <1>0, <2>1, <2>2 DEF BrowserTypeOK
  <2>4. setSecureCookie(n, n).nonce = n /\ setSecureCookie(n, n).session = 0
    BY DEF setSecureCookie, EmptyJar
  <2>5. Owned(setSecureCookie(n, n), request[q].browser, login', logins', redeemed', tokens')
    BY <2>2, <2>3, <2>4 DEF Owned
  <2>6. r.browser = request[q].browser /\ r.cookies = EmptyJar /\ r.set = setSecureCookie(n, n)
    BY DEF IdleRequest
  <2>7. /\ Owned(r.cookies, r.browser, login', logins', redeemed', tokens')
        /\ Owned(r.set, r.browser, login', logins', redeemed', tokens')
    BY <2>5, <2>6, EmptyOwned
  <2>. HIDE DEF r
  <2>. QED
    BY <1>2, <2>1, <2>6, <2>7, ReplacedOwned
<1>6. CASE CallbackRefused(q)
  BY <1>3, <1>6 DEF CallbackRefused
<1>7. CASE Callback(q)
  <2>. DEFINE n == code[request[q].code].login
  <2>1. CASE NoCookies(q, "error")
    BY <1>2, <2>1, NoCookiesOwned
  <2>2. CASE /\ login[n].nonce = request[q].cookies.nonce
             /\ NewSession(n)
             /\ Answered(q, {"session", "oauth"}, clearCookie(setSessionCookie))
    <3>1. n \in 0..MaxLogins /\ n \in 1..logins /\ login[n].browser = request[q].browser
      BY <1>7, <2>2, NonceOwned
    <3>2. UNCHANGED <<login, logins>>
      BY <1>7 DEF Callback
    <3>. HIDE DEF n
    <3>3. Owned(clearCookie(setSessionCookie), request[q].browser,
                login', logins', redeemed', tokens')
      BY <1>0, <2>2, <3>1, <3>2, NewSessionOwned
    <3>. QED
      BY <1>2, <2>2, <3>3, AnsweredOwned
  <2>. QED
    BY <1>7, <2>1, <2>2 DEF Callback
<1>8. ASSUME Middleware(q), ~AnswerOnly(q, "error")
      PROVE  RequestsOwned'
  <2>. DEFINE token == IF request[q].token # 0 THEN request[q].token
                                               ELSE request[q].cookies.session
              r == [request[q] EXCEPT !.pc = "handler", !.cookies = EmptyJar, !.token = token]
  <2>1. request' = [request EXCEPT ![q] = r]
    BY <1>0, <1>8 DEF Middleware, BrowserTypeOK
  <2>2. request[q] \in Request
    BY <1>0 DEF BrowserTypeOK
  <2>3. r.browser = request[q].browser /\ r.cookies = EmptyJar /\ r.set = request[q].set
    BY <2>2 DEF Request
  <2>4. Owned(request[q].set, request[q].browser, login', logins', redeemed', tokens')
    BY <1>1, Carried
  <2>5. /\ Owned(r.cookies, r.browser, login', logins', redeemed', tokens')
        /\ Owned(r.set, r.browser, login', logins', redeemed', tokens')
    BY <2>3, <2>4, EmptyOwned
  <2>. HIDE DEF r
  <2>. QED
    BY <1>2, <2>1, <2>3, <2>5, ReplacedOwned
<1>9. CASE Logout(q)
  <2>1. CASE Answered(q, {"session"}, clearSessionCookie)
    BY <1>2, <2>1, EmptyOwned, AnsweredOwned DEF clearSessionCookie
  <2>2. CASE NoCookies(q, "error")
    BY <1>2, <2>2, NoCookiesOwned
  <2>. QED
    BY <1>9, <2>1, <2>2 DEF Logout
<1>. QED
  BY <1>3, <1>4, <1>5, <1>6, <1>7, <1>8, <1>9 DEF Serve

\* A request takes along only cookies of its own browser.
LEMMA SendsOwned ==
  ASSUME Inductive, [Next]_vars, NEW q \in Requests, NEW b \in Browsers,
         \/ \E kind \in {"post", "oauthLogin"} : SendPlain(q, b, kind)
         \/ \E header \in 0..MaxTokens : SendLogout(q, b, header)
         \/ \E n \in Logins, k \in 0..MaxCodes : SendCallback(q, b, n, k)
  PROVE  RequestsOwned'
<1>0. Owned(jar[b], b, login', logins', redeemed', tokens') /\ jar[b] \in Jar
  BY Carried DEF Inductive, BrowserTypeOK
<1>1. ASSUME NEW r \in Request, Send(q, b, r), r.set = EmptyJar,
             Owned(r.cookies, b, login', logins', redeemed', tokens')
      PROVE  RequestsOwned'
  <2>. DEFINE s == [r EXCEPT !.pc = "server", !.browser = b]
  <2>1. request' = [request EXCEPT ![q] = s]
    BY <1>1 DEF Send
  <2>2. s.browser = b /\ s.cookies = r.cookies /\ s.set = EmptyJar
    BY <1>1 DEF Request
  <2>3. /\ Owned(s.cookies, s.browser, login', logins', redeemed', tokens')
        /\ Owned(s.set, s.browser, login', logins', redeemed', tokens')
    BY <1>1, <2>2, EmptyOwned
  <2>. HIDE DEF s
  <2>. QED
    BY <2>1, <2>2, <2>3, ReplacedOwned
<1>2. ASSUME NEW kind \in {"post", "oauthLogin"}, SendPlain(q, b, kind)
      PROVE  RequestsOwned'
  <2>. DEFINE r == [IdleRequest EXCEPT !.kind = kind]
  <2>1. r \in Request /\ r.set = EmptyJar /\ r.cookies = EmptyJar
    BY EmptyTypes DEF IdleRequest, Request, Kinds
  <2>2. Send(q, b, r)
    BY <1>2 DEF SendPlain
  <2>3. Owned(r.cookies, b, login', logins', redeemed', tokens')
    BY <2>1, EmptyOwned
  <2>. HIDE DEF r
  <2>. QED
    BY <1>1, <2>1, <2>2, <2>3
<1>3. ASSUME NEW header \in 0..MaxTokens, SendLogout(q, b, header)
      PROVE  RequestsOwned'
  <2>. DEFINE j == [EmptyJar EXCEPT !.session = jar[b].session]
              r == [IdleRequest EXCEPT !.kind = "logout", !.token = header, !.cookies = j]
  <2>1. j \in Jar /\ j.session = jar[b].session /\ j.nonce = 0
    BY <1>0, EmptyTypes DEF EmptyJar, Jar
  <2>2. Send(q, b, r)
    BY <1>3 DEF SendLogout
  <2>3. Owned(j, b, login', logins', redeemed', tokens')
    BY <1>0, <2>1 DEF Owned
  <2>. HIDE DEF j
  <2>4. r \in Request /\ r.set = EmptyJar /\ r.cookies = j
    BY <2>1, EmptyTypes DEF IdleRequest, Request, Kinds
  <2>. HIDE DEF r
  <2>. QED
    BY <1>1, <2>2, <2>3, <2>4
<1>4. ASSUME NEW n \in Logins, NEW k \in 0..MaxCodes, SendCallback(q, b, n, k)
      PROVE  RequestsOwned'
  <2>. DEFINE j == [jar[b] EXCEPT !.session = 0]
              r == [IdleRequest EXCEPT !.kind = "callback", !.login = n, !.code = k,
                                       !.cookies = j]
  <2>1. j \in Jar /\ j.session = 0 /\ j.nonce = jar[b].nonce
    BY <1>0, BrowserBounds DEF Jar
  <2>2. Send(q, b, r)
    BY <1>4 DEF SendCallback
  <2>3. Owned(j, b, login', logins', redeemed', tokens')
    BY <1>0, <2>1 DEF Owned
  <2>. HIDE DEF j
  <2>5. n \in 0..MaxLogins
    BY BrowserBounds DEF Logins
  <2>4. r \in Request /\ r.set = EmptyJar /\ r.cookies = j
    BY <2>1, <2>5, EmptyTypes DEF IdleRequest, Request, Kinds
  <2>. HIDE DEF r
  <2>. QED
    BY <1>1, <2>2, <2>3, <2>4
<1>. QED
  BY <1>2, <1>3, <1>4

\* The cookies that take effect are those of an answer to this browser.
LEMMA DeliverOwned ==
  ASSUME Inductive, [Next]_vars, NEW q \in Requests, Deliver(q)
  PROVE  JarsOwned' /\ RequestsOwned'
<1>. DEFINE r == request[q]
            b == request[q].browser
            new == [session |-> IF "session" \in r.names THEN r.set.session ELSE jar[b].session,
                    state |-> IF "oauth" \in r.names THEN r.set.state ELSE jar[b].state,
                    nonce |-> IF "oauth" \in r.names THEN r.set.nonce ELSE jar[b].nonce]
<1>1. /\ b \in Browsers
      /\ Owned(r.set, b, login', logins', redeemed', tokens')
      /\ \A c \in Browsers : Owned(jar[c], c, login', logins', redeemed', tokens')
  BY Carried DEF Deliver
<1>2. Owned(new, b, login', logins', redeemed', tokens')
  BY <1>1 DEF Owned
<1>3. jar' = [jar EXCEPT ![b] = new]
  BY DEF Deliver
<1>. HIDE DEF new
<1>4. \A c \in Browsers : jar'[c] = IF c = b THEN new ELSE jar[c]
  BY <1>3 DEF Inductive, BrowserTypeOK
<1>5. JarsOwned'
  BY <1>1, <1>2, <1>4 DEF JarsOwned
<1>6. request' = [request EXCEPT ![q] = IdleRequest] /\ IdleRequest.pc = "idle"
  BY DEF Deliver, IdleRequest
<1>. QED
  BY <1>5, <1>6, ReplacedOwned

\* Lost answers, expiring cookies, consent and sessions that end give nobody a cookie.
LEMMA BrowserMovesOwned ==
  ASSUME Inductive, [Next]_vars,
         \/ \E q \in Requests : Lose(q)
         \/ \E b \in Browsers : Expire(b)
         \/ \E n \in Logins : Consent(n)
         \/ \E t \in Tokens : SessionEnds(t)
  PROVE  JarsOwned' /\ RequestsOwned'
<1>1. ASSUME NEW q \in Requests, Lose(q)
      PROVE  JarsOwned' /\ RequestsOwned'
  <2>1. request' = [request EXCEPT ![q] = IdleRequest] /\ IdleRequest.pc = "idle"
        /\ UNCHANGED jar
    BY <1>1 DEF Lose, IdleRequest
  <2>. QED
    BY <2>1, UnchangedOwned, ReplacedOwned
<1>2. ASSUME NEW b \in Browsers, Expire(b)
      PROVE  JarsOwned' /\ RequestsOwned'
  <2>. DEFINE new == [jar[b] EXCEPT !.state = 0, !.nonce = 0]
  <2>1. jar[b] \in Jar
    BY DEF Inductive, BrowserTypeOK
  <2>2. jar' = [jar EXCEPT ![b] = new] /\ UNCHANGED request
    BY <1>2 DEF Expire, Inductive, BrowserTypeOK
  <2>3. new.session = jar[b].session /\ new.nonce = 0
    BY <2>1 DEF Jar
  <2>4. \A c \in Browsers : Owned(jar[c], c, login', logins', redeemed', tokens')
    BY Carried
  <2>5. Owned(new, b, login', logins', redeemed', tokens')
    BY <2>3, <2>4 DEF Owned
  <2>. HIDE DEF new
  <2>6. \A c \in Browsers : jar'[c] = IF c = b THEN new ELSE jar[c]
    BY <2>2 DEF Inductive, BrowserTypeOK
  <2>7. JarsOwned'
    BY <2>4, <2>5, <2>6 DEF JarsOwned
  <2>. QED
    BY <2>2, <2>7, UnchangedOwned
<1>3. ASSUME \/ \E n \in Logins : Consent(n)
             \/ \E t \in Tokens : SessionEnds(t)
      PROVE  JarsOwned' /\ RequestsOwned'
  BY <1>3, UnchangedOwned DEF Consent, SessionEnds
<1>. QED
  BY <1>1, <1>2, <1>3

\* Every step leaves jars and requests with what their browser owns.
LEMMA OwnedStep ==
  ASSUME Inductive, [Next]_vars
  PROVE  JarsOwned' /\ RequestsOwned'
<1>1. CASE UNCHANGED vars
  BY <1>1, UnchangedOwned DEF vars
<1>2. ASSUME NEW q \in Requests, Serve(q)
      PROVE  JarsOwned' /\ RequestsOwned'
  <2>1. UNCHANGED jar
    BY <1>2 DEF Serve, Signup, LoginHandler, VerifyOTP, OAuthLogin, CallbackRefused, Callback,
                Middleware, Logout, AtServer
  <2>. QED
    BY <1>2, <2>1, UnchangedOwned, ServeOwned
<1>3. ASSUME NEW q \in Requests, NEW b \in Browsers,
             \/ \E kind \in {"post", "oauthLogin"} : SendPlain(q, b, kind)
             \/ \E header \in 0..MaxTokens : SendLogout(q, b, header)
             \/ \E n \in Logins, k \in 0..MaxCodes : SendCallback(q, b, n, k)
      PROVE  JarsOwned' /\ RequestsOwned'
  <2>1. UNCHANGED jar
    BY <1>3 DEF SendPlain, SendLogout, SendCallback, Send
  <2>2. RequestsOwned'
    BY <1>3, SendsOwned
  <2>. QED
    BY <2>1, <2>2, UnchangedOwned
<1>. QED
  BY <1>1, <1>2, <1>3, DeliverOwned, BrowserMovesOwned DEF Next

\* Every step keeps nonces naming their logins: OAuthLogin alone draws one, the next.
LEMMA DrawnStep ==
  ASSUME Inductive, [Next]_vars
  PROVE  Drawn'
<1>0. BrowserTypeOK /\ Drawn
  BY DEF Inductive
<1>1. CASE UNCHANGED <<login, logins>>
  BY <1>0, <1>1 DEF Drawn
<1>2. ASSUME NEW q \in Requests, Deliver(q)
      PROVE  Drawn'
  <2>1. \A n \in Logins : login'[n].nonce = login[n].nonce
    BY <1>0, <1>2 DEF Deliver, BrowserTypeOK, Login
  <2>2. UNCHANGED logins
    BY <1>2 DEF Deliver
  <2>. QED
    BY <1>0, <2>1, <2>2 DEF Drawn
<1>3. ASSUME NEW q \in Requests, OAuthLogin(q), ~AnswerOnly(q, "error")
      PROVE  Drawn'
  <2>. DEFINE l == [browser |-> request[q].browser, state |-> logins + 1,
                    nonce |-> logins + 1, redirected |-> FALSE]
  <2>1. /\ logins' = logins + 1
        /\ login' = [login EXCEPT ![logins + 1] = l]
    BY <1>3 DEF OAuthLogin, generateRandomString
  <2>2. l.nonce = logins + 1
    OBVIOUS
  <2>3. logins \in Nat
    BY <1>0, BrowserBounds DEF BrowserTypeOK
  <2>. HIDE DEF l
  <2>4. \A n \in Logins : login'[n] = IF n = logins + 1 THEN l ELSE login[n]
    BY <1>0, <2>1 DEF BrowserTypeOK
  <2>5. \A n \in Logins : n \in Nat
    BY BrowserBounds DEF Logins
  <2>. QED
    BY <1>0, <2>1, <2>2, <2>3, <2>4, <2>5 DEF Drawn
<1>4. ASSUME NEW q \in Requests, Serve(q)
      PROVE  Drawn'
  <2>1. OAuthLogin(q) /\ AnswerOnly(q, "error") => UNCHANGED <<login, logins>>
    BY DEF AnswerOnly
  <2>2. OAuthLogin(q) \/ UNCHANGED <<login, logins>>
    BY <1>4 DEF Serve, Signup, LoginHandler, VerifyOTP, CallbackRefused, Callback,
                Middleware, Logout, AnswerOnly
  <2>. QED
    BY <1>1, <1>3, <2>1, <2>2
<1>5. ASSUME \/ UNCHANGED vars
             \/ \E q \in Requests : Lose(q)
             \/ \E b \in Browsers : Expire(b)
             \/ \E n \in Logins : Consent(n)
             \/ \E t \in Tokens : SessionEnds(t)
      PROVE  UNCHANGED <<login, logins>>
  BY <1>5 DEF vars, Lose, Expire, Consent, SessionEnds
<1>6. ASSUME NEW q \in Requests, NEW b \in Browsers,
             \/ \E kind \in {"post", "oauthLogin"} : SendPlain(q, b, kind)
             \/ \E header \in 0..MaxTokens : SendLogout(q, b, header)
             \/ \E n \in Logins, k \in 0..MaxCodes : SendCallback(q, b, n, k)
      PROVE  UNCHANGED <<login, logins>>
  BY <1>6 DEF SendPlain, SendLogout, SendCallback, Send
<1>. QED
  BY <1>1, <1>2, <1>4, <1>5, <1>6 DEF Next

\* A code keeps the login it was issued for.
LEMMA CodesKeep ==
  ASSUME BrowserTypeOK, [Next]_vars, NEW k \in Codes, code[k].login # 0
  PROVE  code'[k].login # 0
<1>1. CASE UNCHANGED code
  BY <1>1
<1>2. ASSUME NEW n \in Logins, Consent(n)
      PROVE  code'[k].login # 0
  <2>1. code' = [code EXCEPT ![codes + 1] = [login |-> n, used |-> FALSE]]
    BY <1>2 DEF Consent
  <2>2. n # 0
    BY BrowserBounds DEF Logins
  <2>3. code'[k] = code[k] \/ code'[k] = [login |-> n, used |-> FALSE]
    BY <2>1 DEF BrowserTypeOK
  <2>. QED
    BY <2>2, <2>3
<1>3. ASSUME NEW q \in Requests, Callback(q)
      PROVE  code'[k].login # 0
  <2>. DEFINE c == request[q].code
  <2>1. code' = [code EXCEPT ![c] = [code[c] EXCEPT !.used = TRUE]]
    BY <1>3 DEF Callback, BrowserTypeOK
  <2>2. code[k] \in Code
    BY DEF BrowserTypeOK
  <2>3. code'[k] = code[k] \/ code'[k] = [code[k] EXCEPT !.used = TRUE]
    BY <2>1 DEF BrowserTypeOK
  <2>. QED
    BY <2>2, <2>3 DEF Code
<1>4. ASSUME NEW q \in Requests, Serve(q)
      PROVE  Callback(q) \/ UNCHANGED code
  BY <1>4 DEF Serve, Signup, LoginHandler, VerifyOTP, OAuthLogin, CallbackRefused, Middleware,
              Logout, AnswerOnly, provider
<1>5. ASSUME NEW q \in Requests, NEW b \in Browsers,
             \/ \E kind \in {"post", "oauthLogin"} : SendPlain(q, b, kind)
             \/ \E header \in 0..MaxTokens : SendLogout(q, b, header)
             \/ \E n \in Logins, c \in 0..MaxCodes : SendCallback(q, b, n, c)
      PROVE  UNCHANGED code
  BY <1>5 DEF SendPlain, SendLogout, SendCallback, Send, provider
<1>6. ASSUME \/ UNCHANGED vars
             \/ \E q \in Requests : Lose(q) \/ Deliver(q)
             \/ \E b \in Browsers : Expire(b)
             \/ \E t \in Tokens : SessionEnds(t)
      PROVE  UNCHANGED code
  BY <1>6 DEF vars, Lose, Deliver, Expire, SessionEnds, provider
<1>. QED
  BY <1>1, <1>2, <1>3, <1>4, <1>5, <1>6 DEF Next

\* A request's code is the one it was sent with, and dropped in the answer.
LEMMA RequestCodes ==
  ASSUME Inductive, [Next]_vars, NEW p \in Requests
  PROVE  \/ request'[p].code = request[p].code
         \/ request'[p].code = 0
         \/ request'[p].code \in Codes /\ code[request'[p].code].login # 0
<1>0. request \in [Requests -> Request]
  BY DEF Inductive, BrowserTypeOK
<1>1. CASE UNCHANGED request
  BY <1>1
<1>2. ASSUME NEW q \in Requests, NEW r, request' = [request EXCEPT ![q] = r],
             \/ r.code = request[q].code \/ r.code = 0
             \/ r.code \in Codes /\ code[r.code].login # 0
      PROVE  \/ request'[p].code = request[p].code
             \/ request'[p].code = 0
             \/ request'[p].code \in Codes /\ code[request'[p].code].login # 0
  <2>1. request'[p] = IF p = q THEN r ELSE request[p]
    BY <1>0, <1>2
  <2>. QED
    BY <1>2, <2>1
<1>. DEFINE Goal == \/ request'[p].code = request[p].code
                    \/ request'[p].code = 0
                    \/ request'[p].code \in Codes /\ code[request'[p].code].login # 0
<1>3. ASSUME NEW q \in Requests, NEW status, NoCookies(q, status)
      PROVE  Goal
  <2>. DEFINE r == [IdleRequest EXCEPT
                      !.pc = "answered", !.browser = request[q].browser, !.status = status,
                      !.login = IF status = "badState" THEN request[q].login ELSE 0]
  <2>1. request' = [request EXCEPT ![q] = r] /\ r.code = 0
    BY <1>3 DEF NoCookies, IdleRequest
  <2>. HIDE DEF r
  <2>. QED
    BY <1>2, <2>1
<1>4. ASSUME NEW q \in Requests, NEW names, NEW set, Answered(q, names, set)
      PROVE  Goal
  <2>. DEFINE r == [IdleRequest EXCEPT
                      !.pc = "answered", !.browser = request[q].browser,
                      !.token = request[q].token,
                      !.status = "ok", !.names = names, !.set = set]
  <2>1. request' = [request EXCEPT ![q] = r] /\ r.code = 0
    BY <1>4 DEF Answered, IdleRequest
  <2>. HIDE DEF r
  <2>. QED
    BY <1>2, <2>1
<1>5. ASSUME NEW q \in Requests, OAuthLogin(q), ~AnswerOnly(q, "error")
      PROVE  Goal
  <2>. DEFINE n == logins + 1
              r == [IdleRequest EXCEPT
                      !.pc = "answered", !.browser = request[q].browser, !.login = n,
                      !.status = "ok", !.names = {"oauth"}, !.set = setSecureCookie(n, n)]
  <2>1. request' = [request EXCEPT ![q] = r] /\ r.code = 0
    BY <1>5 DEF OAuthLogin, generateRandomString, IdleRequest
  <2>. HIDE DEF r
  <2>. QED
    BY <1>2, <2>1
<1>6. ASSUME NEW q \in Requests, Middleware(q), ~AnswerOnly(q, "error")
      PROVE  Goal
  <2>. DEFINE token == IF request[q].token # 0 THEN request[q].token
                                               ELSE request[q].cookies.session
              r == [request[q] EXCEPT !.pc = "handler", !.cookies = EmptyJar, !.token = token]
  <2>1. request' = [request EXCEPT ![q] = r]
    BY <1>0, <1>6 DEF Middleware
  <2>2. r.code = request[q].code
    BY <1>0 DEF Request
  <2>. HIDE DEF r
  <2>. QED
    BY <1>2, <2>1, <2>2
<1>7. ASSUME NEW q \in Requests, Serve(q)
      PROVE  Goal
  <2>. HIDE DEF Goal
  <2>. QED
    BY <1>3, <1>4, <1>5, <1>6, <1>7
    DEF Serve, Signup, LoginHandler, VerifyOTP, OAuthLogin, CallbackRefused, Callback, Middleware,
        Logout, AnswerOnly
<1>8. ASSUME NEW q \in Requests, Lose(q) \/ Deliver(q)
      PROVE  Goal
  <2>1. request' = [request EXCEPT ![q] = IdleRequest] /\ IdleRequest.code = 0
    BY <1>8 DEF Lose, Deliver, IdleRequest
  <2>. QED
    BY <1>2, <2>1
<1>9. ASSUME NEW q \in Requests, NEW b \in Browsers, NEW r \in Request, Send(q, b, r),
             r.code = 0 \/ (r.code \in Codes /\ code[r.code].login # 0)
      PROVE  Goal
  <2>. DEFINE s == [r EXCEPT !.pc = "server", !.browser = b]
  <2>1. request' = [request EXCEPT ![q] = s] /\ s.code = r.code
    BY <1>9 DEF Send, Request
  <2>. HIDE DEF s
  <2>. QED
    BY <1>2, <1>9, <2>1
<1>10. ASSUME NEW q \in Requests, NEW b \in Browsers,
              \/ \E kind \in {"post", "oauthLogin"} : SendPlain(q, b, kind)
              \/ \E header \in 0..MaxTokens : SendLogout(q, b, header)
       PROVE  Goal
  BY <1>2, <1>10 DEF SendPlain, SendLogout, Send, IdleRequest
<1>11. ASSUME NEW q \in Requests, NEW b \in Browsers, NEW n \in Logins, NEW k \in 0..MaxCodes,
              SendCallback(q, b, n, k)
       PROVE  Goal
  <2>. DEFINE j == [jar[b] EXCEPT !.session = 0]
              r == [IdleRequest EXCEPT !.kind = "callback", !.login = n, !.code = k,
                                       !.cookies = j]
  <2>1. j \in Jar
    BY BrowserBounds DEF Inductive, BrowserTypeOK, Jar
  <2>2. n \in 0..MaxLogins /\ n # 0 /\ (k # 0 => k \in Codes)
    BY BrowserBounds DEF Logins, Codes
  <2>3. Send(q, b, r) /\ (k # 0 => code[k].login = n)
    BY <1>11 DEF SendCallback
  <2>. HIDE DEF j
  <2>4. r \in Request /\ r.code = k
    BY <2>1, <2>2, EmptyTypes DEF IdleRequest, Request, Kinds
  <2>. HIDE DEF r, Goal
  <2>. QED
    BY <1>9, <2>2, <2>3, <2>4
<1>12. ASSUME \/ UNCHANGED vars
              \/ \E b \in Browsers : Expire(b)
              \/ \E n \in Logins : Consent(n)
              \/ \E t \in Tokens : SessionEnds(t)
       PROVE  UNCHANGED request
  BY <1>12 DEF vars, Expire, Consent, SessionEnds
<1>. HIDE DEF Goal
<1>13. Goal
  <2>1. UNCHANGED request => Goal
    BY DEF Goal
  <2>. QED
    BY <2>1, <1>7, <1>8, <1>10, <1>11, <1>12 DEF Next
<1>. QED
  BY <1>13 DEF Goal

\* Every step keeps callbacks with codes that the provider issued.
LEMMA CodesNamedStep ==
  ASSUME Inductive, [Next]_vars
  PROVE  CodesNamed'
<1>1. ASSUME NEW q \in Requests, request'[q].code # 0
      PROVE  code'[request'[q].code].login # 0
  <2>1. request[q].code \in 0..MaxCodes
    BY DEF Inductive, BrowserTypeOK, Request
  <2>2. request[q].code # 0 => request[q].code \in Codes
    BY <2>1, BrowserBounds DEF Codes
  <2>3. request'[q].code \in Codes /\ code[request'[q].code].login # 0
    BY <1>1, <2>2, RequestCodes DEF Inductive, CodesNamed
  <2>. QED
    BY <2>3, CodesKeep DEF Inductive
<1>. QED
  BY <1>1 DEF CodesNamed

\* The initial state satisfies the invariant.
LEMMA BrowserInit ==
  ASSUME Init
  PROVE  Inductive
<1>1. BrowserTypeOK
  <2>1. \A n \in Logins : [browser |-> NoBrowser, state |-> 0, nonce |-> 0,
                           redirected |-> FALSE] \in Login
    BY BrowserBounds DEF Login
  <2>2. \A k \in Codes : [login |-> 0, used |-> FALSE] \in Code
    BY BrowserBounds DEF Code
  <2>3. request \in [Requests -> Request]
    BY EmptyTypes DEF Init
  <2>4. \A q \in Requests : request[q].pc # "handler"
    BY DEF Init, IdleRequest
  <2>5. jar \in [Browsers -> Jar]
    BY EmptyTypes DEF Init
  <2>6. redeemed \in [Tokens -> 0..MaxLogins]
    BY BrowserBounds DEF Init
  <2>7. logins \in 0..MaxLogins /\ tokens \in 0..MaxTokens /\ codes \in 0..MaxCodes
    BY BrowserBounds DEF Init
  <2>. QED
    BY <2>1, <2>2, <2>3, <2>4, <2>5, <2>6, <2>7 DEF Init, BrowserTypeOK
<1>2. Drawn
  BY BrowserBounds DEF Init, Drawn, Logins
<1>3. JarsOwned
  BY EmptyOwned DEF Init, JarsOwned
<1>4. RequestsOwned
  BY DEF Init, RequestsOwned, RequestOwned, IdleRequest
<1>5. CodesNamed
  BY DEF Init, CodesNamed, IdleRequest
<1>. QED
  BY <1>1, <1>2, <1>3, <1>4, <1>5 DEF Inductive

\* Every step preserves the invariant.
LEMMA BrowserStep ==
  ASSUME Inductive, [Next]_vars
  PROVE  Inductive'
  BY TypeStep, OwnedStep, DrawnStep, CodesNamedStep DEF Inductive

-------------------------------------------------------------------------------
\* The cookies of every browser and request, the logins, codes and sessions have
\* their types, and a token that the middleware hands on is never empty, however
\* many browsers, requests, logins and sessions there are.
THEOREM BrowserTypeCorrect == Spec => []BrowserTypeOK
<1>1. Init => Inductive
  BY BrowserInit
<1>2. Inductive /\ [Next]_vars => Inductive'
  BY BrowserStep
<1>3. Inductive => BrowserTypeOK
  BY DEF Inductive
<1>. QED
  BY <1>1, <1>2, <1>3, PTL DEF Spec

\* The nonce check of Callback: no browser is ever signed in through an OAuth
\* login that another one started, however many browsers, tabs and logins there
\* are.
THEOREM BrowserOwnLogin == Spec => []OwnLoginOnly
<1>1. Init => Inductive
  BY BrowserInit
<1>2. Inductive /\ [Next]_vars => Inductive'
  BY BrowserStep
<1>3. Inductive => OwnLoginOnly
  BY DEF Inductive, JarsOwned, Owned, OwnLoginOnly
<1>. QED
  BY <1>1, <1>2, <1>3, PTL DEF Spec
================================================================================
