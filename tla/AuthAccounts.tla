----------------------------- MODULE AuthAccounts ------------------------------
(***************************************************************************)
(* The account half of service/auth.go and service/user.go: Signup,        *)
(* VerifyOTP, Login, ForgotPassword, ResetPassword, ExchangeOAuthCode and  *)
(* DeleteUser, run by concurrent request handlers against one database,    *)
(* with the worker's OTP sweep and failing statements.                     *)
(*                                                                         *)
(* None of these operations runs in a transaction.  A handler's reads and  *)
(* the checks on them come first, and no write follows a check in the same *)
(* statement, so a handler is one reading step followed by one step per    *)
(* write; between any two every other handler may run.  A request that is  *)
(* refused while reading (unknown email, wrong password, wrong or expired  *)
(* code, nonce mismatch, conflict) changes nothing and is a stuttering     *)
(* step.  createSession is the step "session"; AuthSessions has its detail.*)
(***************************************************************************)
EXTENDS AccountRepository

CONSTANTS
    Procs,        \* request handlers that may run at the same time
    EmailOf,      \* the email claim of each provider subject
    PrefixLength, \* the length of each email's part before the @
    OTPExpiry,    \* AuthServiceConfig.OTPExpiry, in clock units
    Faults,       \* subset of {"dbError", "deleteUser"}
    MaxUsers, MaxOTPs, MaxTime

ASSUME NameAssumption == NoName \notin Usernames /\ NoPassword \notin Passwords
ASSUME SubjectAssumption == EmailOf \in [Subjects -> Emails]
ASSUME PrefixAssumption == PrefixLength \in [Emails -> Nat]
ASSUME AccountBounds == /\ OTPExpiry \in Nat \ {0} /\ MaxTime \in Nat
                        /\ MaxUsers \in Nat /\ MaxOTPs \in Nat
ASSUME FaultAssumption == Faults \subseteq {"dbError", "deleteUser"}

VARIABLES
    now,
    users,      \* users joined with credentials
    otps,
    links,      \* user_providers
    sessions,   \* ids of users for whom a sessions row exists
    userSeq,    \* last id drawn for users
    otpSeq,     \* how many OTP hashes GenerateToken has returned
    proc,       \* the request handlers
    issued,     \* history: for whom and for what each OTP was generated
    halfMade    \* history: accounts whose Signup or ExchangeOAuthCode ended right
                \* after it had created them

history == <<issued, halfMade>>
vars == <<now, users, otps, links, sessions, userSeq, otpSeq, proc, history>>
tables == <<users, otps, links, sessions, userSeq>>

-------------------------------------------------------------------------------
PCs == {"idle", "username", "createUser", "createOTP", "dropOTPs", "verify", "useOTP", "reset",
        "link", "session"}

NoEmail == "no email"
NoSubject == "no subject"
ASSUME LocalsAssumption == NoEmail \notin Emails /\ NoSubject \notin Subjects

\* A handler's locals.  `otp` is the OTP it was given or has generated.
Handler == [pc: PCs, purpose: Purposes, userID: 0..MaxUsers, otp: 0..MaxOTPs,
            email: Emails \cup {NoEmail}, username: Usernames \cup {NoName},
            password: Passwords \cup {NoPassword}, sub: Subjects \cup {NoSubject}]

Idle == [pc |-> "idle", purpose |-> "signup", userID |-> 0, otp |-> 0,
         email |-> NoEmail, username |-> NoName, password |-> NoPassword, sub |-> NoSubject]

AccountsTypeOK ==
    /\ now \in 0..MaxTime
    /\ users \subseteq UserRow(1..MaxUsers)
    /\ otps \subseteq OTPRow(1..MaxOTPs \cup 1..MaxUsers, Nat)
    /\ links \subseteq LinkRow(1..MaxUsers)
    /\ sessions \subseteq 1..MaxUsers
    /\ userSeq \in 0..MaxUsers
    /\ otpSeq \in 0..MaxOTPs
    /\ proc \in [Procs -> Handler]
    /\ issued \subseteq [otp: 1..MaxOTPs, userID: 1..MaxUsers, purpose: Purposes]
    /\ halfMade \subseteq 1..MaxUsers

Init ==
    /\ now = 0
    /\ users = {} /\ otps = {} /\ links = {} /\ sessions = {}
    /\ userSeq = 0 /\ otpSeq = 0
    /\ proc = [p \in Procs |-> Idle]
    /\ issued = {} /\ halfMade = {}

-------------------------------------------------------------------------------
Begin(p, h) ==
    /\ proc[p].pc = "idle"
    /\ proc' = [proc EXCEPT ![p] = h]
    /\ UNCHANGED <<now, tables, otpSeq, history>>

Goto(p, pc) == proc' = [proc EXCEPT ![p].pc = pc]
Return(p) == proc' = [proc EXCEPT ![p] = Idle]

\* GenerateOTP and GenerateToken(32): a new code, mailed to the user's address
\* when the record has been stored, under a new random hash.
GenerateOTP(userID, purpose) ==
    /\ otpSeq < MaxOTPs
    /\ otpSeq' = otpSeq + 1
    /\ issued' = issued \cup {[otp |-> otpSeq + 1, userID |-> userID, purpose |-> purpose]}

-------------------------------------------------------------------------------
(* The reading half of each operation.                                       *)

\* Signup: ExistsEmail.
Signup(p, email, password) ==
    /\ GetByEmail(users, email) = {}
    /\ Begin(p, [Idle EXCEPT !.pc = "createUser", !.email = email, !.password = password])

\* VerifyOTP: GetByOTPHash, GetByID and the checks.
VerifyOTP(p, otp) ==
    \E o \in GetByOTPHash(otps, otp, "signup") : \E u \in GetByID(users, o.userID) :
        /\ ~u.verified
        /\ ~(now > o.expiresAt)
        /\ Begin(p, [Idle EXCEPT !.pc = "username", !.otp = otp, !.userID = o.userID,
                                 !.email = u.email])

\* Mutant of Login: users.verified is not checked.
Login_Unverified(p, email, password) ==
    \E u \in GetByEmail(users, email) :
        /\ u.password = password
        /\ Begin(p, [Idle EXCEPT !.pc = "session", !.userID = u.id])

\* Login: GetByEmail and the checks.
Login(p, email, password) ==
    \E u \in GetByEmail(users, email) :
        /\ u.verified
        /\ u.password = password
        /\ Begin(p, [Idle EXCEPT !.pc = "session", !.userID = u.id])

\* ForgotPassword: GetByEmail.
ForgotPassword(p, email) ==
    \E u \in GetByEmail(users, email) :
        Begin(p, [Idle EXCEPT !.pc = "dropOTPs", !.purpose = "reset", !.userID = u.id])

\* ResetPassword: GetByOTPHash and the checks.
ResetPassword(p, otp, password) ==
    \E o \in GetByOTPHash(otps, otp, "reset") :
        /\ ~(now > o.expiresAt)
        /\ Begin(p, [Idle EXCEPT !.pc = "reset", !.purpose = "reset", !.otp = otp,
                                 !.userID = o.userID, !.password = password])

\* ExchangeOAuthCode with a verified ID token: GetByProvider, then GetByEmail
\* when the subject is new.
ExchangeOAuthCode(p, sub) ==
    \/ \E l \in GetByProvider(links, sub) :
          Begin(p, [Idle EXCEPT !.pc = "session", !.userID = l.userID])
    \/ /\ GetByProvider(links, sub) = {}
       /\ GetByEmail(users, EmailOf[sub]) = {}
       /\ Begin(p, [Idle EXCEPT !.pc = "username", !.email = EmailOf[sub], !.sub = sub])

\* Mutant of GenerateUsername: the separator is not counted.
GenerateUsername_OffByOne(email) == PrefixLength[email] + 6 =< 100

\* GenerateUsername: the prefix, "_" and six digits are a name if they fit.
GenerateUsername(email) == PrefixLength[email] + 1 + 6 =< 100

\* generateUniqueUsername, for VerifyOTP and for a new OAuth subject: a random
\* name that is free; or none fits, or ten draws give names that are taken.
generateUniqueUsername(p, username) ==
    /\ proc[p].pc = "username"
    /\ \/ /\ GenerateUsername(proc[p].email)
          /\ ~ExistsUsername(users, username)
          /\ proc' = [proc EXCEPT
                ![p].pc = IF proc[p].sub # NoSubject THEN "createUser" ELSE "verify",
                ![p].username = username]
       \/ /\ GenerateUsername(proc[p].email) => ExistsUsername(users, username)
          /\ Return(p)
    /\ UNCHANGED <<now, tables, otpSeq, history>>

-------------------------------------------------------------------------------
(* The writes.                                                               *)

\* userRepo.Create, for Signup and for a new OAuth subject; the constraint
\* refuses what the earlier check let through.
CreateAccount(p) ==
    LET h == proc[p]
        row == [id |-> userSeq + 1, email |-> h.email, username |-> h.username,
                verified |-> h.sub # NoSubject, password |-> h.password] IN
    /\ h.pc = "createUser"
    /\ \/ /\ UserAllowed(users, row)
          /\ userSeq < MaxUsers
          /\ userSeq' = userSeq + 1
          /\ users' = CreateUser(users, row)
          /\ proc' = [proc EXCEPT ![p].pc = IF h.sub # NoSubject THEN "link" ELSE "createOTP",
                                  ![p].userID = userSeq + 1]
          /\ UNCHANGED <<now, otps, links, sessions, otpSeq, history>>
       \/ /\ ~UserAllowed(users, row)
          /\ Return(p)
          /\ UNCHANGED <<now, tables, otpSeq, history>>

\* Mutant of StoreOTP: the code is always a reset code.
StoreOTP_Reset(p) ==
    LET h == proc[p] IN
    /\ h.pc = "createOTP"
    /\ UserExists(users, h.userID)
    /\ GenerateOTP(h.userID, "reset")
    /\ otps' = CreateOTP(otps, otpSeq + 1, h.userID, "reset", now + OTPExpiry)
    /\ Return(p)
    /\ UNCHANGED <<now, users, links, sessions, userSeq, halfMade>>

\* otpRepo.Create, the last write of Signup and ForgotPassword.
StoreOTP(p) ==
    LET h == proc[p] IN
    /\ h.pc = "createOTP"
    /\ \/ /\ UserExists(users, h.userID)
          /\ GenerateOTP(h.userID, h.purpose)
          /\ otps' = CreateOTP(otps, otpSeq + 1, h.userID, h.purpose, now + OTPExpiry)
          /\ Return(p)
          /\ UNCHANGED <<now, users, links, sessions, userSeq, halfMade>>
       \/ /\ ~UserExists(users, h.userID)
          /\ Return(p)
          /\ UNCHANGED <<now, tables, otpSeq, history>>

\* ForgotPassword's SoftDeleteByUserIDAndPurpose, whose error is ignored.
DropOTPs(p) ==
    LET h == proc[p] IN
    /\ h.pc = "dropOTPs"
    /\ \/ otps' = SoftDeleteByUserIDAndPurpose(otps, h.userID, "reset")
       \/ "dbError" \in Faults /\ UNCHANGED otps
    /\ Goto(p, "createOTP")
    /\ UNCHANGED <<now, users, links, sessions, userSeq, otpSeq, history>>

\* VerifyOTP's UpdateVerified; a user deleted meanwhile matches no row.
MarkVerified(p) ==
    LET h == proc[p] IN
    /\ h.pc = "verify"
    /\ \/ /\ UpdateVerifiedAllowed(users, h.userID, h.username)
          /\ users' = UpdateVerified(users, h.userID, h.username)
          /\ Goto(p, "useOTP")
          /\ UNCHANGED <<now, otps, links, sessions, userSeq, otpSeq, history>>
       \/ /\ ~UpdateVerifiedAllowed(users, h.userID, h.username)
          /\ Return(p)
          /\ UNCHANGED <<now, tables, otpSeq, history>>

\* ResetPassword's UpdatePassword.
StorePassword(p) ==
    LET h == proc[p] IN
    /\ h.pc = "reset"
    /\ users' = UpdatePassword(users, h.userID, h.password)
    /\ Goto(p, "useOTP")
    /\ UNCHANGED <<now, otps, links, sessions, userSeq, otpSeq, history>>

\* SoftDeleteByOTPHash: ResetPassword returns, VerifyOTP goes on to a session.
UseOTP(p) ==
    LET h == proc[p] IN
    /\ h.pc = "useOTP"
    /\ otps' = SoftDeleteByOTPHash(otps, h.otp, h.purpose)
    /\ \/ h.purpose = "reset" /\ Return(p)
       \/ h.purpose = "signup" /\ Goto(p, "session")
    /\ UNCHANGED <<now, users, links, sessions, userSeq, otpSeq, history>>

\* ExchangeOAuthCode's providerRepo.Create.
LinkProvider(p) ==
    LET h == proc[p] IN
    /\ h.pc = "link"
    /\ \/ /\ LinkAllowed(links, h.sub, h.userID) /\ UserExists(users, h.userID)
          /\ links' = CreateLink(links, h.sub, h.userID)
          /\ Goto(p, "session")
          /\ UNCHANGED <<now, users, otps, sessions, userSeq, otpSeq, history>>
       \/ /\ ~(LinkAllowed(links, h.sub, h.userID) /\ UserExists(users, h.userID))
          /\ Return(p)
          /\ UNCHANGED <<now, tables, otpSeq, history>>

\* createSession.
CreateSession(p) ==
    LET h == proc[p] IN
    /\ h.pc = "session"
    /\ \/ /\ UserExists(users, h.userID)
          /\ sessions' = sessions \cup {h.userID}
          /\ Return(p)
          /\ UNCHANGED <<now, users, otps, links, userSeq, otpSeq, history>>
       \/ /\ ~UserExists(users, h.userID)
          /\ Return(p)
          /\ UNCHANGED <<now, tables, otpSeq, history>>

\* The handler has created an account, and its code or its link comes next.
Completing(p) ==
    proc[p].pc = "link" \/ (proc[p].pc = "createOTP" /\ proc[p].purpose = "signup")

\* A statement reports an error, before or after its change was applied, the
\* request is cancelled or the process dies: the handler ends where it stands.
Abandon(p) ==
    /\ "dbError" \in Faults
    /\ proc[p].pc # "idle"
    /\ Return(p)
    /\ halfMade' = IF Completing(p) THEN halfMade \cup {proc[p].userID} ELSE halfMade
    /\ UNCHANGED <<now, tables, otpSeq, issued>>

-------------------------------------------------------------------------------
\* DeleteUser: ids are never reused, so its check and its DELETE are one step.
DeleteUser(id) ==
    /\ "deleteUser" \in Faults
    /\ UserExists(users, id)
    /\ users' = DeleteUserRow(users, id)
    /\ otps' = Cascade(otps, id)
    /\ links' = Cascade(links, id)
    /\ sessions' = sessions \ {id}
    /\ halfMade' = halfMade \ {id}
    /\ UNCHANGED <<now, userSeq, otpSeq, proc, issued>>

\* CleanupWorker.cleanup, its otps statement.
CleanupOTPs ==
    /\ otps' = DeleteExpiredAndSoftDeletedOTPs(otps, now)
    /\ otps' # otps
    /\ UNCHANGED <<now, users, links, sessions, userSeq, otpSeq, proc, history>>

Tick ==
    /\ now < MaxTime
    /\ now' = now + 1
    /\ UNCHANGED <<tables, otpSeq, proc, history>>

Request(p) ==
    \/ \E e \in Emails, w \in Passwords : Signup(p, e, w)
    \/ \E o \in 1..otpSeq : VerifyOTP(p, o)
    \/ \E e \in Emails, w \in Passwords : Login(p, e, w)
    \/ \E e \in Emails : ForgotPassword(p, e)
    \/ \E o \in 1..otpSeq, w \in Passwords : ResetPassword(p, o, w)
    \/ \E s \in Subjects : ExchangeOAuthCode(p, s)
    \/ \E n \in Usernames : generateUniqueUsername(p, n)

Write(p) ==
    \/ CreateAccount(p)
    \/ StoreOTP(p)
    \/ DropOTPs(p)
    \/ MarkVerified(p)
    \/ StorePassword(p)
    \/ UseOTP(p)
    \/ LinkProvider(p)
    \/ CreateSession(p)
    \/ Abandon(p)

Next ==
    \/ \E p \in Procs : Request(p) \/ Write(p)
    \/ \E id \in 1..userSeq : DeleteUser(id)
    \/ CleanupOTPs
    \/ Tick

Spec == Init /\ [][Next]_vars

-------------------------------------------------------------------------------
(* Properties.                                                               *)

\* However the check-then-insert of Signup, VerifyOTP and ExchangeOAuthCode
\* interleave, no two accounts share an email or a username, and no provider
\* subject leads to two accounts or account to two subjects.
IdentitiesUnique ==
    /\ \A u, v \in users : u # v =>
          /\ u.id # v.id /\ u.email # v.email
          /\ u.username = NoName \/ u.username # v.username
    /\ \A l, m \in links : l.sub = m.sub <=> l.userID = m.userID

\* A session is only ever created for a verified account, by whichever of
\* Login, VerifyOTP and ExchangeOAuthCode, although Login's check of
\* users.verified is long past when it creates the session.
SessionsOnlyForVerified == \A u \in users : u.id \in sessions => u.verified

\* A password is about to be replaced only through an OTP that was issued to that
\* user for that purpose: a signup code never resets a password, and neither does
\* a reset code of someone else, whatever became of the OTP since it was read.
ResetByResetCode ==
    \A p \in Procs : proc[p].pc = "reset" =>
        [otp |-> proc[p].otp, userID |-> proc[p].userID, purpose |-> "reset"] \in issued

\* A code that has verified an account is spent before the session it earns is
\* created: no request that starts later finds it, whoever else wrote meanwhile.
CodeSpent ==
    \A p \in Procs : proc[p].pc = "session" /\ proc[p].otp # 0
                       => GetByOTPHash(otps, proc[p].otp, "signup") = {}

\* An account its owner cannot sign in to as it stands is left behind only by a
\* statement that failed right after it was created, never by interleaving: every
\* unverified account has been sent a signup code, and every account without a
\* password has its provider link, unless a handler is about to see to it.
HalfMadeOnlyByFailure ==
    \A u \in users :
        \/ u.id \in halfMade
        \/ \E p \in Procs : Completing(p) /\ proc[p].userID = u.id
        \/ /\ ~u.verified => \E i \in issued : i.userID = u.id /\ i.purpose = "signup"
           /\ u.password = NoPassword => \E l \in links : l.userID = u.id

\* Whoever can sign in has a username, and it fits into users.username,
\* VARCHAR(100): an email whose prefix leaves no room for the suffix can sign up
\* and never be verified.
VerifiedHasUsername ==
    \A u \in users : u.verified \/ u.id \in sessions
        => u.username # NoName /\ PrefixLength[u.email] + 7 =< 100
================================================================================
