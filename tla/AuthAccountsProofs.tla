-------------------------- MODULE AuthAccountsProofs ---------------------------
(***************************************************************************)
(* The safety properties of AuthAccounts for any emails, usernames,        *)
(* passwords, provider subjects and handlers, any bounds and any faults.   *)
(*                                                                         *)
(* The argument.  A handler writes what it read before, so the invariant   *)
(* says what a handler may rely on at each of its steps although others    *)
(* have written since: ids are never used twice, so a handler's account is *)
(* the one it read or is gone (Ids, ForeignKeys); verification is never    *)
(* undone, passwords are never cleared and emails never change, so what it *)
(* read of the account still holds (Remembered); what it is about to write *)
(* it has checked itself (Locals); and whatever becomes of an OTP, its     *)
(* record says for whom and for what it was issued (Issued).               *)
(***************************************************************************)
EXTENDS AuthAccounts, TLAPS

\* Ids and OTP hashes come from the sequences and nowhere else.
Ids ==
    /\ \A u \in users : u.id =< userSeq
    /\ \A o \in otps : o.hash =< otpSeq
    /\ \A i \in issued : i.otp =< otpSeq
    /\ \A p \in Procs : proc[p].userID =< userSeq /\ proc[p].otp =< otpSeq

\* REFERENCES users(id): no table names a user that does not exist.
ForeignKeys ==
    /\ \A r \in otps \cup links : UserExists(users, r.userID)
    /\ \A id \in sessions : UserExists(users, id)

\* What a handler has made sure of by itself at each point of its way.
Located(h) ==
    /\ h.sub # NoSubject => h.email = EmailOf[h.sub] /\ h.otp = 0
    /\ h.pc \in {"username", "createUser", "verify"} => h.email \in Emails /\ h.purpose = "signup"
    /\ h.pc = "createUser" =>
          IF h.sub # NoSubject THEN h.username # NoName /\ GenerateUsername(h.email)
          ELSE h.password # NoPassword
    /\ h.pc = "verify" => h.sub = NoSubject /\ h.username # NoName /\ GenerateUsername(h.email)
    /\ h.pc = "link" => h.sub # NoSubject /\ h.userID # 0
    /\ h.pc = "createOTP" => h.userID # 0
    /\ h.pc = "dropOTPs" => h.purpose = "reset" /\ h.userID # 0
    /\ h.pc = "reset" => h.purpose = "reset" /\ h.password # NoPassword

Locals == \A p \in Procs : Located(proc[p])

\* What a handler read of its user, or wrote, is still true of that user.
StillTrue(h, u) ==
    /\ h.pc \in {"verify", "link"} \/ (h.pc = "username" /\ h.sub = NoSubject)
          => u.email = h.email
    /\ h.pc \in {"session", "link"} \/ (h.pc = "useOTP" /\ h.purpose = "signup")
          => u.verified
    /\ h.pc = "createOTP" /\ h.purpose = "signup" => u.password # NoPassword

Remembered ==
    \A p \in Procs, u \in users : u.id = proc[p].userID => StillTrue(proc[p], u)

\* An OTP record is the one that was issued.
Issued ==
    \A o \in otps : [otp |-> o.hash, userID |-> o.userID, purpose |-> o.purpose] \in issued

\* A linked account is verified and has the email of the subject it is linked to.
Linked ==
    \A l \in links : \A u \in users :
        u.id = l.userID => u.verified /\ u.email = EmailOf[l.sub]

\* The account that a handler is about to link has no link, and no other handler
\* is about to link it.
Unlinked ==
    \A p \in Procs : proc[p].pc = "link" =>
        /\ \A l \in links : l.userID # proc[p].userID
        /\ \A q \in Procs : proc[q].pc = "link" /\ proc[q].userID = proc[p].userID => q = p

IInv ==
    /\ AccountsTypeOK
    /\ Ids
    /\ ForeignKeys
    /\ Locals
    /\ Remembered
    /\ Issued
    /\ Linked
    /\ Unlinked
    /\ IdentitiesUnique
    /\ SessionsOnlyForVerified
    /\ ResetByResetCode
    /\ CodeSpent
    /\ HalfMadeOnlyByFailure
    /\ VerifiedHasUsername

-------------------------------------------------------------------------------
(* What a step does to the tables, whoever takes it.                         *)

\* Two users with one id are one user.
LEMMA SameUser ==
  ASSUME IdentitiesUnique, NEW u \in users, NEW v \in users, u.id = v.id
  PROVE  u = v
  BY DEF IdentitiesUnique

\* UpdateVerified keeps the id, the email and the password of every row, and leaves
\* the rows of others alone.
LEMMA VerifiedRows ==
  ASSUME NEW table \in SUBSET UserRow(Nat), NEW id, NEW n
  PROVE  /\ \A v \in UpdateVerified(table, id, n) : \E u \in table :
               /\ v.id = u.id /\ v.email = u.email /\ v.password = u.password
               /\ IF u.id = id THEN v.verified /\ v.username = n ELSE v = u
         /\ \A u \in table : \E v \in UpdateVerified(table, id, n) : v.id = u.id
  <1> DEFINE F(u) == IF u.id = id THEN [u EXCEPT !.verified = TRUE, !.username = n] ELSE u
  <1>1. UpdateVerified(table, id, n) = {F(u) : u \in table}
    BY DEF UpdateVerified
  <1>2. ASSUME NEW u \in table
        PROVE  /\ F(u).id = u.id /\ F(u).email = u.email /\ F(u).password = u.password
               /\ IF u.id = id THEN F(u).verified /\ F(u).username = n ELSE F(u) = u
    BY DEF UserRow
  <1> HIDE DEF F
  <1>3. QED
    BY <1>1, <1>2

\* UpdatePassword likewise.
LEMMA PasswordRows ==
  ASSUME NEW table \in SUBSET UserRow(Nat), NEW id, NEW w
  PROVE  /\ \A v \in UpdatePassword(table, id, w) : \E u \in table :
               /\ v.id = u.id /\ v.email = u.email /\ v.username = u.username
               /\ v.verified = u.verified
               /\ IF u.id = id THEN v.password = w ELSE v = u
         /\ \A u \in table : \E v \in UpdatePassword(table, id, w) : v.id = u.id
  <1> DEFINE F(u) == IF u.id = id THEN [u EXCEPT !.password = w] ELSE u
  <1>1. UpdatePassword(table, id, w) = {F(u) : u \in table}
    BY DEF UpdatePassword
  <1>2. ASSUME NEW u \in table
        PROVE  /\ F(u).id = u.id /\ F(u).email = u.email /\ F(u).username = u.username
               /\ F(u).verified = u.verified
               /\ IF u.id = id THEN F(u).password = w ELSE F(u) = u
    BY DEF UserRow
  <1> HIDE DEF F
  <1>3. QED
    BY <1>1, <1>2

\* The row that CreateAccount writes.
NewRow(p) == [id |-> userSeq + 1, email |-> proc[p].email, username |-> proc[p].username,
              verified |-> proc[p].sub # NoSubject, password |-> proc[p].password]

\* The users a step leaves behind: a new one, or an earlier one, perhaps verified or
\* with another password.
LEMMA UserHistory ==
  ASSUME IInv, [Next]_vars, NEW v \in users'
  PROVE  \/ \E p \in Procs : CreateAccount(p) /\ v = NewRow(p)
         \/ \E u \in users :
              /\ v.id = u.id /\ v.email = u.email
              /\ u.verified => v.verified
              /\ u.password # NoPassword => v.password # NoPassword
  <1>1. users \in SUBSET UserRow(Nat)
    BY AccountBounds DEF IInv, AccountsTypeOK, UserRow
  <1>2. CASE users' = users
    BY <1>2
  <1>3. ASSUME NEW p \in Procs, CreateAccount(p)
        PROVE  v \in users \/ v = NewRow(p)
    BY <1>3 DEF CreateAccount, CreateUser, NewRow, tables
  <1>4. ASSUME NEW p \in Procs, MarkVerified(p), users' # users
        PROVE  \E u \in users : /\ v.id = u.id /\ v.email = u.email /\ v.password = u.password
                                /\ u.verified => v.verified
    <2>1. users' = UpdateVerified(users, proc[p].userID, proc[p].username)
      BY <1>4 DEF MarkVerified, tables
    <2>2. QED
      BY <1>1, <2>1, VerifiedRows
  <1>5. ASSUME NEW p \in Procs, StorePassword(p)
        PROVE  \E u \in users : /\ v.id = u.id /\ v.email = u.email /\ v.verified = u.verified
                                /\ u.password # NoPassword => v.password # NoPassword
    <2>1. users' = UpdatePassword(users, proc[p].userID, proc[p].password)
      BY <1>5 DEF StorePassword
    <2>2. proc[p].password # NoPassword
      BY <1>5 DEF StorePassword, IInv, Locals, Located
    <2>3. QED
      BY <1>1, <2>1, <2>2, PasswordRows
  <1>6. ASSUME NEW id, DeleteUser(id)
        PROVE  v \in users
    BY <1>6 DEF DeleteUser, DeleteUserRow
  <1>7. users' # users => \/ \E p \in Procs : CreateAccount(p) \/ MarkVerified(p) \/ StorePassword(p)
                          \/ \E id : DeleteUser(id)
    BY DEF Next, Request, Write, Begin, Signup, VerifyOTP, Login, ForgotPassword, ResetPassword,
           ExchangeOAuthCode, generateUniqueUsername, StoreOTP, DropOTPs, UseOTP, LinkProvider,
           CreateSession, Abandon, CleanupOTPs, Tick, vars, tables
  <1>8. QED
    BY <1>2, <1>3, <1>4, <1>5, <1>6, <1>7

\* The users that are gone: deleted ones only.
LEMMA UsersStay ==
  ASSUME IInv, [Next]_vars, NEW id, UserExists(users, id), ~DeleteUser(id)
  PROVE  UserExists(users', id)
  <1>1. users \in SUBSET UserRow(Nat)
    BY AccountBounds DEF IInv, AccountsTypeOK, UserRow
  <1>2. PICK u \in users : u.id = id
    BY DEF UserExists, GetByID
  <1>3. CASE users' = users
    BY <1>3 DEF UserExists
  <1>4. ASSUME NEW p \in Procs, CreateAccount(p)
        PROVE  u \in users'
    BY <1>4 DEF CreateAccount, CreateUser, tables
  <1>5. ASSUME NEW p \in Procs, MarkVerified(p), users' # users
        PROVE  \E v \in users' : v.id = id
    <2>1. users' = UpdateVerified(users, proc[p].userID, proc[p].username)
      BY <1>5 DEF MarkVerified, tables
    <2>2. QED
      BY <1>1, <1>2, <2>1, VerifiedRows
  <1>6. ASSUME NEW p \in Procs, StorePassword(p)
        PROVE  \E v \in users' : v.id = id
    <2>1. users' = UpdatePassword(users, proc[p].userID, proc[p].password)
      BY <1>6 DEF StorePassword
    <2>2. QED
      BY <1>1, <1>2, <2>1, PasswordRows
  <1>7. ASSUME NEW i, i # id, DeleteUser(i)
        PROVE  u \in users'
    BY <1>2, <1>7 DEF DeleteUser, DeleteUserRow
  <1>8. users' # users => \/ \E p \in Procs : CreateAccount(p) \/ MarkVerified(p) \/ StorePassword(p)
                          \/ \E i : DeleteUser(i)
    BY DEF Next, Request, Write, Begin, Signup, VerifyOTP, Login, ForgotPassword, ResetPassword,
           ExchangeOAuthCode, generateUniqueUsername, StoreOTP, DropOTPs, UseOTP, LinkProvider,
           CreateSession, Abandon, CleanupOTPs, Tick, vars, tables
  <1>9. CASE \E v \in users' : v.id = id
    BY <1>9 DEF UserExists, GetByID
  <1>10. QED
    BY <1>2, <1>3, <1>4, <1>5, <1>6, <1>7, <1>8, <1>9

\* No statement changes for whom and for what an OTP was issued, nor brings back a
\* deleted one; a new one has a new hash.
LEMMA OTPHistory ==
  ASSUME IInv, [Next]_vars, NEW o \in otps'
  PROVE  \/ /\ o.hash = otpSeq + 1 /\ otpSeq' = otpSeq + 1 /\ o.userID \in 1..MaxUsers
            /\ UserExists(users, o.userID) /\ users' = users
            /\ [otp |-> o.hash, userID |-> o.userID, purpose |-> o.purpose] \in issued'
            /\ o \in OTPRow(1..MaxOTPs \cup 1..MaxUsers, Nat)
         \/ \E e \in otps :
              /\ o.hash = e.hash /\ o.userID = e.userID /\ o.purpose = e.purpose
              /\ e.deleted => o.deleted
              /\ o \in OTPRow(1..MaxOTPs \cup 1..MaxUsers, Nat)
  <1> DEFINE Row == OTPRow(1..MaxOTPs \cup 1..MaxUsers, Nat)
  <1>1. otps \in SUBSET Row
    BY DEF IInv, AccountsTypeOK
  <1>2. \A e \in Row : /\ [e EXCEPT !.deleted = TRUE] \in Row
                       /\ [e EXCEPT !.deleted = TRUE].hash = e.hash
                       /\ [e EXCEPT !.deleted = TRUE].userID = e.userID
                       /\ [e EXCEPT !.deleted = TRUE].purpose = e.purpose
                       /\ [e EXCEPT !.deleted = TRUE].deleted
    BY DEF OTPRow
  <1>3. ASSUME NEW p \in Procs, StoreOTP(p), o \notin otps
        PROVE  /\ o.hash = otpSeq + 1 /\ otpSeq' = otpSeq + 1 /\ o.userID \in 1..MaxUsers
               /\ UserExists(users, o.userID) /\ users' = users
               /\ [otp |-> o.hash, userID |-> o.userID, purpose |-> o.purpose] \in issued'
               /\ o \in Row
    <2>1. /\ UserExists(users, proc[p].userID)
          /\ GenerateOTP(proc[p].userID, proc[p].purpose)
          /\ otps' = CreateOTP(otps, otpSeq + 1, proc[p].userID, proc[p].purpose, now + OTPExpiry)
          /\ users' = users
      BY <1>3 DEF StoreOTP, tables
    <2>2. o = [hash |-> otpSeq + 1, userID |-> proc[p].userID, purpose |-> proc[p].purpose,
               expiresAt |-> now + OTPExpiry, deleted |-> FALSE]
      BY <1>3, <2>1 DEF CreateOTP
    <2>3. proc[p].userID \in 1..MaxUsers
      BY <2>1 DEF UserExists, GetByID, IInv, AccountsTypeOK, UserRow
    <2>4. /\ proc[p].purpose \in Purposes /\ otpSeq + 1 \in 1..MaxOTPs
          /\ now + OTPExpiry \in Nat
      BY <2>1, AccountBounds DEF GenerateOTP, IInv, AccountsTypeOK, Handler
    <2>5. o \in Row
      BY <2>2, <2>3, <2>4 DEF OTPRow
    <2>6. QED
      BY <2>1, <2>2, <2>3, <2>5 DEF GenerateOTP
  <1>4. CASE otps' \subseteq otps
    BY <1>1, <1>4
  <1>5. ASSUME NEW id, NEW purpose,
               \/ otps' = SoftDeleteByOTPHash(otps, id, purpose)
               \/ otps' = SoftDeleteByUserIDAndPurpose(otps, id, purpose)
        PROVE  \E e \in otps : o = e \/ o = [e EXCEPT !.deleted = TRUE]
    BY <1>5 DEF SoftDeleteByOTPHash, SoftDeleteByUserIDAndPurpose
  <1>6. ASSUME NEW e \in otps, o = e \/ o = [e EXCEPT !.deleted = TRUE]
        PROVE  /\ o.hash = e.hash /\ o.userID = e.userID /\ o.purpose = e.purpose
               /\ e.deleted => o.deleted
               /\ o \in Row
    BY <1>1, <1>2, <1>6
  <1>7. \/ otps' \subseteq otps
        \/ \E p \in Procs :
             \/ StoreOTP(p)
             \/ otps' = SoftDeleteByOTPHash(otps, proc[p].otp, proc[p].purpose)
             \/ otps' = SoftDeleteByUserIDAndPurpose(otps, proc[p].userID, "reset")
        \/ \E id \in 1..userSeq : DeleteUser(id)
        \/ CleanupOTPs
    BY DEF Next, Request, Write, Begin, Signup, VerifyOTP, Login, ForgotPassword, ResetPassword,
           ExchangeOAuthCode, generateUniqueUsername, CreateAccount, DropOTPs, MarkVerified,
           StorePassword, UseOTP, LinkProvider, CreateSession, Abandon, Tick, vars, tables
  <1>8. CASE \E id \in 1..userSeq : DeleteUser(id)
    BY <1>4, <1>8 DEF DeleteUser, Cascade
  <1>9. CASE CleanupOTPs
    BY <1>4, <1>9 DEF CleanupOTPs, DeleteExpiredAndSoftDeletedOTPs
  <1>10. CASE o \in otps
    BY <1>1, <1>10
  <1> HIDE DEF Row
  <1>11. QED
    BY <1>3, <1>4, <1>5, <1>6, <1>7, <1>8, <1>9, <1>10 DEF Row

\* Links are made by LinkProvider only, under the constraints.
LEMMA LinkHistory ==
  ASSUME [Next]_vars, NEW l \in links'
  PROVE  \/ l \in links
         \/ \E p \in Procs :
              /\ LinkProvider(p) /\ proc[p].pc = "link"
              /\ l = [sub |-> proc[p].sub, userID |-> proc[p].userID]
              /\ links' = links \cup {l} /\ users' = users
              /\ LinkAllowed(links, l.sub, l.userID) /\ UserExists(users, l.userID)
  <1>1. ASSUME NEW p \in Procs, LinkProvider(p), l \notin links
        PROVE  /\ proc[p].pc = "link"
               /\ l = [sub |-> proc[p].sub, userID |-> proc[p].userID]
               /\ links' = links \cup {l} /\ users' = users
               /\ LinkAllowed(links, l.sub, l.userID) /\ UserExists(users, l.userID)
    BY <1>1 DEF LinkProvider, CreateLink, tables
  <1>2. ASSUME NEW id, DeleteUser(id)
        PROVE  l \in links
    BY <1>2 DEF DeleteUser, Cascade
  <1>3. links' # links => \/ \E p \in Procs : LinkProvider(p)
                          \/ \E id : DeleteUser(id)
    BY DEF Next, Request, Write, Begin, Signup, VerifyOTP, Login, ForgotPassword, ResetPassword,
           ExchangeOAuthCode, generateUniqueUsername, CreateAccount, StoreOTP, DropOTPs,
           MarkVerified, StorePassword, UseOTP, CreateSession, Abandon, CleanupOTPs, Tick,
           vars, tables
  <1>4. QED
    BY <1>1, <1>2, <1>3

\* Sessions are made by CreateSession only.
LEMMA SessionHistory ==
  ASSUME [Next]_vars, NEW id \in sessions'
  PROVE  \/ id \in sessions
         \/ \E p \in Procs : /\ proc[p].pc = "session" /\ id = proc[p].userID
                             /\ UserExists(users, id) /\ users' = users
  <1>1. ASSUME NEW p \in Procs, CreateSession(p), id \notin sessions
        PROVE  /\ proc[p].pc = "session" /\ id = proc[p].userID
               /\ UserExists(users, id) /\ users' = users
    BY <1>1 DEF CreateSession, tables
  <1>2. ASSUME NEW i, DeleteUser(i)
        PROVE  id \in sessions
    BY <1>2 DEF DeleteUser
  <1>3. sessions' # sessions => \/ \E p \in Procs : CreateSession(p)
                                \/ \E i : DeleteUser(i)
    BY DEF Next, Request, Write, Begin, Signup, VerifyOTP, Login, ForgotPassword, ResetPassword,
           ExchangeOAuthCode, generateUniqueUsername, CreateAccount, StoreOTP, DropOTPs,
           MarkVerified, StorePassword, UseOTP, LinkProvider, Abandon, CleanupOTPs, Tick,
           vars, tables
  <1>4. QED
    BY <1>1, <1>2, <1>3

\* The sequences, the clock and the record of what was issued only grow.
LEMMA Growth ==
  ASSUME IInv, [Next]_vars
  PROVE  /\ userSeq' \in 0..MaxUsers /\ userSeq =< userSeq'
         /\ otpSeq' \in 0..MaxOTPs /\ otpSeq =< otpSeq'
         /\ now' \in 0..MaxTime
         /\ issued \subseteq issued'
  <1>1. /\ userSeq \in 0..MaxUsers /\ otpSeq \in 0..MaxOTPs /\ now \in 0..MaxTime
        /\ MaxUsers \in Nat /\ MaxOTPs \in Nat /\ MaxTime \in Nat
    BY AccountBounds DEF IInv, AccountsTypeOK
  <1>2. userSeq' = userSeq \/ (userSeq < MaxUsers /\ userSeq' = userSeq + 1)
    BY DEF Next, Request, Write, Begin, Signup, VerifyOTP, Login, ForgotPassword, ResetPassword,
           ExchangeOAuthCode, generateUniqueUsername, CreateAccount, StoreOTP, DropOTPs,
           MarkVerified, StorePassword, UseOTP, LinkProvider, CreateSession, Abandon, DeleteUser,
           CleanupOTPs, Tick, vars, tables
  <1>3. /\ otpSeq' = otpSeq \/ (otpSeq < MaxOTPs /\ otpSeq' = otpSeq + 1)
        /\ issued \subseteq issued'
    BY DEF Next, Request, Write, Begin, Signup, VerifyOTP, Login, ForgotPassword, ResetPassword,
           ExchangeOAuthCode, generateUniqueUsername, CreateAccount, StoreOTP, GenerateOTP,
           DropOTPs, MarkVerified, StorePassword, UseOTP, LinkProvider, CreateSession, Abandon,
           DeleteUser, CleanupOTPs, Tick, vars, history, tables
  <1>4. now' = now \/ (now < MaxTime /\ now' = now + 1)
    BY DEF Next, Request, Write, Begin, Signup, VerifyOTP, Login, ForgotPassword, ResetPassword,
           ExchangeOAuthCode, generateUniqueUsername, CreateAccount, StoreOTP, DropOTPs,
           MarkVerified, StorePassword, UseOTP, LinkProvider, CreateSession, Abandon, DeleteUser,
           CleanupOTPs, Tick, vars, tables
  <1>5. QED
    BY <1>1, <1>2, <1>3, <1>4

-------------------------------------------------------------------------------
(* What a step does to the handler that takes it.                            *)

\* Step by step, a handler arrives at its next step with everything that the
\* invariant says of a handler there.
Arrives(p, h) ==
    /\ h \in Handler
    /\ proc' = [proc EXCEPT ![p] = h]
    /\ h.userID =< userSeq' /\ h.otp =< otpSeq'
    /\ Located(h)
    /\ \A v \in users' : v.id = h.userID => StillTrue(h, v)
    /\ h.pc = "reset" =>
          [otp |-> h.otp, userID |-> h.userID, purpose |-> "reset"] \in issued'
    /\ h.pc = "session" /\ h.otp # 0 => GetByOTPHash(otps', h.otp, "signup") = {}
    /\ h.pc = "link" => h.userID = userSeq + 1 /\ links' = links

\* The locals of a handler that has none are well typed.
LEMMA IdleType == Idle \in Handler
  BY AccountBounds DEF Idle, Handler, PCs, Purposes

\* A handler that returns has nothing left to keep true.
LEMMA ReturnArrives ==
  ASSUME IInv, [Next]_vars, NEW p \in Procs, Return(p)
  PROVE  Arrives(p, Idle)
  <1>1. 0 =< userSeq' /\ 0 =< otpSeq'
    BY Growth
  <1>2. QED
    BY <1>1, IdleType DEF Return, Arrives, Idle, Located, StillTrue

\* The reading half of an operation ends with what it read.
LEMMA ReadingArrives ==
  ASSUME IInv, [Next]_vars, NEW p \in Procs, Request(p)
  PROVE  \E h : Arrives(p, h)
  <1>1. /\ users \subseteq UserRow(1..MaxUsers)
        /\ userSeq \in 0..MaxUsers /\ otpSeq \in 0..MaxOTPs
        /\ MaxUsers \in Nat /\ MaxOTPs \in Nat
        /\ Idle.userID = 0 /\ Idle.otp = 0 /\ Idle.sub = NoSubject /\ Idle.purpose = "signup"
    BY AccountBounds DEF IInv, AccountsTypeOK, Idle
  <1>2. ASSUME NEW id, UserExists(users, id)
        PROVE  id \in 1..MaxUsers /\ id =< userSeq
    BY <1>1, <1>2 DEF UserExists, GetByID, IInv, Ids, UserRow
  <1>3. ASSUME NEW e \in Emails, NEW w \in Passwords, Signup(p, e, w)
        PROVE  \E h : Arrives(p, h)
    <2> DEFINE h == [Idle EXCEPT !.pc = "createUser", !.email = e, !.password = w]
    <2>1. h \in Handler
      BY <1>1, IdleType DEF Handler, PCs, Purposes
    <2>2. /\ h.pc = "createUser" /\ h.email = e /\ h.password = w /\ h.userID = 0 /\ h.otp = 0
          /\ h.sub = NoSubject /\ h.purpose = "signup"
      BY DEF Idle
    <2>3. Located(h) /\ \A v : StillTrue(h, v)
      BY <2>2, NameAssumption DEF Located, StillTrue
    <2>4. /\ proc' = [proc EXCEPT ![p] = h]
          /\ UNCHANGED <<userSeq, otpSeq>>
      BY <1>3 DEF Signup, Begin, tables
    <2> HIDE DEF h
    <2>5. Arrives(p, h)
      BY <1>1, <2>1, <2>2, <2>3, <2>4 DEF Arrives
    <2>6. QED
      BY <2>5
  <1>4. ASSUME NEW otp \in 1..otpSeq, VerifyOTP(p, otp)
        PROVE  \E h : Arrives(p, h)
    <2> PICK o \in GetByOTPHash(otps, otp, "signup") : \E u \in GetByID(users, o.userID) :
            Begin(p, [Idle EXCEPT !.pc = "username", !.otp = otp, !.userID = o.userID,
                                  !.email = u.email])
      BY <1>4 DEF VerifyOTP
    <2>1. PICK u \in GetByID(users, o.userID) :
            Begin(p, [Idle EXCEPT !.pc = "username", !.otp = otp, !.userID = o.userID,
                                  !.email = u.email])
      OBVIOUS
    <2> DEFINE h == [Idle EXCEPT !.pc = "username", !.otp = otp, !.userID = o.userID,
                                 !.email = u.email]
    <2>2. u \in users /\ u.id = o.userID
      BY DEF GetByID
    <2>3. u.id \in 0..MaxUsers /\ otp \in 0..MaxOTPs /\ u.email \in Emails /\ u.id =< userSeq
      BY <1>1, <2>2 DEF UserRow, IInv, Ids
    <2>4. h \in Handler
      BY <1>1, <2>2, <2>3, IdleType DEF Handler, PCs, Purposes
    <2>5. /\ h.pc = "username" /\ h.email = u.email /\ h.userID = u.id /\ h.otp = otp
          /\ h.sub = NoSubject /\ h.purpose = "signup"
      BY <2>2 DEF Idle
    <2>6. Located(h)
      BY <2>3, <2>5 DEF Located
    <2>7. \A v \in users : v.id = h.userID => StillTrue(h, v)
      BY <2>2, <2>5, SameUser DEF StillTrue, IInv
    <2>8. /\ proc' = [proc EXCEPT ![p] = h]
          /\ UNCHANGED <<users, userSeq, otpSeq>>
      BY <2>1 DEF Begin, tables
    <2> HIDE DEF h
    <2>9. Arrives(p, h)
      BY <1>1, <2>3, <2>4, <2>5, <2>6, <2>7, <2>8 DEF Arrives
    <2>10. QED
      BY <2>9
  <1>5. ASSUME NEW e \in Emails, NEW w \in Passwords, Login(p, e, w)
        PROVE  \E h : Arrives(p, h)
    <2>1. PICK u \in users : u.verified /\ Begin(p, [Idle EXCEPT !.pc = "session", !.userID = u.id])
      BY <1>5 DEF Login, GetByEmail
    <2> DEFINE h == [Idle EXCEPT !.pc = "session", !.userID = u.id]
    <2>2. u.id \in 1..MaxUsers /\ u.id \in 0..MaxUsers /\ u.id =< userSeq
      BY <1>1 DEF UserRow, IInv, Ids
    <2>3. h \in Handler
      BY <1>1, <2>2, IdleType DEF Handler, PCs, Purposes
    <2>4. /\ h.pc = "session" /\ h.userID = u.id /\ h.otp = 0
          /\ h.sub = NoSubject
      BY DEF Idle
    <2>5. Located(h)
      BY <2>4 DEF Located
    <2>6. \A v \in users : v.id = h.userID => StillTrue(h, v)
      BY <2>1, <2>4, SameUser DEF StillTrue, IInv
    <2>7. /\ proc' = [proc EXCEPT ![p] = h]
          /\ UNCHANGED <<users, userSeq, otpSeq>>
      BY <2>1 DEF Begin, tables
    <2> HIDE DEF h
    <2>8. Arrives(p, h)
      BY <1>1, <2>2, <2>3, <2>4, <2>5, <2>6, <2>7 DEF Arrives
    <2>9. QED
      BY <2>8
  <1>6. ASSUME NEW e \in Emails, ForgotPassword(p, e)
        PROVE  \E h : Arrives(p, h)
    <2>1. PICK u \in users :
            Begin(p, [Idle EXCEPT !.pc = "dropOTPs", !.purpose = "reset", !.userID = u.id])
      BY <1>6 DEF ForgotPassword, GetByEmail
    <2> DEFINE h == [Idle EXCEPT !.pc = "dropOTPs", !.purpose = "reset", !.userID = u.id]
    <2>2. u.id \in 1..MaxUsers /\ u.id \in 0..MaxUsers /\ u.id =< userSeq
      BY <1>1 DEF UserRow, IInv, Ids
    <2>3. h \in Handler
      BY <1>1, <2>2, IdleType DEF Handler, PCs, Purposes
    <2>4. /\ h.pc = "dropOTPs" /\ h.userID = u.id /\ h.otp = 0
          /\ h.sub = NoSubject /\ h.purpose = "reset"
      BY DEF Idle
    <2>5. Located(h) /\ \A v : StillTrue(h, v)
      BY <2>2, <2>4 DEF Located, StillTrue
    <2>6. /\ proc' = [proc EXCEPT ![p] = h]
          /\ UNCHANGED <<userSeq, otpSeq>>
      BY <2>1 DEF Begin, tables
    <2> HIDE DEF h
    <2>7. Arrives(p, h)
      BY <1>1, <2>2, <2>3, <2>4, <2>5, <2>6 DEF Arrives
    <2>8. QED
      BY <2>7
  <1>7. ASSUME NEW otp \in 1..otpSeq, NEW w \in Passwords, ResetPassword(p, otp, w)
        PROVE  \E h : Arrives(p, h)
    <2>1. PICK o \in GetByOTPHash(otps, otp, "reset") :
            Begin(p, [Idle EXCEPT !.pc = "reset", !.purpose = "reset", !.otp = otp,
                                  !.userID = o.userID, !.password = w])
      BY <1>7 DEF ResetPassword
    <2> DEFINE h == [Idle EXCEPT !.pc = "reset", !.purpose = "reset", !.otp = otp,
                                 !.userID = o.userID, !.password = w]
    <2>2. o \in otps /\ o.hash = otp /\ o.purpose = "reset"
      BY DEF GetByOTPHash
    <2>3. o.userID \in 0..MaxUsers /\ otp \in 0..MaxOTPs /\ o.userID =< userSeq
      BY <1>1, <1>2, <2>2 DEF IInv, ForeignKeys
    <2>4. h \in Handler
      BY <1>1, <2>3, IdleType DEF Handler, PCs, Purposes
    <2>5. /\ h.pc = "reset" /\ h.userID = o.userID /\ h.otp = otp /\ h.password = w
          /\ h.sub = NoSubject /\ h.purpose = "reset"
      BY DEF Idle
    <2>6. Located(h) /\ \A v : StillTrue(h, v)
      BY <2>5, NameAssumption DEF Located, StillTrue
    <2>7. [otp |-> h.otp, userID |-> h.userID, purpose |-> "reset"] \in issued
      BY <2>2, <2>5 DEF IInv, Issued
    <2>8. /\ proc' = [proc EXCEPT ![p] = h]
          /\ UNCHANGED <<userSeq, otpSeq, issued>>
      BY <2>1 DEF Begin, tables, history
    <2> HIDE DEF h
    <2>9. Arrives(p, h)
      BY <1>1, <2>3, <2>4, <2>5, <2>6, <2>7, <2>8 DEF Arrives
    <2>10. QED
      BY <2>9
  <1>8. ASSUME NEW sub \in Subjects, ExchangeOAuthCode(p, sub)
        PROVE  \E h : Arrives(p, h)
    <2>1. ASSUME NEW l \in GetByProvider(links, sub),
                 Begin(p, [Idle EXCEPT !.pc = "session", !.userID = l.userID])
          PROVE  \E h : Arrives(p, h)
      <3> DEFINE h == [Idle EXCEPT !.pc = "session", !.userID = l.userID]
      <3>1. l \in links
        BY DEF GetByProvider
      <3>2. l.userID \in 0..MaxUsers /\ l.userID =< userSeq
        BY <1>1, <1>2, <3>1 DEF IInv, ForeignKeys
      <3>3. h \in Handler
        BY <1>1, <3>2, IdleType DEF Handler, PCs, Purposes
      <3>4. /\ h.pc = "session" /\ h.userID = l.userID /\ h.otp = 0
            /\ h.sub = NoSubject
        BY DEF Idle
      <3>5. Located(h)
        BY <3>4 DEF Located
      <3>6. \A v \in users : v.id = h.userID => StillTrue(h, v)
        BY <3>1, <3>4 DEF StillTrue, IInv, Linked
      <3>7. /\ proc' = [proc EXCEPT ![p] = h]
            /\ UNCHANGED <<users, userSeq, otpSeq>>
        BY <2>1 DEF Begin, tables
      <3> HIDE DEF h
      <3>8. Arrives(p, h)
        BY <1>1, <3>2, <3>3, <3>4, <3>5, <3>6, <3>7 DEF Arrives
      <3>9. QED
        BY <3>8
    <2>2. ASSUME Begin(p, [Idle EXCEPT !.pc = "username", !.email = EmailOf[sub], !.sub = sub])
          PROVE  \E h : Arrives(p, h)
      <3> DEFINE h == [Idle EXCEPT !.pc = "username", !.email = EmailOf[sub], !.sub = sub]
      <3>1. EmailOf[sub] \in Emails /\ sub # NoSubject
        BY SubjectAssumption, LocalsAssumption
      <3>2. h \in Handler
        BY <1>1, <3>1, IdleType DEF Handler, PCs, Purposes
      <3>3. /\ h.pc = "username" /\ h.userID = 0 /\ h.otp = 0
            /\ h.sub = sub /\ h.email = EmailOf[sub] /\ h.purpose = "signup"
        BY DEF Idle
      <3>4. Located(h) /\ \A v : StillTrue(h, v)
        BY <3>1, <3>3 DEF Located, StillTrue
      <3>5. /\ proc' = [proc EXCEPT ![p] = h]
            /\ UNCHANGED <<userSeq, otpSeq>>
        BY <2>2 DEF Begin, tables
      <3> HIDE DEF h
      <3>6. Arrives(p, h)
        BY <1>1, <3>2, <3>3, <3>4, <3>5 DEF Arrives
      <3>7. QED
        BY <3>6
    <2>3. QED
      BY <1>8, <2>1, <2>2 DEF ExchangeOAuthCode
  <1>9. ASSUME NEW n \in Usernames, generateUniqueUsername(p, n)
        PROVE  \E h : Arrives(p, h)
    <2>1. CASE Return(p)
      BY <2>1, ReturnArrives
    <2>2. CASE ~Return(p)
      <3> DEFINE pc == IF proc[p].sub # NoSubject THEN "createUser" ELSE "verify"
                 h == [proc[p] EXCEPT !.pc = pc, !.username = n]
      <3>1. /\ proc[p] \in Handler /\ proc[p].pc = "username"
            /\ GenerateUsername(proc[p].email) /\ n # NoName
            /\ proc' = [proc EXCEPT ![p].pc = pc, ![p].username = n]
            /\ UNCHANGED <<users, userSeq, otpSeq>>
        BY <1>9, <2>2, NameAssumption
           DEF generateUniqueUsername, IInv, AccountsTypeOK, tables
      <3>2. proc' = [proc EXCEPT ![p] = h]
        BY <3>1 DEF IInv, AccountsTypeOK
      <3>3. h \in Handler
        BY <3>1 DEF Handler, PCs
      <3>4. /\ h.pc = pc /\ h.username = n /\ h.userID = proc[p].userID /\ h.otp = proc[p].otp
            /\ h.sub = proc[p].sub /\ h.email = proc[p].email /\ h.purpose = proc[p].purpose
        BY <3>1 DEF Handler
      <3>5. Located(proc[p]) /\ proc[p].userID =< userSeq /\ proc[p].otp =< otpSeq
        BY DEF IInv, Locals, Ids
      <3>6. Located(h)
        BY <3>1, <3>4, <3>5 DEF Located
      <3>7. \A v \in users : v.id = h.userID => StillTrue(h, v)
        BY <3>1, <3>4 DEF StillTrue, IInv, Remembered
      <3> HIDE DEF h
      <3>8. Arrives(p, h)
        BY <3>1, <3>2, <3>3, <3>4, <3>5, <3>6, <3>7 DEF Arrives
      <3>9. QED
        BY <3>8
    <2>3. QED
      BY <2>1, <2>2
  <1>10. QED
    BY <1>3, <1>4, <1>5, <1>6, <1>7, <1>8, <1>9 DEF Request

\* A write keeps what the handler knows, and adds what it has just seen to.
LEMMA WritingArrives ==
  ASSUME IInv, [Next]_vars, NEW p \in Procs, Write(p)
  PROVE  \E h : Arrives(p, h)
  <1>1. /\ users \subseteq UserRow(1..MaxUsers) /\ users \in SUBSET UserRow(Nat)
        /\ userSeq \in 0..MaxUsers /\ otpSeq \in 0..MaxOTPs
        /\ MaxUsers \in Nat /\ MaxOTPs \in Nat
        /\ proc \in [Procs -> Handler]
    BY AccountBounds DEF IInv, AccountsTypeOK, UserRow
  <1>2. /\ proc[p] \in Handler /\ Located(proc[p])
        /\ proc[p].userID =< userSeq /\ proc[p].otp =< otpSeq
        /\ proc[p].userID \in Nat /\ proc[p].otp \in Nat
    BY <1>1 DEF IInv, Locals, Ids, Handler
  <1>3. \A u \in users : u.id = proc[p].userID => StillTrue(proc[p], u)
    BY DEF IInv, Remembered
  <1>4. userSeq' \in Nat /\ userSeq =< userSeq' /\ otpSeq' \in Nat /\ otpSeq =< otpSeq'
    BY Growth, <1>1
  <1>5. CASE Return(p)
    BY <1>5, ReturnArrives
  <1>6. ASSUME CreateAccount(p), ~Return(p)
        PROVE  \E h : Arrives(p, h)
    <2> DEFINE pc == IF proc[p].sub # NoSubject THEN "link" ELSE "createOTP"
               h == [proc[p] EXCEPT !.pc = pc, !.userID = userSeq + 1]
    <2>1. /\ proc[p].pc = "createUser" /\ userSeq < MaxUsers
          /\ userSeq' = userSeq + 1 /\ users' = users \cup {NewRow(p)} /\ links' = links
          /\ proc' = [proc EXCEPT ![p].pc = pc, ![p].userID = userSeq + 1]
      BY <1>6 DEF CreateAccount, NewRow, CreateUser
    <2>2. proc' = [proc EXCEPT ![p] = h]
      BY <1>1, <2>1
    <2>3. userSeq + 1 \in 0..MaxUsers /\ userSeq + 1 # 0
      BY <1>1, <2>1
    <2>4. h \in Handler
      BY <1>2, <2>3 DEF Handler, PCs
    <2>5. /\ h.pc = pc /\ h.userID = userSeq + 1 /\ h.otp = proc[p].otp
          /\ h.sub = proc[p].sub /\ h.email = proc[p].email /\ h.purpose = proc[p].purpose
      BY <1>2 DEF Handler
    <2>6. Located(h)
      BY <1>2, <2>1, <2>3, <2>5 DEF Located
    <2>7. \A v \in users' : v.id = userSeq + 1 => v = NewRow(p)
      BY <1>1, <2>1 DEF IInv, Ids, UserRow
    <2>8. StillTrue(h, NewRow(p))
      <3>1. /\ NewRow(p).email = proc[p].email /\ NewRow(p).password = proc[p].password
        BY DEF NewRow
      <3>2. CASE proc[p].sub # NoSubject
        <4>1. NewRow(p).verified
          BY <3>2, Zenon DEF NewRow
        <4>2. QED
          BY <2>5, <3>1, <3>2, <4>1 DEF StillTrue
      <3>3. CASE proc[p].sub = NoSubject
        <4>1. NewRow(p).password # NoPassword
          BY <1>2, <2>1, <3>1, <3>3 DEF Located
        <4>2. QED
          BY <2>5, <3>3, <4>1 DEF StillTrue
      <3>4. QED
        BY <3>2, <3>3
    <2>9. h.pc \in {"link", "createOTP"} /\ h.userID = userSeq + 1 /\ h.otp =< otpSeq
      BY <1>2, <2>5
    <2>10. h.userID =< userSeq' /\ h.otp =< otpSeq'
      BY <1>1, <1>2, <1>4, <2>1, <2>5
    <2>11. \A v \in users' : v.id = h.userID => StillTrue(h, v)
      BY <2>7, <2>8, <2>9
    <2> HIDE DEF h, pc
    <2>12. Arrives(p, h)
      BY <2>1, <2>2, <2>4, <2>6, <2>9, <2>10, <2>11 DEF Arrives
    <2>13. QED
      BY <2>12
  <1>7. ASSUME DropOTPs(p)
        PROVE  \E h : Arrives(p, h)
    <2> DEFINE h == [proc[p] EXCEPT !.pc = "createOTP"]
    <2>1. /\ proc[p].pc = "dropOTPs"
          /\ proc' = [proc EXCEPT ![p].pc = "createOTP"]
      BY <1>7 DEF DropOTPs, Goto
    <2>2. proc' = [proc EXCEPT ![p] = h]
      BY <1>1, <2>1
    <2>3. h \in Handler
      BY <1>2 DEF Handler, PCs
    <2>4. /\ h.pc = "createOTP" /\ h.userID = proc[p].userID /\ h.otp = proc[p].otp
          /\ h.sub = proc[p].sub /\ h.email = proc[p].email /\ h.purpose = proc[p].purpose
      BY <1>2 DEF Handler
    <2>5. Located(h) /\ \A v : StillTrue(h, v)
      BY <1>2, <2>1, <2>4 DEF Located, StillTrue
    <2> HIDE DEF h
    <2>6. Arrives(p, h)
      BY <1>1, <1>2, <1>4, <2>2, <2>3, <2>4, <2>5 DEF Arrives
    <2>7. QED
      BY <2>6
  <1>8. ASSUME MarkVerified(p), ~Return(p)
        PROVE  \E h : Arrives(p, h)
    <2> DEFINE h == [proc[p] EXCEPT !.pc = "useOTP"]
    <2>1. /\ proc[p].pc = "verify"
          /\ proc' = [proc EXCEPT ![p].pc = "useOTP"]
          /\ users' = UpdateVerified(users, proc[p].userID, proc[p].username)
      BY <1>8 DEF MarkVerified, Goto
    <2>2. proc' = [proc EXCEPT ![p] = h]
      BY <1>1, <2>1
    <2>3. h \in Handler
      BY <1>2 DEF Handler, PCs
    <2>4. /\ h.pc = "useOTP" /\ h.userID = proc[p].userID /\ h.otp = proc[p].otp
          /\ h.sub = proc[p].sub /\ h.email = proc[p].email /\ h.purpose = proc[p].purpose
      BY <1>2 DEF Handler
    <2>5. Located(h)
      BY <1>2, <2>1, <2>4 DEF Located
    <2>6. \A v \in users' : v.id = proc[p].userID => v.verified
      BY <1>1, <2>1, VerifiedRows
    <2>7. \A v \in users' : v.id = h.userID => StillTrue(h, v)
      BY <2>4, <2>6 DEF StillTrue
    <2> HIDE DEF h
    <2>8. Arrives(p, h)
      BY <1>1, <1>2, <1>4, <2>2, <2>3, <2>4, <2>5, <2>7 DEF Arrives
    <2>9. QED
      BY <2>8
  <1>9. ASSUME StorePassword(p)
        PROVE  \E h : Arrives(p, h)
    <2> DEFINE h == [proc[p] EXCEPT !.pc = "useOTP"]
    <2>1. /\ proc[p].pc = "reset"
          /\ proc' = [proc EXCEPT ![p].pc = "useOTP"]
      BY <1>9 DEF StorePassword, Goto
    <2>2. proc' = [proc EXCEPT ![p] = h]
      BY <1>1, <2>1
    <2>3. h \in Handler
      BY <1>2 DEF Handler, PCs
    <2>4. /\ h.pc = "useOTP" /\ h.userID = proc[p].userID /\ h.otp = proc[p].otp
          /\ h.sub = proc[p].sub /\ h.email = proc[p].email /\ h.purpose = proc[p].purpose
      BY <1>2 DEF Handler
    <2>5. Located(h) /\ \A v : StillTrue(h, v)
      BY <1>2, <2>1, <2>4 DEF Located, StillTrue
    <2> HIDE DEF h
    <2>6. Arrives(p, h)
      BY <1>1, <1>2, <1>4, <2>2, <2>3, <2>4, <2>5 DEF Arrives
    <2>7. QED
      BY <2>6
  <1>10. ASSUME UseOTP(p), ~Return(p)
        PROVE  \E h : Arrives(p, h)
    <2> DEFINE h == [proc[p] EXCEPT !.pc = "session"]
    <2>1. /\ proc[p].pc = "useOTP" /\ proc[p].purpose = "signup"
          /\ proc' = [proc EXCEPT ![p].pc = "session"]
          /\ otps' = SoftDeleteByOTPHash(otps, proc[p].otp, "signup")
          /\ users' = users
      BY <1>10 DEF UseOTP, Goto
    <2>2. proc' = [proc EXCEPT ![p] = h]
      BY <1>1, <2>1
    <2>3. h \in Handler
      BY <1>2 DEF Handler, PCs
    <2>4. /\ h.pc = "session" /\ h.userID = proc[p].userID /\ h.otp = proc[p].otp
          /\ h.sub = proc[p].sub /\ h.email = proc[p].email /\ h.purpose = proc[p].purpose
      BY <1>2 DEF Handler
    <2>5. Located(h)
      BY <1>2, <2>1, <2>4 DEF Located
    <2>6. \A v \in users' : v.id = h.userID => StillTrue(h, v)
      BY <1>3, <2>1, <2>4 DEF StillTrue
    <2>7. GetByOTPHash(otps', proc[p].otp, "signup") = {}
      <3>1. \A e \in otps : [e EXCEPT !.deleted = TRUE].deleted
        BY DEF IInv, AccountsTypeOK, OTPRow
      <3>2. QED
        BY <2>1, <3>1 DEF GetByOTPHash, SoftDeleteByOTPHash
    <2> HIDE DEF h
    <2>8. Arrives(p, h)
      BY <1>1, <1>2, <1>4, <2>2, <2>3, <2>4, <2>5, <2>6, <2>7 DEF Arrives
    <2>9. QED
      BY <2>8
  <1>11. ASSUME LinkProvider(p), ~Return(p)
        PROVE  \E h : Arrives(p, h)
    <2> DEFINE h == [proc[p] EXCEPT !.pc = "session"]
    <2>1. /\ proc[p].pc = "link"
          /\ proc' = [proc EXCEPT ![p].pc = "session"]
          /\ users' = users
      BY <1>11 DEF LinkProvider, Goto
    <2>2. proc' = [proc EXCEPT ![p] = h]
      BY <1>1, <2>1
    <2>3. h \in Handler
      BY <1>2 DEF Handler, PCs
    <2>4. /\ h.pc = "session" /\ h.userID = proc[p].userID /\ h.otp = proc[p].otp
          /\ h.sub = proc[p].sub /\ h.email = proc[p].email /\ h.purpose = proc[p].purpose
      BY <1>2 DEF Handler
    <2>5. Located(h) /\ h.otp = 0
      BY <1>2, <2>1, <2>4 DEF Located
    <2>6. \A v \in users' : v.id = h.userID => StillTrue(h, v)
      BY <1>3, <2>1, <2>4 DEF StillTrue
    <2> HIDE DEF h
    <2>7. Arrives(p, h)
      BY <1>1, <1>2, <1>4, <2>2, <2>3, <2>4, <2>5, <2>6 DEF Arrives
    <2>8. QED
      BY <2>7
  <1>12. StoreOTP(p) \/ CreateSession(p) \/ Abandon(p) => Return(p)
    BY DEF StoreOTP, CreateSession, Abandon
  <1>13. QED
    BY <1>5, <1>6, <1>7, <1>8, <1>9, <1>10, <1>11, <1>12 DEF Write

\* Only its own steps change a handler.
LEMMA Actor ==
  ASSUME IInv, [Next]_vars, NEW p \in Procs
  PROVE  \/ proc'[p] = proc[p]
         \/ Arrives(p, proc'[p])
  <1>1. proc \in [Procs -> Handler]
    BY DEF IInv, AccountsTypeOK
  <1>2. CASE proc' = proc
    BY <1>2
  <1>3. ASSUME NEW q \in Procs, Request(q) \/ Write(q)
        PROVE  proc'[p] = proc[p] \/ Arrives(p, proc'[p])
    <2>1. PICK h : Arrives(q, h)
      BY <1>3, ReadingArrives, WritingArrives
    <2>2. proc' = [proc EXCEPT ![q] = h]
      BY <2>1 DEF Arrives
    <2>3. CASE q = p
      <3>1. proc'[p] = h
        BY <1>1, <2>2, <2>3
      <3>2. QED
        BY <2>1, <2>3, <3>1
    <2>4. CASE q # p
      BY <1>1, <2>2, <2>4
    <2>5. QED
      BY <2>3, <2>4
  <1>4. QED
    BY <1>2, <1>3 DEF Next, DeleteUser, CleanupOTPs, Tick, vars

-------------------------------------------------------------------------------
(* The invariant is preserved, part by part.                                 *)

\* The update statements keep the users table typed.
LEMMA UpdateTypes ==
  ASSUME NEW table \in SUBSET UserRow(1..MaxUsers), NEW id, NEW n \in Usernames \cup {NoName},
         NEW w \in Passwords \cup {NoPassword}
  PROVE  /\ UpdateVerified(table, id, n) \subseteq UserRow(1..MaxUsers)
         /\ UpdatePassword(table, id, w) \subseteq UserRow(1..MaxUsers)
  <1>1. ASSUME NEW u \in UserRow(1..MaxUsers)
        PROVE  /\ [u EXCEPT !.verified = TRUE, !.username = n] \in UserRow(1..MaxUsers)
               /\ [u EXCEPT !.password = w] \in UserRow(1..MaxUsers)
    BY DEF UserRow
  <1>2. QED
    BY <1>1 DEF UpdateVerified, UpdatePassword

\* Every step keeps every variable in its type.
LEMMA TypeStep == ASSUME IInv, [Next]_vars PROVE AccountsTypeOK'
  <1>1. /\ users \in SUBSET UserRow(1..MaxUsers) /\ proc \in [Procs -> Handler]
        /\ userSeq \in 0..MaxUsers /\ otpSeq \in 0..MaxOTPs
        /\ MaxUsers \in Nat /\ MaxOTPs \in Nat
        /\ issued \subseteq [otp: 1..MaxOTPs, userID: 1..MaxUsers, purpose: Purposes]
        /\ halfMade \subseteq 1..MaxUsers /\ sessions \subseteq 1..MaxUsers
        /\ links \subseteq LinkRow(1..MaxUsers)
    BY AccountBounds DEF IInv, AccountsTypeOK
  <1>2. ASSUME NEW id, UserExists(users, id)
        PROVE  id \in 1..MaxUsers
    BY <1>1, <1>2 DEF UserExists, GetByID, UserRow
  <1>3. users' \subseteq UserRow(1..MaxUsers)
    <2>1. CASE users' = users
      BY <1>1, <2>1
    <2>2. ASSUME NEW p \in Procs, CreateAccount(p), users' # users
          PROVE  users' \subseteq UserRow(1..MaxUsers)
      <3>1. users' = users \cup {NewRow(p)} /\ userSeq < MaxUsers
        BY <2>2 DEF CreateAccount, NewRow, CreateUser, tables
      <3>2. proc[p].email \in Emails
        BY <2>2 DEF CreateAccount, IInv, Locals, Located
      <3>3. proc[p] \in Handler /\ userSeq + 1 \in 1..MaxUsers
        BY <1>1, <3>1
      <3>4. /\ proc[p].username \in Usernames \cup {NoName}
            /\ proc[p].password \in Passwords \cup {NoPassword}
            /\ (proc[p].sub # NoSubject) \in BOOLEAN
        BY <3>3 DEF Handler
      <3>5. NewRow(p) \in UserRow(1..MaxUsers)
        BY <3>2, <3>3, <3>4 DEF NewRow, UserRow
      <3>6. QED
        BY <1>1, <3>1, <3>5
    <2>3. ASSUME NEW p \in Procs, MarkVerified(p) \/ StorePassword(p), users' # users
          PROVE  users' \subseteq UserRow(1..MaxUsers)
      <3>1. \/ users' = UpdateVerified(users, proc[p].userID, proc[p].username)
            \/ users' = UpdatePassword(users, proc[p].userID, proc[p].password)
        BY <2>3 DEF MarkVerified, StorePassword, tables
      <3>2. /\ proc[p].username \in Usernames \cup {NoName}
            /\ proc[p].password \in Passwords \cup {NoPassword}
        BY <1>1 DEF Handler
      <3>3. CASE users' = UpdateVerified(users, proc[p].userID, proc[p].username)
        BY <1>1, <3>2, <3>3, UpdateTypes
      <3>4. CASE users' = UpdatePassword(users, proc[p].userID, proc[p].password)
        <4>1. PICK n : n \in Usernames \cup {NoName}
          BY <3>2
        <4>2. QED
          BY <1>1, <3>2, <3>4, <4>1, UpdateTypes
      <3>5. QED
        BY <3>1, <3>3, <3>4
    <2>4. ASSUME NEW id, DeleteUser(id)
          PROVE  users' \subseteq UserRow(1..MaxUsers)
      BY <1>1, <2>4 DEF DeleteUser, DeleteUserRow
    <2>5. users' # users => \/ \E p \in Procs : CreateAccount(p) \/ MarkVerified(p) \/ StorePassword(p)
                            \/ \E i : DeleteUser(i)
      BY DEF Next, Request, Write, Begin, Signup, VerifyOTP, Login, ForgotPassword,
             ResetPassword, ExchangeOAuthCode, generateUniqueUsername, StoreOTP, DropOTPs, UseOTP,
             LinkProvider, CreateSession, Abandon, CleanupOTPs, Tick, vars, tables
    <2>6. QED
      BY <2>1, <2>2, <2>3, <2>4, <2>5
  <1>4. otps' \subseteq OTPRow(1..MaxOTPs \cup 1..MaxUsers, Nat)
    BY OTPHistory
  <1>5. links' \subseteq LinkRow(1..MaxUsers)
    <2>1. ASSUME NEW l \in links', l \notin links
          PROVE  l \in LinkRow(1..MaxUsers)
      <3>1. PICK p \in Procs : /\ proc[p].pc = "link"
                               /\ l = [sub |-> proc[p].sub, userID |-> proc[p].userID]
                               /\ UserExists(users, l.userID)
        BY <2>1, LinkHistory
      <3>2. proc[p].sub \in Subjects
        BY <1>1, <3>1 DEF Handler, IInv, Locals, Located
      <3>3. proc[p].userID \in 1..MaxUsers
        BY <1>2, <3>1
      <3>4. QED
        BY <3>1, <3>2, <3>3 DEF LinkRow
    <2>2. QED
      BY <1>1, <2>1
  <1>6. sessions' \subseteq 1..MaxUsers
    BY <1>1, <1>2, SessionHistory
  <1>7. proc' \in [Procs -> Handler]
    <2>1. ASSUME NEW p \in Procs, Request(p) \/ Write(p)
          PROVE  proc' \in [Procs -> Handler]
      <3>1. PICK h : Arrives(p, h)
        BY <2>1, ReadingArrives, WritingArrives
      <3>2. QED
        BY <1>1, <3>1 DEF Arrives
    <2>2. QED
      BY <1>1, <2>1 DEF Next, DeleteUser, CleanupOTPs, Tick, vars
  <1>8. issued' \subseteq [otp: 1..MaxOTPs, userID: 1..MaxUsers, purpose: Purposes]
    <2>1. ASSUME NEW p \in Procs, StoreOTP(p), UserExists(users, proc[p].userID)
          PROVE  issued' \subseteq [otp: 1..MaxOTPs, userID: 1..MaxUsers, purpose: Purposes]
      <3>1. /\ otpSeq < MaxOTPs
            /\ issued' = issued \cup {[otp |-> otpSeq + 1, userID |-> proc[p].userID,
                                       purpose |-> proc[p].purpose]}
        BY <2>1 DEF StoreOTP, GenerateOTP
      <3>2. proc[p].userID \in 1..MaxUsers /\ proc[p].purpose \in Purposes
        BY <1>1, <1>2, <2>1 DEF Handler
      <3>3. QED
        BY <1>1, <3>1, <3>2
    <2>2. issued' # issued => \E p \in Procs : StoreOTP(p) /\ UserExists(users, proc[p].userID)
      BY DEF Next, Request, Write, Begin, Signup, VerifyOTP, Login, ForgotPassword,
             ResetPassword, ExchangeOAuthCode, generateUniqueUsername, CreateAccount, StoreOTP,
             DropOTPs, MarkVerified, StorePassword, UseOTP, LinkProvider, CreateSession, Abandon,
             DeleteUser, CleanupOTPs, Tick, vars, history
    <2>3. QED
      BY <1>1, <2>1, <2>2
  <1>9. halfMade' \subseteq 1..MaxUsers
    <2>1. ASSUME NEW p \in Procs, Abandon(p)
          PROVE  halfMade' \subseteq 1..MaxUsers
      <3>1. Completing(p) => proc[p].userID \in 1..MaxUsers
        BY <1>1 DEF Completing, IInv, Locals, Located, Handler
      <3>2. QED
        BY <1>1, <2>1, <3>1 DEF Abandon
    <2>2. \/ \E p \in Procs : Abandon(p)
          \/ halfMade' \subseteq halfMade
      BY DEF Next, Request, Write, Begin, Signup, VerifyOTP, Login, ForgotPassword,
             ResetPassword, ExchangeOAuthCode, generateUniqueUsername, CreateAccount, StoreOTP,
             DropOTPs, MarkVerified, StorePassword, UseOTP, LinkProvider, CreateSession,
             DeleteUser, CleanupOTPs, Tick, vars, history
    <2>3. QED
      BY <1>1, <2>1, <2>2
  <1>10. QED
    BY <1>3, <1>4, <1>5, <1>6, <1>7, <1>8, <1>9, Growth DEF AccountsTypeOK

\* Every step keeps the ids in use below the sequences they are drawn from.
LEMMA IdsStep == ASSUME IInv, [Next]_vars PROVE Ids'
  <1>1. /\ userSeq \in Nat /\ userSeq' \in Nat /\ userSeq =< userSeq'
        /\ otpSeq \in Nat /\ otpSeq' \in Nat /\ otpSeq =< otpSeq'
    <2>1. userSeq \in 0..MaxUsers /\ otpSeq \in 0..MaxOTPs
      BY DEF IInv, AccountsTypeOK
    <2>2. QED
      BY <2>1, AccountBounds, Growth
  <1>2. ASSUME NEW v \in users'
        PROVE  v.id =< userSeq'
    <2>1. ASSUME NEW p \in Procs, CreateAccount(p), v = NewRow(p), v \notin users
          PROVE  v.id =< userSeq'
      <3>1. userSeq' = userSeq + 1
        BY <2>1 DEF CreateAccount, tables
      <3>2. v.id = userSeq + 1
        BY <2>1 DEF NewRow
      <3>3. QED
        BY <1>1, <3>1, <3>2
    <2>2. ASSUME NEW u \in users, v.id = u.id
          PROVE  v.id =< userSeq'
      <3>1. u.id =< userSeq /\ u.id \in Nat
        BY AccountBounds DEF IInv, Ids, AccountsTypeOK, UserRow
      <3>2. QED
        BY <1>1, <2>2, <3>1
    <2>3. QED
      BY <2>1, <2>2, UserHistory
  <1>3. ASSUME NEW o \in otps'
        PROVE  o.hash =< otpSeq'
    <2>1. ASSUME NEW e \in otps, o.hash = e.hash
          PROVE  o.hash =< otpSeq'
      <3>1. e.hash =< otpSeq /\ e.hash \in Nat
        BY AccountBounds DEF IInv, Ids, AccountsTypeOK, OTPRow
      <3>2. QED
        BY <1>1, <2>1, <3>1
    <2>2. CASE o.hash = otpSeq + 1 /\ otpSeq' = otpSeq + 1
      BY <1>1, <2>2
    <2>3. QED
      BY <2>1, <2>2, OTPHistory
  <1>4. ASSUME NEW i \in issued'
        PROVE  i.otp =< otpSeq'
    <2>1. CASE i \in issued
      <3>1. i.otp =< otpSeq /\ i.otp \in Nat
        BY <2>1, AccountBounds DEF IInv, Ids, AccountsTypeOK
      <3>2. QED
        BY <1>1, <3>1
    <2>2. CASE i \notin issued
      <3>1. PICK p \in Procs : GenerateOTP(proc[p].userID, proc[p].purpose)
        BY <2>2 DEF Next, Request, Write, Begin, Signup, VerifyOTP, Login, ForgotPassword,
             ResetPassword, ExchangeOAuthCode, generateUniqueUsername, CreateAccount, StoreOTP,
             DropOTPs, MarkVerified, StorePassword, UseOTP, LinkProvider, CreateSession, Abandon,
             DeleteUser, CleanupOTPs, Tick, vars, history
      <3>2. QED
        BY <1>1, <2>2, <3>1 DEF GenerateOTP
    <2>3. QED
      BY <2>1, <2>2
  <1>5. ASSUME NEW p \in Procs
        PROVE  proc'[p].userID =< userSeq' /\ proc'[p].otp =< otpSeq'
    <2>1. CASE proc'[p] = proc[p]
      <3>1. /\ proc[p].userID =< userSeq /\ proc[p].userID \in Nat
            /\ proc[p].otp =< otpSeq /\ proc[p].otp \in Nat
        BY AccountBounds DEF IInv, Ids, AccountsTypeOK, Handler
      <3>2. QED
        BY <1>1, <2>1, <3>1
    <2>2. CASE Arrives(p, proc'[p])
      BY <2>2 DEF Arrives
    <2>3. QED
      BY <2>1, <2>2, Actor
  <1>6. QED
    BY <1>2, <1>3, <1>4, <1>5 DEF Ids

\* Every step leaves each operation with what its place in the code needs.
LEMMA LocalsStep == ASSUME IInv, [Next]_vars PROVE Locals'
  BY Actor DEF Locals, Arrives, IInv

\* What a handler read of its user stays true whatever the others write.
LEMMA RememberedStep == ASSUME IInv, [Next]_vars PROVE Remembered'
  <1> SUFFICES ASSUME NEW p \in Procs, NEW v \in users', v.id = proc'[p].userID
               PROVE  StillTrue(proc'[p], v)
    BY DEF Remembered
  <1>1. CASE Arrives(p, proc'[p])
    BY <1>1 DEF Arrives
  <1>2. CASE proc'[p] = proc[p]
    <2>1. proc[p].userID =< userSeq /\ userSeq \in Nat
      BY AccountBounds DEF IInv, Ids, AccountsTypeOK
    <2>2. \A q : v # NewRow(q)
      BY <1>2, <2>1 DEF NewRow
    <2>3. PICK u \in users : /\ v.id = u.id /\ v.email = u.email
                             /\ u.verified => v.verified
                             /\ u.password # NoPassword => v.password # NoPassword
      BY <2>2, UserHistory
    <2>4. StillTrue(proc[p], u)
      BY <1>2, <2>3 DEF IInv, Remembered
    <2>5. QED
      BY <1>2, <2>3, <2>4 DEF StillTrue
  <1>3. QED
    BY <1>1, <1>2, Actor

\* An old id is no new user's.
LEMMA OldUser ==
  ASSUME IInv, [Next]_vars, NEW id, UserExists(users, id), NEW v \in users', v.id = id
  PROVE  \E u \in users :
           /\ v.id = u.id /\ v.email = u.email
           /\ u.verified => v.verified
           /\ u.password # NoPassword => v.password # NoPassword
  <1>1. PICK u \in users : u.id = id
    BY DEF UserExists, GetByID
  <1>2. u.id =< userSeq /\ u.id \in Nat /\ userSeq \in Nat
    BY AccountBounds DEF IInv, Ids, AccountsTypeOK, UserRow
  <1>3. \A p : v # NewRow(p)
    BY <1>1, <1>2 DEF NewRow
  <1>4. QED
    BY <1>3, UserHistory

\* Every row goes on referring to a user that is there.
LEMMA ForeignKeysStep == ASSUME IInv, [Next]_vars PROVE ForeignKeys'
  <1>1. ASSUME NEW r \in otps'
        PROVE  UserExists(users', r.userID)
    <2>1. UserExists(users, r.userID)
      BY OTPHistory DEF IInv, ForeignKeys
    <2>2. ~DeleteUser(r.userID)
      BY DEF DeleteUser, Cascade
    <2>3. QED
      BY <2>1, <2>2, UsersStay
  <1>2. ASSUME NEW r \in links'
        PROVE  UserExists(users', r.userID)
    <2>1. UserExists(users, r.userID)
      BY LinkHistory DEF IInv, ForeignKeys
    <2>2. ~DeleteUser(r.userID)
      BY DEF DeleteUser, Cascade
    <2>3. QED
      BY <2>1, <2>2, UsersStay
  <1>3. ASSUME NEW id \in sessions'
        PROVE  UserExists(users', id)
    <2>1. UserExists(users, id)
      BY SessionHistory DEF IInv, ForeignKeys
    <2>2. ~DeleteUser(id)
      BY DEF DeleteUser
    <2>3. QED
      BY <2>1, <2>2, UsersStay
  <1>4. QED
    BY <1>1, <1>2, <1>3 DEF ForeignKeys

\* An OTP record stays tied to the user and the purpose it was issued for.
LEMMA IssuedStep == ASSUME IInv, [Next]_vars PROVE Issued'
  <1> SUFFICES ASSUME NEW o \in otps'
               PROVE  [otp |-> o.hash, userID |-> o.userID, purpose |-> o.purpose] \in issued'
    BY DEF Issued
  <1>1. ASSUME NEW e \in otps, o.hash = e.hash, o.userID = e.userID, o.purpose = e.purpose
        PROVE  [otp |-> o.hash, userID |-> o.userID, purpose |-> o.purpose] \in issued'
    BY <1>1, Growth DEF IInv, Issued
  <1>2. QED
    BY <1>1, OTPHistory

\* A linked account stays verified, under the email of its subject.
LEMMA LinkedStep == ASSUME IInv, [Next]_vars PROVE Linked'
  <1> SUFFICES ASSUME NEW l \in links', NEW v \in users', v.id = l.userID
               PROVE  v.verified /\ v.email = EmailOf[l.sub]
    BY DEF Linked
  <1>1. CASE l \in links
    <2>1. PICK u \in users : /\ v.id = u.id /\ v.email = u.email
                             /\ u.verified => v.verified
      BY <1>1, OldUser DEF IInv, ForeignKeys
    <2>2. QED
      BY <1>1, <2>1 DEF IInv, Linked
  <1>2. ASSUME NEW p \in Procs, proc[p].pc = "link", users' = users,
               l = [sub |-> proc[p].sub, userID |-> proc[p].userID]
        PROVE  v.verified /\ v.email = EmailOf[l.sub]
    <2>1. StillTrue(proc[p], v) /\ Located(proc[p])
      BY <1>2 DEF IInv, Remembered, Locals
    <2>2. QED
      BY <1>2, <2>1 DEF StillTrue, Located
  <1>3. QED
    BY <1>1, <1>2, LinkHistory

\* The account a handler is about to link stays without a link until it does.
LEMMA UnlinkedStep == ASSUME IInv, [Next]_vars PROVE Unlinked'
  <1>1. userSeq \in Nat /\ proc \in [Procs -> Handler]
    BY AccountBounds DEF IInv, AccountsTypeOK
  <1>2. \A p \in Procs : proc[p].userID =< userSeq
    BY DEF IInv, Ids
  <1>3. \A l \in links : l.userID # userSeq + 1
    BY <1>1 DEF IInv, Ids, ForeignKeys, UserExists, GetByID
  <1>4. ASSUME NEW p \in Procs, proc'[p].pc = "link", NEW l \in links'
        PROVE  l.userID # proc'[p].userID
    <2>1. CASE Arrives(p, proc'[p])
      BY <1>3, <1>4, <2>1 DEF Arrives
    <2>2. CASE proc'[p] = proc[p] /\ l \in links
      BY <1>4, <2>2 DEF IInv, Unlinked
    <2>3. ASSUME proc'[p] = proc[p],
                 NEW q \in Procs, LinkProvider(q), proc[q].pc = "link",
                 l = [sub |-> proc[q].sub, userID |-> proc[q].userID]
          PROVE  l.userID # proc'[p].userID
      <3>1. proc'[q].pc # "link"
        <4>1. \/ proc' = [proc EXCEPT ![q].pc = "session"]
              \/ proc' = [proc EXCEPT ![q] = Idle]
          BY <2>3 DEF LinkProvider, Goto, Return
        <4>2. QED
          BY <1>1, <4>1 DEF Handler, Idle
      <3>2. q # p
        BY <1>4, <3>1
      <3>3. QED
        BY <1>4, <2>3, <3>2 DEF IInv, Unlinked
    <2>4. QED
      BY <2>1, <2>2, <2>3, LinkHistory, Actor
  <1>5. ASSUME NEW p \in Procs, proc'[p].pc = "link",
               NEW q \in Procs, proc'[q].pc = "link", proc'[q].userID = proc'[p].userID, q # p
        PROVE  FALSE
    <2>1. ASSUME NEW x \in Procs, NEW y \in Procs, x # y, Arrives(x, proc'[x]),
                 proc'[x].pc = "link"
          PROVE  proc'[x].userID # proc'[y].userID
      <3>1. proc'[y] = proc[y] /\ proc'[x].userID = userSeq + 1
        BY <1>1, <2>1 DEF Arrives
      <3>2. QED
        BY <1>1, <1>2, <3>1 DEF Handler
    <2>2. CASE proc'[p] = proc[p] /\ proc'[q] = proc[q]
      BY <1>5, <2>2 DEF IInv, Unlinked
    <2>3. QED
      BY <1>5, <2>1, <2>2, Actor
  <1>6. QED
    BY <1>4, <1>5 DEF Unlinked

\* No step gives an email or a provider subject to a second account.
LEMMA IdentitiesStep == ASSUME IInv, [Next]_vars PROVE IdentitiesUnique'
  <1> DEFINE Apart(u, v) == /\ u.id # v.id /\ u.email # v.email
                            /\ u.username = NoName \/ u.username # v.username
  <1>1. users \in SUBSET UserRow(Nat) /\ userSeq \in Nat
    BY AccountBounds DEF IInv, AccountsTypeOK, UserRow
  <1>2. \A u, v \in users : u # v => Apart(u, v)
    BY DEF IInv, IdentitiesUnique
  <1>3. \A u, v \in users' : u # v => Apart(u, v)
    <2>1. CASE users' \subseteq users
      BY <1>2, <2>1
    <2>2. ASSUME NEW p \in Procs, CreateAccount(p), users' # users
          PROVE  \A u, v \in users' : u # v => Apart(u, v)
      <3>1. users' = users \cup {NewRow(p)} /\ UserAllowed(users, NewRow(p))
        BY <2>2 DEF CreateAccount, NewRow, CreateUser, tables
      <3>2. \A u \in users : u.id # NewRow(p).id
        BY <1>1 DEF NewRow, IInv, Ids, UserRow
      <3>3. \A u \in users : Apart(u, NewRow(p)) /\ Apart(NewRow(p), u)
        BY <3>1, <3>2 DEF UserAllowed
      <3> HIDE DEF Apart
      <3>4. QED
        BY <1>2, <3>1, <3>3
    <2>3. ASSUME NEW p \in Procs, MarkVerified(p), users' # users
          PROVE  \A u, v \in users' : u # v => Apart(u, v)
      <3> DEFINE id == proc[p].userID
                 n == proc[p].username
      <3>1. /\ users' = UpdateVerified(users, id, n)
            /\ UpdateVerifiedAllowed(users, id, n)
        BY <2>3 DEF MarkVerified, tables
      <3>2. ASSUME NEW u \in users', NEW v \in users', u # v
            PROVE  Apart(u, v)
        <4>1. PICK x \in users : /\ u.id = x.id /\ u.email = x.email
                                 /\ IF x.id = id THEN u.username = n ELSE u = x
          BY <1>1, <3>1, VerifiedRows
        <4>2. PICK y \in users : /\ v.id = y.id /\ v.email = y.email
                                 /\ IF y.id = id THEN v.username = n ELSE v = y
          BY <1>1, <3>1, VerifiedRows
        <4>3. x # y
          <5> SUFFICES ASSUME x = y PROVE FALSE
            OBVIOUS
          <5>1. x.id = id
            BY <3>2, <4>1, <4>2
          <5>2. x \in users /\ u = [x EXCEPT !.verified = TRUE, !.username = n]
            <6>1. PICK a \in users : u = IF a.id = id THEN [a EXCEPT !.verified = TRUE, !.username = n]
                                         ELSE a
              BY <3>1 DEF UpdateVerified
            <6>2. u.id = a.id
              BY <1>1, <6>1 DEF UserRow
            <6>3. a = x
              BY <4>1, <6>2, SameUser DEF IInv
            <6>4. QED
              BY <5>1, <6>1, <6>3
          <5>3. v = [x EXCEPT !.verified = TRUE, !.username = n]
            <6>1. PICK a \in users : v = IF a.id = id THEN [a EXCEPT !.verified = TRUE, !.username = n]
                                         ELSE a
              BY <3>1 DEF UpdateVerified
            <6>2. v.id = a.id
              BY <1>1, <6>1 DEF UserRow
            <6>3. a = x
              BY <4>2, <6>2, SameUser DEF IInv
            <6>4. QED
              BY <5>1, <6>1, <6>3
          <5>4. QED
            BY <3>2, <5>2, <5>3
        <4>4. Apart(x, y) /\ Apart(y, x)
          BY <1>2, <4>3
        <4>5. \A w \in users : w.id # id => w.username # n \/ GetByID(users, id) = {}
          BY <3>1 DEF UpdateVerifiedAllowed
        <4>6. QED
          BY <4>1, <4>2, <4>4, <4>5 DEF GetByID
      <3>3. QED
        BY <3>2
    <2>4. ASSUME NEW p \in Procs, StorePassword(p)
          PROVE  \A u, v \in users' : u # v => Apart(u, v)
      <3> DEFINE id == proc[p].userID
                 w == proc[p].password
      <3>1. users' = UpdatePassword(users, id, w)
        BY <2>4 DEF StorePassword
      <3>2. ASSUME NEW u \in users', NEW v \in users', u # v
            PROVE  Apart(u, v)
        <4>1. PICK x \in users : u = IF x.id = id THEN [x EXCEPT !.password = w] ELSE x
          BY <3>1 DEF UpdatePassword
        <4>2. PICK y \in users : v = IF y.id = id THEN [y EXCEPT !.password = w] ELSE y
          BY <3>1 DEF UpdatePassword
        <4>3. x # y
          BY <3>2, <4>1, <4>2
        <4>4. /\ u.id = x.id /\ u.email = x.email /\ u.username = x.username
              /\ v.id = y.id /\ v.email = y.email /\ v.username = y.username
          BY <1>1, <4>1, <4>2 DEF UserRow
        <4>5. QED
          BY <1>2, <4>3, <4>4
      <3>3. QED
        BY <3>2
    <2>5. ASSUME NEW id, DeleteUser(id)
          PROVE  users' \subseteq users
      BY <2>5 DEF DeleteUser, DeleteUserRow
    <2>6. users' # users => \/ \E p \in Procs : CreateAccount(p) \/ MarkVerified(p) \/ StorePassword(p)
                            \/ \E i : DeleteUser(i)
      BY DEF Next, Request, Write, Begin, Signup, VerifyOTP, Login, ForgotPassword,
             ResetPassword, ExchangeOAuthCode, generateUniqueUsername, StoreOTP, DropOTPs, UseOTP,
             LinkProvider, CreateSession, Abandon, CleanupOTPs, Tick, vars, tables
    <2> HIDE DEF Apart
    <2>7. QED
      BY <2>1, <2>2, <2>3, <2>4, <2>5, <2>6
  <1>4. \A l, m \in links' : l.sub = m.sub <=> l.userID = m.userID
    <2>1. \A l, m \in links : l.sub = m.sub <=> l.userID = m.userID
      BY DEF IInv, IdentitiesUnique
    <2>2. ASSUME NEW k \in links', links' = links \cup {k}, LinkAllowed(links, k.sub, k.userID)
          PROVE  \A l, m \in links' : l.sub = m.sub <=> l.userID = m.userID
      BY <2>1, <2>2 DEF LinkAllowed
    <2>3. CASE links' \subseteq links
      BY <2>1, <2>3
    <2>4. QED
      BY <2>2, <2>3, LinkHistory
  <1>5. QED
    BY <1>3, <1>4 DEF IdentitiesUnique

\* No step opens a session for an account that is not verified.
LEMMA SessionsStep == ASSUME IInv, [Next]_vars PROVE SessionsOnlyForVerified'
  <1> SUFFICES ASSUME NEW v \in users', v.id \in sessions'
               PROVE  v.verified
    BY DEF SessionsOnlyForVerified
  <1>1. CASE v.id \in sessions
    <2>1. PICK u \in users : v.id = u.id /\ (u.verified => v.verified)
      BY <1>1, OldUser DEF IInv, ForeignKeys
    <2>2. QED
      BY <1>1, <2>1 DEF IInv, SessionsOnlyForVerified
  <1>2. ASSUME NEW p \in Procs, proc[p].pc = "session", v.id = proc[p].userID, users' = users
        PROVE  v.verified
    BY <1>2 DEF IInv, Remembered, StillTrue
  <1>3. QED
    BY <1>1, <1>2, SessionHistory

\* A step brings a handler to the reset only by a reset code of its user.
LEMMA ResetStep == ASSUME IInv, [Next]_vars PROVE ResetByResetCode'
  <1> SUFFICES ASSUME NEW p \in Procs, proc'[p].pc = "reset"
               PROVE  [otp |-> proc'[p].otp, userID |-> proc'[p].userID, purpose |-> "reset"]
                        \in issued'
    BY DEF ResetByResetCode
  <1>1. CASE Arrives(p, proc'[p])
    BY <1>1 DEF Arrives
  <1>2. CASE proc'[p] = proc[p]
    BY <1>2, Growth DEF IInv, ResetByResetCode
  <1>3. QED
    BY <1>1, <1>2, Actor

\* No step lets a code that was spent work again.
LEMMA CodeStep == ASSUME IInv, [Next]_vars PROVE CodeSpent'
  <1> SUFFICES ASSUME NEW p \in Procs, proc'[p].pc = "session", proc'[p].otp # 0
               PROVE  GetByOTPHash(otps', proc'[p].otp, "signup") = {}
    BY DEF CodeSpent
  <1>1. CASE Arrives(p, proc'[p])
    BY <1>1 DEF Arrives
  <1>2. CASE proc'[p] = proc[p]
    <2>1. GetByOTPHash(otps, proc[p].otp, "signup") = {}
      BY <1>2 DEF IInv, CodeSpent
    <2>2. proc[p].otp =< otpSeq /\ otpSeq \in Nat
      BY AccountBounds DEF IInv, Ids, AccountsTypeOK
    <2>3. \A o \in otps' : \/ o.hash = otpSeq + 1
                           \/ \E e \in otps : /\ o.hash = e.hash /\ o.purpose = e.purpose
                                              /\ e.deleted => o.deleted
      BY OTPHistory
    <2>4. QED
      BY <1>2, <2>1, <2>2, <2>3 DEF GetByOTPHash
  <1>3. QED
    BY <1>1, <1>2, Actor

\* No step but a failure leaves behind an account that nothing will finish.
LEMMA HalfMadeStep == ASSUME IInv, [Next]_vars PROVE HalfMadeOnlyByFailure'
  <1> DEFINE Made(u) == /\ ~u.verified => \E i \in issued : i.userID = u.id /\ i.purpose = "signup"
                        /\ u.password = NoPassword => \E l \in links : l.userID = u.id
  <1> SUFFICES ASSUME NEW v \in users'
               PROVE  \/ v.id \in halfMade'
                      \/ \E p \in Procs : Completing(p)' /\ proc'[p].userID = v.id
                      \/ Made(v)'
    BY DEF HalfMadeOnlyByFailure
  <1>1. proc \in [Procs -> Handler]
    BY DEF IInv, AccountsTypeOK
  <1>2. ASSUME NEW p \in Procs, CreateAccount(p), v = NewRow(p), v \notin users
        PROVE  Completing(p)' /\ proc'[p].userID = v.id
    <2>1. /\ proc[p].pc = "createUser"
          /\ proc' = [proc EXCEPT ![p].pc = IF proc[p].sub # NoSubject THEN "link" ELSE "createOTP",
                                  ![p].userID = userSeq + 1]
      BY <1>2 DEF CreateAccount, tables
    <2>2. proc[p].purpose = "signup"
      BY <2>1 DEF IInv, Locals, Located
    <2>3. /\ proc'[p].pc \in {"link", "createOTP"} /\ proc'[p].userID = userSeq + 1
          /\ proc'[p].purpose = "signup"
      BY <1>1, <2>1, <2>2 DEF Handler
    <2>4. QED
      BY <1>2, <2>3 DEF Completing, NewRow
  <1>3. ASSUME NEW u \in users, v.id = u.id, u.verified => v.verified,
               u.password # NoPassword => v.password # NoPassword
        PROVE  \/ v.id \in halfMade'
               \/ \E p \in Procs : Completing(p)' /\ proc'[p].userID = v.id
               \/ Made(v)'
    <2>1. ~DeleteUser(u.id)
      BY <1>3 DEF DeleteUser, DeleteUserRow
    <2>2. \A l \in links : l.userID = u.id => l \in links'
      <3>1. \/ links \subseteq links'
            \/ \E id : DeleteUser(id)
        BY DEF Next, Request, Write, Begin, Signup, VerifyOTP, Login, ForgotPassword,
               ResetPassword, ExchangeOAuthCode, generateUniqueUsername, CreateAccount, StoreOTP,
               DropOTPs, MarkVerified, StorePassword, UseOTP, LinkProvider, CreateLink,
               CreateSession, Abandon, CleanupOTPs, Tick, vars, tables
      <3>2. ASSUME NEW id, DeleteUser(id)
            PROVE  \A l \in links : l.userID = u.id => l \in links'
        BY <2>1, <3>2 DEF DeleteUser, Cascade
      <3>3. QED
        BY <3>1, <3>2
    <2>3. u.id \in halfMade => u.id \in halfMade'
      <3>1. \/ halfMade \subseteq halfMade'
            \/ \E id : DeleteUser(id)
        BY DEF Next, Request, Write, Begin, Signup, VerifyOTP, Login, ForgotPassword,
               ResetPassword, ExchangeOAuthCode, generateUniqueUsername, CreateAccount, StoreOTP,
               DropOTPs, MarkVerified, StorePassword, UseOTP, LinkProvider,
               CreateSession, Abandon, CleanupOTPs, Tick, vars, history
      <3>2. ASSUME NEW id, DeleteUser(id)
            PROVE  u.id \in halfMade => u.id \in halfMade'
        BY <2>1, <3>2 DEF DeleteUser
      <3>3. QED
        BY <3>1, <3>2
    <2>4. Made(u) => Made(v)'
      BY <1>3, <2>2, Growth
    <2>5. ASSUME NEW p \in Procs, Completing(p), proc[p].userID = u.id
          PROVE  \/ v.id \in halfMade'
                 \/ \E q \in Procs : Completing(q)' /\ proc'[q].userID = v.id
                 \/ Made(v)'
      <3>1. UserExists(users, u.id) /\ StillTrue(proc[p], u)
        BY <2>5 DEF UserExists, GetByID, IInv, Remembered
      <3>2. CASE proc'[p] = proc[p]
        BY <1>3, <2>5, <3>2 DEF Completing
      <3>3. CASE Abandon(p)
        BY <1>3, <2>5, <3>3 DEF Abandon
      <3>4. CASE StoreOTP(p)
        <4>1. proc[p].pc = "createOTP" /\ proc[p].purpose = "signup"
          BY <2>5, <3>4 DEF StoreOTP, Completing
        <4>2. u.password # NoPassword
          BY <3>1, <4>1 DEF StillTrue
        <4>3. [otp |-> otpSeq + 1, userID |-> u.id, purpose |-> "signup"] \in issued'
          BY <2>5, <3>1, <3>4, <4>1 DEF StoreOTP, GenerateOTP
        <4>4. \E i \in issued' : i.userID = v.id /\ i.purpose = "signup"
          BY <1>3, <4>3
        <4>5. QED
          BY <1>3, <4>2, <4>4
      <3>5. CASE LinkProvider(p)
        <4>1. proc[p].pc = "link"
          BY <3>5 DEF LinkProvider
        <4>2. v.verified
          BY <1>3, <3>1, <4>1 DEF StillTrue
        <4>3. LinkAllowed(links, proc[p].sub, proc[p].userID)
          <5>1. ASSUME NEW l \in links, l.sub = proc[p].sub
                PROVE  FALSE
            <6>1. PICK w \in users : w.id = l.userID
              BY DEF IInv, ForeignKeys, UserExists, GetByID
            <6>2. w.email = EmailOf[proc[p].sub]
              BY <5>1, <6>1 DEF IInv, Linked
            <6>3. u.email = EmailOf[proc[p].sub]
              BY <3>1, <4>1 DEF StillTrue, IInv, Locals, Located
            <6>4. w = u
              BY <6>2, <6>3 DEF IInv, IdentitiesUnique
            <6>5. QED
              BY <2>5, <4>1, <6>1, <6>4 DEF IInv, Unlinked
          <5>2. \A l \in links : l.userID # proc[p].userID
            BY <4>1 DEF IInv, Unlinked
          <5>3. QED
            BY <5>1, <5>2 DEF LinkAllowed
        <4>4. [sub |-> proc[p].sub, userID |-> u.id] \in links'
          BY <2>5, <3>1, <3>5, <4>3 DEF LinkProvider, CreateLink
        <4>5. \E l \in links' : l.userID = v.id
          BY <1>3, <4>4
        <4>6. QED
          BY <4>2, <4>5
      <3>6. proc'[p] = proc[p] \/ Request(p) \/ Write(p)
        <4>1. ASSUME NEW q \in Procs, Request(q) \/ Write(q), q # p
              PROVE  proc'[p] = proc[p]
          <5>1. PICK h : Arrives(q, h)
            BY <4>1, ReadingArrives, WritingArrives
          <5>2. QED
            BY <1>1, <4>1, <5>1 DEF Arrives
        <4>2. QED
          BY <4>1 DEF Next, DeleteUser, CleanupOTPs, Tick, vars
      <3>7. ~Request(p)
        BY <2>5 DEF Completing, Request, Begin, Signup, VerifyOTP, Login, ForgotPassword,
                    ResetPassword, ExchangeOAuthCode, generateUniqueUsername
      <3>8. Write(p) => StoreOTP(p) \/ LinkProvider(p) \/ Abandon(p)
        BY <2>5 DEF Completing, Write, CreateAccount, DropOTPs, MarkVerified, StorePassword,
                    UseOTP, CreateSession
      <3>9. QED
        BY <3>2, <3>3, <3>4, <3>5, <3>6, <3>7, <3>8
    <2>6. \/ u.id \in halfMade
          \/ \E p \in Procs : Completing(p) /\ proc[p].userID = u.id
          \/ Made(u)
      BY DEF IInv, HalfMadeOnlyByFailure
    <2> HIDE DEF Made
    <2>7. QED
      BY <1>3, <2>3, <2>4, <2>5, <2>6
  <1> HIDE DEF Made
  <1>4. CASE v \in users
    BY <1>3, <1>4
  <1>5. QED
    BY <1>2, <1>3, <1>4, UserHistory

\* No step leaves a verified account without a username.
LEMMA UsernameStep == ASSUME IInv, [Next]_vars PROVE VerifiedHasUsername'
  <1> DEFINE Named(u) == u.username # NoName /\ GenerateUsername(u.email)
  <1>1. users \in SUBSET UserRow(Nat)
    BY AccountBounds DEF IInv, AccountsTypeOK, UserRow
  <1>2. \A e \in Emails : GenerateUsername(e) <=> PrefixLength[e] + 7 =< 100
    <2>1. \A e \in Emails : PrefixLength[e] \in Nat
      BY PrefixAssumption
    <2>2. QED
      BY <2>1 DEF GenerateUsername
  <1>3. \A u \in users : u.verified => Named(u)
    BY <1>1, <1>2 DEF IInv, VerifiedHasUsername, UserRow
  <1>4. ASSUME NEW v \in users', v.verified
        PROVE  Named(v)
    <2>1. CASE v \in users
      BY <1>3, <1>4, <2>1
    <2>2. ASSUME NEW p \in Procs, CreateAccount(p), v = NewRow(p)
          PROVE  Named(v)
      <3>1. proc[p].sub # NoSubject
        <4>1. v.verified = (proc[p].sub # NoSubject)
          BY <2>2, Zenon DEF NewRow
        <4>2. QED
          BY <1>4, <4>1
      <3>2. v.username = proc[p].username /\ v.email = proc[p].email
        BY <2>2 DEF NewRow
      <3>3. QED
        BY <2>2, <3>1, <3>2 DEF CreateAccount, IInv, Locals, Located
    <2>3. ASSUME NEW p \in Procs, MarkVerified(p), users' # users
          PROVE  Named(v)
      <3>1. proc[p].pc = "verify" /\ users' = UpdateVerified(users, proc[p].userID, proc[p].username)
        BY <2>3 DEF MarkVerified, tables
      <3>2. PICK u \in users : /\ v.id = u.id /\ v.email = u.email
                               /\ IF u.id = proc[p].userID THEN v.username = proc[p].username
                                  ELSE v = u
        BY <1>1, <3>1, VerifiedRows
      <3>3. u.id = proc[p].userID => u.email = proc[p].email
        BY <3>1 DEF IInv, Remembered, StillTrue
      <3>4. proc[p].username # NoName /\ GenerateUsername(proc[p].email)
        BY <3>1 DEF IInv, Locals, Located
      <3>5. QED
        BY <1>3, <1>4, <3>2, <3>3, <3>4
    <2>4. ASSUME NEW p \in Procs, StorePassword(p)
          PROVE  Named(v)
      <3>1. users' = UpdatePassword(users, proc[p].userID, proc[p].password)
        BY <2>4 DEF StorePassword
      <3>2. PICK u \in users : /\ v.email = u.email /\ v.username = u.username
                               /\ v.verified = u.verified
        BY <1>1, <3>1, PasswordRows
      <3>3. QED
        BY <1>3, <1>4, <3>2
    <2>5. ASSUME NEW id, DeleteUser(id)
          PROVE  v \in users
      BY <2>5 DEF DeleteUser, DeleteUserRow
    <2>6. ASSUME NEW p \in Procs, CreateAccount(p), v # NewRow(p)
          PROVE  v \in users
      BY <2>6 DEF CreateAccount, NewRow, CreateUser, tables
    <2>7. users' # users => \/ \E p \in Procs : CreateAccount(p) \/ MarkVerified(p) \/ StorePassword(p)
                            \/ \E i : DeleteUser(i)
      BY DEF Next, Request, Write, Begin, Signup, VerifyOTP, Login, ForgotPassword,
             ResetPassword, ExchangeOAuthCode, generateUniqueUsername, StoreOTP, DropOTPs, UseOTP,
             LinkProvider, CreateSession, Abandon, CleanupOTPs, Tick, vars, tables
    <2> HIDE DEF Named
    <2>8. QED
      BY <2>1, <2>2, <2>3, <2>4, <2>5, <2>6, <2>7
  <1>5. ASSUME NEW v \in users', v.verified \/ v.id \in sessions'
        PROVE  v.username # NoName /\ PrefixLength[v.email] + 7 =< 100
    <2>1. v.verified
      BY <1>5, SessionsStep DEF SessionsOnlyForVerified
    <2>2. v.email \in Emails
      BY TypeStep DEF AccountsTypeOK, UserRow
    <2>3. QED
      BY <1>2, <1>4, <2>1, <2>2
  <1>6. QED
    BY <1>5 DEF VerifiedHasUsername

-------------------------------------------------------------------------------
(* The theorems.                                                             *)

\* The invariant holds at the start.
LEMMA InitIInv == Init => IInv
  <1> SUFFICES ASSUME Init PROVE IInv
    OBVIOUS
  <1>1. AccountsTypeOK
    BY AccountBounds, IdleType DEF Init, AccountsTypeOK
  <1>2. \A p \in Procs : /\ proc[p].pc = "idle" /\ proc[p].userID = 0 /\ proc[p].otp = 0
                         /\ proc[p].sub = NoSubject
    BY DEF Init, Idle
  <1>3. Locals /\ Ids
    BY <1>2 DEF Init, Locals, Located, Ids
  <1>4. /\ ForeignKeys /\ Remembered /\ Issued /\ Linked /\ IdentitiesUnique
        /\ SessionsOnlyForVerified /\ HalfMadeOnlyByFailure /\ VerifiedHasUsername
    BY DEF Init, ForeignKeys, Remembered, Issued, Linked, IdentitiesUnique,
           SessionsOnlyForVerified, HalfMadeOnlyByFailure, VerifiedHasUsername
  <1>5. Unlinked /\ ResetByResetCode /\ CodeSpent
    BY <1>2 DEF Unlinked, ResetByResetCode, CodeSpent
  <1>6. QED
    BY <1>1, <1>3, <1>4, <1>5 DEF IInv

\* No step of the account operations breaks the invariant.
LEMMA NextIInv == IInv /\ [Next]_vars => IInv'
  BY TypeStep, IdsStep, ForeignKeysStep, LocalsStep, RememberedStep, IssuedStep, LinkedStep,
     UnlinkedStep, IdentitiesStep, SessionsStep, ResetStep, CodeStep, HalfMadeStep, UsernameStep
  DEF IInv

\* The inductive invariant, for any number of handlers, accounts and codes.
THEOREM Inductive == Spec => []IInv
  BY InitIInv, NextIInv, PTL DEF Spec

\* Tables and handlers are well typed: every row that is written is a row of its
\* table, under ids that the sequences have drawn.
THEOREM AccountsTypeCorrect == Spec => []AccountsTypeOK
  <1>1. IInv => AccountsTypeOK
    BY DEF IInv
  <1>2. QED
    BY <1>1, Inductive, PTL

\* However the check-then-insert of Signup, VerifyOTP and ExchangeOAuthCode
\* interleave, no two accounts share an email or a username, and provider subjects
\* and accounts are linked one to one.
THEOREM UniqueIdentities == Spec => []IdentitiesUnique
  <1>1. IInv => IdentitiesUnique
    BY DEF IInv
  <1>2. QED
    BY <1>1, Inductive, PTL

\* Only verified accounts have sessions, although the check that Login,
\* ExchangeOAuthCode or VerifyOTP made is long past when the session is created.
THEOREM VerifiedSessions == Spec => []SessionsOnlyForVerified
  <1>1. IInv => SessionsOnlyForVerified
    BY DEF IInv
  <1>2. QED
    BY <1>1, Inductive, PTL

\* A password is replaced only through a reset code issued to that very user.
THEOREM ResetCodes == Spec => []ResetByResetCode
  <1>1. IInv => ResetByResetCode
    BY DEF IInv
  <1>2. QED
    BY <1>1, Inductive, PTL

\* The code that verified an account is spent before its session is created.
THEOREM SpentCodes == Spec => []CodeSpent
  <1>1. IInv => CodeSpent
    BY DEF IInv
  <1>2. QED
    BY <1>1, Inductive, PTL

\* Signups and OAuth sign-ins leave an account without a code or a link only when
\* a statement failed in between, never because of what ran concurrently.
THEOREM HalfMadeAccounts == Spec => []HalfMadeOnlyByFailure
  <1>1. IInv => HalfMadeOnlyByFailure
    BY DEF IInv
  <1>2. QED
    BY <1>1, Inductive, PTL

\* Whoever can sign in has a username, and it fits its column.
THEOREM VerifiedUsernames == Spec => []VerifiedHasUsername
  <1>1. IInv => VerifiedHasUsername
    BY DEF IInv
  <1>2. QED
    BY <1>1, Inductive, PTL
================================================================================
