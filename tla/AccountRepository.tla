--------------------------- MODULE AccountRepository ---------------------------
(***************************************************************************)
(* repository/user.go, otp.go and provider.go over the users, credentials, *)
(* otps and user_providers tables.                                         *)
(*                                                                         *)
(* A users row and its credentials row are written by one transaction and  *)
(* die together, so they are one record.  last_login is written and never  *)
(* read, and created_at only orders a read nobody uses: both are left out. *)
(* The uniqueness and foreign-key constraints of the schema are the        *)
(* ...Allowed operators; a statement that breaks one is refused.           *)
(***************************************************************************)
EXTENDS Integers

CONSTANTS
    Emails, Usernames, Passwords, Subjects,
    NoName,       \* users.username NULL
    NoPassword    \* the empty password hash of an OAuth account: verifies nothing

Purposes == {"signup", "reset"}

UserRow(Id) == [id: Id, email: Emails, username: Usernames \cup {NoName},
                verified: BOOLEAN, password: Passwords \cup {NoPassword}]
OTPRow(Id, Time) == [hash: Id, userID: Id, purpose: Purposes, expiresAt: Time,
                     deleted: BOOLEAN]
LinkRow(Id) == [sub: Subjects, userID: Id]

-------------------------------------------------------------------------------
\* getUser, by email and by id; exists, for a username.
GetByEmail(users, email) == {u \in users : u.email = email}
GetByID(users, id) == {u \in users : u.id = id}
ExistsUsername(users, username) == \E u \in users : u.username = username

\* Mutant of UserAllowed: the email column is not UNIQUE.
UserAllowed_AnyEmail(users, row) ==
    \A u \in users : row.username # NoName => u.username # row.username

\* UNIQUE (email) and UNIQUE (username): NULL usernames never collide.
UserAllowed(users, row) ==
    \A u \in users : /\ u.email # row.email
                     /\ row.username # NoName => u.username # row.username
CreateUser(users, row) == users \cup {row}

\* UPDATE users SET verified, username WHERE id, under UNIQUE (username).
UpdateVerifiedAllowed(users, id, username) ==
    GetByID(users, id) = {} \/ \A u \in users : u.id # id => u.username # username
UpdateVerified(users, id, username) ==
    {IF u.id = id THEN [u EXCEPT !.verified = TRUE, !.username = username] ELSE u :
        u \in users}

\* UPDATE credentials WHERE user_id.
UpdatePassword(users, id, password) ==
    {IF u.id = id THEN [u EXCEPT !.password = password] ELSE u : u \in users}

\* DELETE FROM users; the other tables lose the user's rows by cascade.
DeleteUserRow(users, id) == {u \in users : u.id # id}
Cascade(table, id) == {r \in table : r.userID # id}

\* REFERENCES users(id).
UserExists(users, id) == GetByID(users, id) # {}

-------------------------------------------------------------------------------
CreateOTP(otps, hash, userID, purpose, expiresAt) ==
    otps \cup {[hash |-> hash, userID |-> userID, purpose |-> purpose,
                expiresAt |-> expiresAt, deleted |-> FALSE]}

\* Mutants of the next two: the purpose is not compared; it is the wrong one.
GetByOTPHash_AnyPurpose(otps, hash, purpose) ==
    {o \in otps : o.hash = hash /\ ~o.deleted}
SoftDeleteByOTPHash_Reset(otps, hash, purpose) ==
    {IF o.hash = hash /\ o.purpose = "reset" THEN [o EXCEPT !.deleted = TRUE] ELSE o :
        o \in otps}

\* Expiry is not part of the WHERE clause.
GetByOTPHash(otps, hash, purpose) ==
    {o \in otps : o.hash = hash /\ o.purpose = purpose /\ ~o.deleted}

SoftDeleteByOTPHash(otps, hash, purpose) ==
    {IF o.hash = hash /\ o.purpose = purpose THEN [o EXCEPT !.deleted = TRUE] ELSE o :
        o \in otps}

SoftDeleteByUserIDAndPurpose(otps, userID, purpose) ==
    {IF o.userID = userID /\ o.purpose = purpose THEN [o EXCEPT !.deleted = TRUE] ELSE o :
        o \in otps}

DeleteExpiredAndSoftDeletedOTPs(otps, now) ==
    {o \in otps : ~(o.expiresAt < now \/ o.deleted)}

-------------------------------------------------------------------------------
GetByProvider(links, sub) == {l \in links : l.sub = sub}

\* PRIMARY KEY (provider, sub), UNIQUE (provider, user); one provider exists.
LinkAllowed(links, sub, userID) == \A l \in links : l.sub # sub /\ l.userID # userID
CreateLink_Swapped(links, sub, userID) ==   \* mutant: arguments swapped
    links \cup {[sub |-> userID, userID |-> sub]}
CreateLink(links, sub, userID) == links \cup {[sub |-> sub, userID |-> userID]}
================================================================================
