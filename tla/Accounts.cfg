\* Two handlers, three emails, one OAuth subject; every fault.
CONSTANTS
    e1 = e1
    e2 = e2
    e3 = e3
    s1 = s1
    Emails = {e1, e2, e3}
    Usernames = {n1, n2}
    Passwords = {w1}
    Subjects = {s1}
    NoName = NoName
    NoPassword = NoPassword
    Procs = {p1, p2}
    EmailOf <- MCEmailOf
    PrefixLength <- MCPrefixLength
    OTPExpiry = 1
    Faults = {"dbError", "deleteUser"}
    MaxUsers = 2
    MaxOTPs = 2
    MaxTime = 2
SYMMETRY Symmetry
SPECIFICATION Spec
CHECK_DEADLOCK FALSE
INVARIANTS AccountsTypeOK IdentitiesUnique SessionsOnlyForVerified ResetByResetCode CodeSpent HalfMadeOnlyByFailure VerifiedHasUsername
