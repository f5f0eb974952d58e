\* Two browsers with two requests under way, two OAuth logins and two sessions.
CONSTANTS
    Browsers = {b1, b2}
    Requests = {q1, q2}
    NoBrowser = NoBrowser
    MaxLogins = 2
    MaxCodes = 1
    MaxTokens = 2
SYMMETRY Symmetry
SPECIFICATION Spec
CHECK_DEADLOCK FALSE
INVARIANTS BrowserTypeOK OwnLoginOnly RefusedForCause DeadCookieForCause
