\* One app and others; requests about one token run one after the other.
\* It stops when its three requests are used up.
SPECIFICATION LoginSpec
CONSTANTS
    Emails = {e1, e2}
    Tokenless = {e2}
    Tokens = {t1, t2, t3}
    Requests = {r1, r2, r3}
    None = None
    Blank = Blank
    Overlaps = FALSE
SYMMETRY MCSymmetry
INVARIANTS
    LoginTypeOK
    OneSignUp
    WorksForItsUser
    OneLivePerSession
    ExchangedOnce
    OneResetPerRequest
    RefusedForCause
PROPERTIES
    OverIsOver
CHECK_DEADLOCK FALSE
