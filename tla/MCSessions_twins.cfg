\* Two requests with one token.
\* It stops when its four requests are used up.
SPECIFICATION Spec
CONSTANTS
    Emails = {e1, e2}
    Tokenless = {e2}
    Tokens = {t1, t2, t3}
    Requests = {r1, r2, r3, r4}
    None = None
    Overlaps = TRUE
SYMMETRY MCSymmetry
INVARIANTS
    ExchangedOnce
CHECK_DEADLOCK FALSE
