SPECIFICATION Spec
CONSTANTS
    b1 = b1
    r1 = r1
    r2 = r2
    a1 = a1
    Books = {b1}
    Runs = {r1, r2}
    Audio = {a1}
    Silent = {}
    Providers = {"LOCAL"}
    FaultKinds = {"crash", "cancel", "write"}
    MaxFaults = 1
INVARIANTS
    TypeOK
    TextsAgree
PROPERTIES
    TranscriptKept
SYMMETRY RunSymmetry
CHECK_DEADLOCK FALSE
