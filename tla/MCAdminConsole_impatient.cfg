SPECIFICATION ConsoleSpec
CONSTANTS
    b1 = b1
    r1 = r1
    r2 = r2
    a1 = a1
    Books = {b1}
    Runs = {r1, r2}
    Audio = {a1}
    Silent = {}
    Providers = {"AWS"}
    FaultKinds = {"crash", "cancel"}
    MaxFaults = 1
    Waits = FALSE
    Refreshes = FALSE
    PageSize = 1
INVARIANTS
    ConsoleTypeOK
    StatusBackedByAudio
PROPERTIES
    LinkKept
SYMMETRY RunSymmetry
CHECK_DEADLOCK FALSE
