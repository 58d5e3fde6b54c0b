SPECIFICATION FairConsoleSpec
CONSTANTS
    b1 = b1
    r1 = r1
    a1 = a1
    Books = {b1}
    Runs = {r1}
    Audio = {a1}
    Silent = {}
    Providers = {"LOCAL"}
    FaultKinds = {}
    MaxFaults = 0
    Waits = TRUE
    Refreshes = TRUE
    PageSize = 1
PROPERTIES
    AlwaysResumable
CHECK_DEADLOCK FALSE
