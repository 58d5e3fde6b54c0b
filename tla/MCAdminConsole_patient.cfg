SPECIFICATION FairConsoleSpec
CONSTANTS
    b1 = b1
    r1 = r1
    a1 = a1
    a2 = a2
    Books = {b1}
    Runs = {r1}
    Audio = {a1, a2}
    Silent = {a2}
    Providers = {"LOCAL", "AWS"}
    FaultKinds = {"crash", "cancel"}
    MaxFaults = 2
    Waits = TRUE
    Refreshes = TRUE
    PageSize = 1
INVARIANTS
    ReadyIsConsistent
    AnsweredMeansReady
PROPERTIES
    Publishes
    CallsEnd
    FileArrives
    ResumeCompletes
CHECK_DEADLOCK FALSE
