\* A buyer who waits for each checkout, on pages that load.
SPECIFICATION StoreSpec
CONSTANTS
    u1 = u1
    Users = {u1}
    Books = {b1, b2}
    Checkouts = {c1, c2, c3}
    Caller <- MCOneCaller
    ReadsBreak = FALSE
    Waits = TRUE
    LoadsFail = FALSE
    ListLimit = 2
INVARIANTS
    StoreTypeOK
    BoughtOnce
PROPERTIES
    KeepsPromise
