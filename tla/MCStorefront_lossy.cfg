\* A buyer who waits, while requests and answers are lost and a purchase goes unlisted.
SPECIFICATION StoreSpec
CONSTANTS
    u1 = u1
    Users = {u1}
    Books = {b1, b2}
    Checkouts = {c1, c2, c3}
    Caller <- MCOneCaller
    ReadsBreak = FALSE
    Waits = TRUE
    LoadsFail = TRUE
    ListLimit = 1
PROPERTIES
    NothingVanishes
