\* Overlapping checkouts of one user and a reader, on a server that goes on.
SPECIFICATION FairLibrarySpec
CONSTANTS
    u1 = u1
    Users = {u1}
    Books = {b1, b2}
    Checkouts = {c1, c2}
    Caller <- MCOneCaller
    Readings = {r1}
    Reader <- MCOneReader
    Brief = {b2}
    ReadsBreak = TRUE
    None = None
INVARIANTS
    LibraryTypeOK
    OwnedIsOrdered
    SomeoneGoesOn
    TextIsBought
    NeverRefused
PROPERTIES
    CheckoutsEnd
