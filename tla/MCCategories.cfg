\* Three publishings of two books, broken off anywhere, and one call that reads.
\* It may stop when the publishings have ended.
SPECIFICATION FairCatalogSpec
CONSTANTS
    b1 = b1
    b2 = b2
    u1 = u1
    u2 = u2
    u3 = u3
    l1 = l1
    l2 = l2
    Books = {b1, b2}
    Updates = {u1, u2, u3}
    BookOf <- MCBookOf
    Answer <- MCAnswer
    Labels = {l1, l2}
    Blank = Blank
    None = None
    q1 = q1
    Reads = {q1}
INVARIANTS
    CatalogTypeOK
    OneAuthor
    ReadInOrder
PROPERTIES
    AppliedWhole
    UpdatesEnd
CHECK_DEADLOCK FALSE
