\* Two calls for one book, each with a job of its own, polled up to twice; the
\* recording is stored up to twice.  It stops when both calls have ended.
SPECIFICATION FairSpec
CONSTANTS
    b1 = b1
    c1 = c1
    c2 = c2
    j1 = j1
    j2 = j2
    Books = {b1}
    Calls = {c1, c2}
    Jobs = {j1, j2}
    NoJob = NoJob
    Names <- MCNames
    Subject <- MCSubject
    MaxPolls = 2
    MaxUploads = 2
INVARIANTS
    TypeOK
    TextIsOwn
    AudioKept
    NamesSurvive
PROPERTIES
    TranscriptionsEnd
CHECK_DEADLOCK FALSE
