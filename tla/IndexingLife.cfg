\* Upserts of each cleanup mode and the deletion of a loader, two at a time, with failures.
CONSTANTS
    a = a
    b = b
    x = x
    s = s
    t = t
    None = None
    Docs = {a, b, x}
    Calls = {c1, c2}
    CleanupBatch = 1
    Careful = TRUE
    MaxClock = 3
    MaxCalls = 3
    MaxFaults = 1
    SourceOf <- MCSourceOf
    LoaderOf <- MCSourceOf
    Jobs <- MCJobs

SPECIFICATION Spec
INVARIANTS
    TypeOK
    KeysHaveDocuments
    RetryHeals
PROPERTIES
    WantedStays
    Promise
    CallsEnd
CHECK_DEADLOCK FALSE
