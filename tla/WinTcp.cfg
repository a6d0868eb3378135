SPECIFICATION FairSpec
CONSTANTS
    Ops = {o1, o2}
    SIMULTANEOUS_ACCEPTS = 1
    MaxRx = 1
    MaxFailures = 1
PROPERTIES
    WritesAnswered
INVARIANTS
    NothingAfterRelease
    WritesExact
    FinLast
    AcceptsKept
