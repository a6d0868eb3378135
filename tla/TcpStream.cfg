SPECIFICATION FairSpec
CONSTANTS
    Ops = {o1, o2}
    Size = 2
    Room = 1
    MaxRx = 2
PROPERTIES
    WritesAnswered
    ShutdownCompletes
    CloseCompletes
    ActiveReadsAll
INVARIANTS
    WriteAnsweredOnce
    WireInOrder
    FinLast
    WritesWatched
    NoEventAfterRelease
CHECK_DEADLOCK FALSE
