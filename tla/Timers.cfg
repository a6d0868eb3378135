SPECIFICATION FairSpec
CONSTANTS
    Timers = {t1, t2}
    Delays = {0, 3}
    W = 16
    INT_MAX = 2
    MaxClock = 3
    MaxSignals = 1
    NULL = NULL
PROPERTIES
    TimerFires
    RunEnds
INVARIANTS
    RefsExact
    PollLateByStaleness
