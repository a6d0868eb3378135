SPECIFICATION Spec
CONSTANTS
    Timers = {t1}
    Delays = {1}
    W = 16
    INT_MAX = 2
    MaxClock = 2
    MaxSignals = 0
    NULL = NULL
INVARIANT
    StopHolds
