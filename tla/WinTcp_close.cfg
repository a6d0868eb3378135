SPECIFICATION Spec
CONSTANTS
    Ops = {o1}
    SIMULTANEOUS_ACCEPTS = 1
    MaxRx = 1
    MaxFailures = 1
INVARIANT
    CloseUnderWay
