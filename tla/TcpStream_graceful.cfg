SPECIFICATION Spec
CONSTANTS
    Ops = {o1}
    Size = 1
    Room = 1
    MaxRx = 2
PROPERTY
    ShutdownReadsAll
CHECK_DEADLOCK FALSE
