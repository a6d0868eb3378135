SPECIFICATION Spec
CONSTANTS
    Ops = {p, q}
    Files = {x, y}
    Flags <- SomeFlags
    MaxFd = 2
    NULL = NULL
SYMMETRY Symmetry
INVARIANTS
    DescriptorsExact
    PathsExact
    CreatedOnce
CHECK_DEADLOCK FALSE
