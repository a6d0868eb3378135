SPECIFICATION Spec
CONSTANTS
    Streams = {a, b}
    Server = server
    NULL = NULL
    MaxFd = 3
    MaxBacklog = 1
    Careful = FALSE
PROPERTY
    ReadsOwn
