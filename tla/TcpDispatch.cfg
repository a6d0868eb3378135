SPECIFICATION FairSpec
CONSTANTS
    Streams = {a, b}
    Server = server
    NULL = NULL
    MaxFd = 3
    MaxBacklog = 1
    Careful = TRUE
PROPERTIES
    BacklogServed
INVARIANTS
    EventsGoHome
    NoSocketLost
    RefsExact
