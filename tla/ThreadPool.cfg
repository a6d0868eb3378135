SPECIFICATION FairSpec
CONSTANTS
    Tasks = {t1, t2}
    MaxThreads = 3
    PD_THREADPOOL_SIZE = 2
    SendMax = 1
    ReadMax = 1
    NULL = NULL
PROPERTIES
    ServiceSpec
    TasksDelivered
    JoinReturns
INVARIANTS
    TypeOK
    CountersExact
    NoUseAfterDone
    OneHolder
    NoLostCompletion
    RefsExact
    WorkConserving
