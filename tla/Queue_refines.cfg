SPECIFICATION Spec
CONSTANTS
    Queues = {finished_tasks, tasks_done}
    Nodes = {n1, n2, n3, n4}
    NULL = NULL
INVARIANTS
    WellLinked
PROPERTIES
    FifoSpec
