SPECIFICATION Spec
CONSTANTS
    Total = 3
    PageSize = 2
    Workers = {w1, w2}
    QueueSize = 3
    TaskQueueSize = 1
    FetchFails = FALSE
    None = None
PROPERTIES
    AllYielded
CHECK_DEADLOCK FALSE
