SPECIFICATION Spec
CONSTANTS
    Total = 5
    PageSize = 2
    Workers = {w1, w2}
    QueueSize = 3
    TaskQueueSize = 1
    FetchFails = TRUE
    None = None
INVARIANTS
    TypeOK
    AllSubmitted
PROPERTIES
    Streams
    NextReturns
    CloseReturns
CHECK_DEADLOCK FALSE
