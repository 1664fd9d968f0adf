SPECIFICATION Spec
CONSTANTS
    p1 = p1
    p2 = p2
    Pid = {p1, p2}
    Runs = {run1, run2}
    None = None
    MaxAttempts = 2
    MaxVersion <- Changes
    MaxCrashes = 1
INVARIANTS
    TypeOK
    FailedIsExhausted
PROPERTIES
    Follows
    RequestsEnd
    RequestsServed
CHECK_DEADLOCK FALSE
