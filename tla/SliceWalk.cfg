SPECIFICATION MCSpec
CONSTANTS
    c1 = c1
    c2 = c2
    Kinds = {"objects", "log"}
    Process = {w1, w2}
    Client = {c1, c2}
    PageSize <- Counts
    MaxSlice = 2
    None = None
    Times = {1, 2, 3}
    MaxId = 3
    InitialRows <- Lists
    MaxSteps = 2
    MaxWalks = 2
INVARIANTS
    TypeOK
PROPERTIES
    AppendedRowsJoinUp
    QuietWalkComplete
    UntouchedRowsOnce
    WalksEnd
CHECK_DEADLOCK FALSE
