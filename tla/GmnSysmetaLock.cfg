SPECIFICATION LockSpec
CONSTANTS
    Pids = {p1, p2}
    Sids = {s1}
    RemoteDid <- NoDocs
    ChainId = {c1, c2}
    None = None
    MaxRelinks = 1
    MaxHeld = 1
    Foreign <- NoDocs
SYMMETRY Symmetry
INVARIANTS
    NoClientUpdateLost
CHECK_DEADLOCK FALSE
