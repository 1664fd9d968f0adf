SPECIFICATION ImportSpec
CONSTANTS
    rev1 = rev1
    rev2 = rev2
    rev3 = rev3
    series = series
    Pids = {p1}
    Sids = {s1}
    RemoteDid <- Remote
    ChainId = {c1, c2, c3, c4}
    None = None
    MaxRelinks = 1
    Foreign <- Series
SYMMETRY Symmetry
INVARIANTS
    EveryObjectInChain
CHECK_DEADLOCK FALSE
