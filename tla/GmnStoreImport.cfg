SPECIFICATION Spec
CONSTANTS
    rev1 = rev1
    rev2 = rev2
    rev3 = rev3
    series = series
    Pids = {p1}
    Sids = {}
    RemoteDid <- Remote2
    ChainId = {c1, c2}
    None = None
    MaxRelinks = 1
    Foreign <- EarlySid
SYMMETRY Symmetry
INVARIANTS
    LocalLinksAgree
    HeadWalkEnds
    HeadIsMember
PROPERTIES
    OnlyOneObjectDeleted
    RevisionOrderKept
CHECK_DEADLOCK FALSE
