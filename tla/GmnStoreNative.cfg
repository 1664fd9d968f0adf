SPECIFICATION NativeSpec
CONSTANTS
    rev1 = rev1
    rev2 = rev2
    rev3 = rev3
    series = series
    Pids = {p1, p2, p3}
    Sids = {s1, s2}
    RemoteDid <- NoDocs
    ChainId = {c1, c2}
    None = None
    MaxRelinks = 1
    Foreign <- NoDocs
SYMMETRY Symmetry
INVARIANTS
    TypeOK
    EveryObjectDeletable
    ChainsPartitionObjects
    HeadIsNewest
    LinksToNeighbours
    BytesPresent
PROPERTIES
    KeepsSeries
    DeletedPidReusable
    SeriesKept
CHECK_DEADLOCK FALSE
