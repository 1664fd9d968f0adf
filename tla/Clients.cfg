SPECIFICATION ClientSpec
CONSTANTS
    alice = alice
    alias = alias
    team = team
    public = public
    authenticated = authenticated
    verified = verified
    memberNode = memberNode
    Subject <- Subjects
    Public = public
    Authenticated = authenticated
    Verified = verified
    NoSubject = NoSubject
    PlainCertificates = {alias, memberNode}
    InfoCertificates = {alice}
    SubjectInfos <- Infos
    JwtSubjects = {team}
    CnSubjects = {}
    ConfiguredTrust = {}
    ClientCert = memberNode
    Whitelist = {alice, team}
    Holders = {alice, alias}
    Grantees = {team}
    Documents <- Policies
    Pid = {o1, o2, o3, o4}
    NoPid = NoPid
    Pids = {p1, p2, p3, p4}
    Sids = {s1}
    None = None
    MaxChain = 4
    DiskKey = {k1, k2, k3, k4, k5}
    Limits = {3}
    NoFetch = NoFetch
    Path = {f1, f2, f3, f4}
    Thread = {t1}
    MaxItems = 3
    NoPath = NoPath
SYMMETRY Symmetry
INVARIANTS
    TypeOK
    OnlyConnectedSubjects
    EveryConnectedSubject
    SortsHistories
    ListsChain
    DiskBounded
    MemoryBounded
PROPERTIES
    
    EditsTakeEffect
CHECK_DEADLOCK FALSE
