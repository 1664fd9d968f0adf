SPECIFICATION Spec
CONSTANTS
    alice = alice
    alias = alias
    team = team
    public = public
    authenticated = authenticated
    verified = verified
    memberNode = memberNode
    Subject <- Subjects
    Public = public
    Authenticated = authenticated
    Verified = verified
    NoSubject = NoSubject
    PlainCertificates = {alias, memberNode}
    InfoCertificates = {alice}
    SubjectInfos <- Infos
    JwtSubjects = {team}
    CnSubjects = {}
    ConfiguredTrust = {}
    ClientCert = memberNode
    Whitelist = {alice, team}
    Holders = {alice, alias}
    Grantees = {team}
    Documents <- Policies
PROPERTY
    ChangedWithPermission
CHECK_DEADLOCK FALSE
