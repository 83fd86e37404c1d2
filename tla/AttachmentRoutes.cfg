CONSTANTS
    u1 = u1
    s1 = s1
    Workspaces = {w1}
    Contexts = {c1}
    NoContext = NoContext
    Users = {u1}
    UserOf <- OneUser
    Sessions = {s1}
    SessionOf <- OneSession
    TicketTtl = 1
    LeaseTtl = 1
    AbsoluteLease = 2
    AdmissionWindow = 1
    MaxRecords = 2
    MaxWriters = 1
    MaxPerAdmin = 2
    MaxLease = 2
    MaxTime = 2
    Conns = {1, 2}
SPECIFICATION FairSpec
INVARIANTS
    AuthorityHasARoute
    AuditIsComplete
PROPERTIES
    ImplementsAuthority
    AdmissionsEnd
    RoutesDrain
CHECK_DEADLOCK FALSE
