CONSTANTS
    c1 = c1
    u1 = u1
    s1 = s1
    s2 = s2
    Workspaces = {w1, w2}
    Contexts = {c1, c2}
    NoContext = NoContext
    Users = {u1}
    UserOf <- OneUser
    Sessions = {s1, s2}
    SessionOf <- TwoSessions
    TicketTtl = 2
    LeaseTtl = 1
    AbsoluteLease = 2
    AdmissionWindow = 1
    MaxRecords = 3
    MaxWriters = 1
    MaxPerAdmin = 2
    MaxLease = 4
    MaxTime = 2
SYMMETRY WorkspaceSymmetry
SPECIFICATION Spec
INVARIANTS
    WithinCapacity
    OpenPtyHoldsSlot
CHECK_DEADLOCK FALSE
