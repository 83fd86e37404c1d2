CONSTANTS
    j1 = j1
    p1 = p1
    Jobs = {j1}
    Projects = {p1}
    ProjectOf <- OneProject
    KindOf <- OnlyGit
    Workers = {w1}
    NoOwner = NoOwner
    NoJob = NoJob
    Nobody = Nobody
    User = User
    LeaseSeconds = 1
    JobRetention = 1
    MaxTime = 3
    MaxFaults = 1
    MayStepBack = FALSE
SPECIFICATION FairSpec
PROPERTIES
    OrphanIsRecovered
CHECK_DEADLOCK FALSE
