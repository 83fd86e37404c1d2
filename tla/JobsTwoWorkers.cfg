CONSTANTS
    j1 = j1
    p1 = p1
    Jobs = {j1, j2}
    Projects = {p1}
    ProjectOf <- OneProject
    KindOf <- CloneOrCreate
    Workers = {w1, w2}
    NoOwner = NoOwner
    NoJob = NoJob
    Nobody = Nobody
    User = User
    LeaseSeconds = 1
    JobRetention = 1
    MaxTime = 3
    MaxFaults = 2
    MayStepBack = TRUE
SPECIFICATION Spec
INVARIANTS
    NeverReplayed
    SucceededIsComplete
    FailedIsUndone
CHECK_DEADLOCK FALSE
