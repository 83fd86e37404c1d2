CONSTANTS
    Callers = {p1, p2}
    Sessions = {s1, s2}
    Challenges = {c1}
    Credentials = {k}
    SessionTtl = 1
    IdleTtl = 1
    SessionRetention = 0
    MaxActive = 1
    ApprovalTtl = 1
    ApprovalRetention = 0
    MaxTime = 1
    MaxEpoch = 2
    MaxChanges = 1
    MaxBatch = 1
SPECIFICATION Spec
SYMMETRY Symmetry
INVARIANTS
    SessionsKnowThePassword
    IssuedIsLive
