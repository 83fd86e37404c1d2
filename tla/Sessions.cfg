CONSTANTS
    Agents = {claude}
    Requests = {r1, r2}
    Digests = {d1, d2}
    NoDigest = NoDigest
    NoRow = NoRow
    NoAgent = NoAgent
    MaxGen = 2
    MaxEpoch = 2
    MaxFaults = 1
    MaxCrashes = 1
SPECIFICATION FairSpec
INVARIANTS
    PendingStopOwnsRow
    LiveIsProven
    StoppedIsFinal
PROPERTIES
    StoppingSettles
    RequestsEnd
