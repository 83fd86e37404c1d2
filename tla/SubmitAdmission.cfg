SPECIFICATION FairSpec
CONSTANTS
    Processes = {p1, p2}
    Requests = {r1, r2}
    SlotOf <- OneSlot
    Executions = {x1}
    MaxRecords = 2
    MaxRefs = 2
INVARIANTS
    EffectAtMostOnce
    RecordIsTruthful
    TurnHoldsSlot
PROPERTIES
    BodiesAreReleased
CHECK_DEADLOCK FALSE
