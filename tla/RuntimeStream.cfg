SPECIFICATION Spec
CONSTANTS
    Attachments = {a1, a2}
    None = None
    ProcessStates = {"RUNNING", "NEEDS_INTERACTION", "EXITED"}
    MaxAuthority = 2
SYMMETRY Symmetry
INVARIANTS
    ReleasedIsFenced
    TransferIsClean
PROPERTIES
    ImplementsSlot
    OutputIsCurrent
CHECK_DEADLOCK FALSE
