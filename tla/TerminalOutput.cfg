\* Three frames without a line break fill the ring; a read of two lines is a burst.
SPECIFICATION Spec
CONSTANTS
    Capacity = 3
    LineLimit = 1
    MaxRead = 2
    Budget = 5
    Overhead = 1
    MaxCursor = 6
INVARIANTS
    OutputIsInOrder
    OnlyBurstsAreLost
CHECK_DEADLOCK FALSE
