CONSTANTS
    Lengths <- OneAndTwo
    MaxDelay = 3
    BackfillCount = 2
    Depth = 0
    Forming = FALSE
    Late = 0
    Setback = 0
    MaxTime = 2
    MaxTicks = 3
    MaxFaults = 0
SPECIFICATION Spec
INVARIANTS CoarserStoredFirst
CHECK_DEADLOCK FALSE
