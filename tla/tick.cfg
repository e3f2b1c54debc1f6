CONSTANTS
    Lengths <- OneAndTwo
    MaxDelay = 3
    BackfillCount = 2
    Depth = 2
    Forming = TRUE
    Late = 1
    Setback = 3
    MaxTime = 3
    MaxTicks = 4
    MaxFaults = 2
SPECIFICATION Spec
INVARIANTS TypeOK RowsComplete HandledAsStored HandledInOrder
PROPERTIES HealthyOnlyByTick
CHECK_DEADLOCK FALSE
