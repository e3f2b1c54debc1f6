CONSTANTS
    c1 = c1
    c2 = c2
    Feed = feed
    Clients = {}
    MaxBar = 4
    Ratio = 1
    Window = 3
    CoarseWindow = 2
    Expiry = 2
    Shapes <- AllShapes
    Setups <- OneSetup
    MaxFaults = 0
    PollCount = 4
    BackfillCount = 4
    MaxLag = 2
    MidCycle = TRUE
SPECIFICATION Spec
INVARIANTS NotGradedByOwnCandle
