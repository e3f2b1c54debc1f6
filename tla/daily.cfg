CONSTANTS
    c1 = c1
    c2 = c2
    Feed = feed
    Clients = {}
    MaxBar = 6
    Ratio = 2
    Window = 2
    CoarseWindow = 1
    Expiry = 2
    Shapes <- AllShapes
    Setups <- LaterSetups
    MaxFaults = 0
    PollCount = 3
    BackfillCount = 3
    MaxLag = 1
    MidCycle = FALSE
SPECIFICATION Spec
INVARIANTS NotGradedByOwnCandle GradedByFirstHit CoarseIsFresh
PROPERTIES LiveMatchesBacktest
