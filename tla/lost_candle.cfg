CONSTANTS
    c1 = c1
    c2 = c2
    Feed = feed
    Clients = {}
    MaxBar = 4
    Ratio = 1
    Window = 3
    CoarseWindow = 2
    Expiry = 2
    Shapes <- FewShapes
    Setups <- OneSetup
    MaxFaults = 1
    PollCount = 4
    BackfillCount = 4
    MaxLag = 1
    MidCycle = TRUE
SPECIFICATION Spec
INVARIANTS NoMissedGrade
