CONSTANTS
    c1 = c1
    c2 = c2
    Feed = feed
    Clients = {c1, c2}
    MaxBar = 3
    Ratio = 1
    Window = 3
    CoarseWindow = 2
    Expiry = 1
    Shapes <- FewShapes
    Setups <- OneSetup
    MaxFaults = 0
    PollCount = 4
    BackfillCount = 4
    MaxLag = 1
    MidCycle = TRUE
SPECIFICATION Spec
SYMMETRY Symmetry
INVARIANTS OpenBounded
PROPERTIES ResolvedIsFinal
