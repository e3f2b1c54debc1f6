CONSTANTS
    c1 = c1
    c2 = c2
    Feed = feed
    Clients = {}
    MaxBar = 4
    Ratio = 1
    Window = 3
    CoarseWindow = 2
    Expiry = 2
    Shapes <- FewShapes
    Setups <- OneSetup
    MaxFaults = 2
    PollCount = 3
    BackfillCount = 3
    MaxLag = 3
    MidCycle = TRUE
SPECIFICATION FairSpec
INVARIANTS TypeOK OneOpen TapsIncrease PredictedOnce NoMissedGradeYet
PROPERTIES ResolvedIsFinal OldSignalsResolve
