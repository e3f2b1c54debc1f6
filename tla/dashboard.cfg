CONSTANTS
    Clients = {"a", "b"}
    MaxSockets = 2
    Symbols = {"xau", "eur"}
    Tasks = {"xau", "eur", "_run"}
    Timeframes = 2
    SignalTimeframe = 2
    MaxDelay = 3
    Budgets <- Scenarios
SPECIFICATION FairSpec
INVARIANTS TypeOK CycleWhole StatusInStep ShowsOpenSignals
PROPERTIES ResolvedStays FormingNeverBehind Recovers
