SPECIFICATION Spec
CONSTANTS
  Lookback = 1
  AtrPeriod = 2
  BinCount = 4
  Shares = 12
  FastPeriod = 1
  SlowPeriod = 5
  RsiPeriod = 2
  MomentumPeriod = 1
  VolatilityPeriod = 2
  Symbols <- OneSymbol
  Timeframes <- OneTimeframe
  Kinds = {"both"}
  Window4h = 5
  Window1h = 8
  Window15 = 2
  PredictionWindow = 5
  Expiry = 1
  Histories4h <- SomeHistories4h
  Histories1h <- SomeHistories1h
  Candles15 <- SomeCandles15
  Histories <- SomeHistories
  MaxWalk15 = 4
  Pairs <- TwoPairs
  TrainingWindow = 5
  MinExamples = 5
  TrainingHistories <- SomeTrainingHistories
  LiveWindows <- SomeLiveWindows
  Probabilities <- SomeProbabilities
  Strategies = {"rule_based", "ml"}
  NoModel = NoModel
  Torn = Torn
  Unread = Unread
INVARIANTS EntryInsideLeg TargetUntested TapsFresh VolumeKept ValueAreaHolds TallyBlind RunsKept
  ConfidenceEarned ServedWhole HoldoutUnseen
PROPERTIES NothingRepaints
CHECK_DEADLOCK FALSE
