SPECIFICATION Spec
CONSTANTS
  Lookback = 2
  AtrPeriod = 14
  BinCount = 4
  Shares = 12
  FastPeriod = 1
  SlowPeriod = 5
  RsiPeriod = 2
  MomentumPeriod = 1
  VolatilityPeriod = 2
  Symbols <- OneSymbol
  Timeframes <- OneTimeframe
  Kinds = {"signal"}
  Window4h = 6
  Window1h = 14
  Window15 = 2
  PredictionWindow = 5
  Expiry = 1
  Histories4h <- InvertedHistories4h
  Histories1h <- InvertedHistories1h
  Candles15 <- SomeCandles15
  Histories <- SomeHistories
  MaxWalk15 = 4
  Pairs <- TwoPairs
  TrainingWindow = 5
  MinExamples = 5
  TrainingHistories <- SomeTrainingHistories
  LiveWindows <- SomeLiveWindows
  Probabilities <- SomeProbabilities
  Strategies = {"rule_based", "ml"}
  NoModel = NoModel
  Torn = Torn
  Unread = Unread
INVARIANT StopBehindEntry
CHECK_DEADLOCK FALSE
