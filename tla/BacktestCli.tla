----------------------------- MODULE BacktestCli -----------------------------
(* python -m app.backtesting.cli: for each symbol the walk of                 *)
(* run_signal_backtest over three histories, then for each timeframe the walk *)
(* of run_prediction_backtest over one, each run persisted as it ends.        *)
(*                                                                            *)
(* Time is counted in 15-minute candles from the first one walked; the        *)
(* coarse histories begin before it.  A signal walk never looks past the      *)
(* candle it stands on, so its 15m history is revealed as it advances and may *)
(* end anywhere.                                                              *)
EXTENDS SignalBuilder, Prediction, SequencesExt

CONSTANTS
    Symbols, Timeframes, Kinds,    \* the settings, and the values of --kind
    Window4h, Window1h, Window15,  \* the live windows
    PredictionWindow,              \* CANDLE_WINDOW
    Expiry,                        \* signal_expiry, in 15-minute candles
    Histories4h, Histories1h,      \* what the provider may answer
    Histories,                     \* to a prediction backtest
    Candles15, MaxWalk15           \* the 15m candles it may answer, how many

ASSUME SettingsAssumption ==
    Symbols \in Seq(Range(Symbols)) /\ Timeframes \in Seq(Range(Timeframes)) /\ MaxWalk15 \in Nat

ASSUME WindowsAssumption ==
    {Window4h, Window1h, Window15, PredictionWindow, Expiry} \subseteq Nat \ {0}

(* A candle as the provider gives it.                                         *)
IsCandle(c) ==
    /\ DOMAIN c = {"open", "high", "low", "close", "volume", "at"}
    /\ {c.open, c.high, c.low, c.close, c.at} \subseteq Int /\ c.volume \in Nat
    /\ c.low <= c.open /\ c.open <= c.high /\ c.low <= c.close /\ c.close <= c.high

ASSUME CandlesAssumption ==
    /\ \A c \in Candles15 : IsCandle(c)
    /\ \A h \in Histories4h \union Histories1h \union Histories :
          h \in Seq(Range(h)) /\ \A c \in Range(h) : IsCandle(c)

VARIABLES
    agenda,    \* the jobs of main's loops still to do, the first one running
    fetched,   \* how many histories the running job has
    history,   \* those histories
    walked,    \* candles of the fine one the loop is done with
    ledger,    \* resolved_signals and, last, open_signal if there is one
    tally,     \* correct, incorrect, neutral_skipped
    rows,      \* the backtest_runs table
    alive      \* the program has not died of an exception

cvars == <<agenda, fetched, history, walked, ledger, tally, rows, alive>>

(* The timeframes of the runs of a symbol; a signal run has none.             *)
RunsOf(kind) ==
    (IF kind = "prediction" THEN <<>> ELSE <<"none">>) \o (IF kind = "signal" THEN <<>> ELSE Timeframes)

(* main's loops: symbol by symbol, the runs of each.                          *)
Agenda(kind) ==
    LET runs == RunsOf(kind)
        symbol(i) == Symbols[((i - 1) \div Len(runs)) + 1]
        timeframe(i) == runs[((i - 1) % Len(runs)) + 1]
    IN  [i \in 1..(Len(Symbols) * Len(runs)) |->
            [kind |-> IF timeframe(i) = "none" THEN "signal" ELSE "prediction",
             symbol |-> symbol(i), timeframe |-> timeframe(i)]]

NoHistory == [h4 |-> <<>>, h1 |-> <<>>, fine |-> <<>>]
NoCalls == [correct |-> 0, incorrect |-> 0, neutral |-> 0]

CliInit ==
    /\ \E kind \in Kinds : agenda = Agenda(kind)
    /\ fetched = 0 /\ history = NoHistory /\ walked = 0 /\ ledger = <<>> /\ tally = NoCalls
    /\ rows = <<>> /\ alive = TRUE

Running(kind) == alive /\ agenda # <<>> /\ agenda[1].kind = kind

Fetch4h ==
    /\ Running("signal") /\ fetched = 0
    /\ \E h \in Histories4h : history' = [history EXCEPT !.h4 = h]
    /\ fetched' = 1
    /\ UNCHANGED <<agenda, walked, ledger, tally, rows, alive>>

Fetch1h ==
    /\ Running("signal") /\ fetched = 1
    /\ \E h \in Histories1h : history' = [history EXCEPT !.h1 = h]
    /\ fetched' = 2
    /\ UNCHANGED <<agenda, walked, ledger, tally, rows, alive>>

FetchFine ==
    /\ \/ Running("signal") /\ fetched = 2 /\ UNCHANGED history
       \/ /\ Running("prediction") /\ fetched = 0
          /\ \E h \in Histories : history' = [history EXCEPT !.fine = h]
    /\ fetched' = 3
    /\ UNCHANGED <<agenda, walked, ledger, tally, rows, alive>>

(* fetch_history raises and nothing catches it: main ends.                    *)
FetchFails ==
    /\ alive /\ agenda # <<>> /\ fetched < 3
    /\ alive' = FALSE
    /\ UNCHANGED <<agenda, fetched, history, walked, ledger, tally, rows>>

-----------------------------------------------------------------------------
(* _advance: how many candles have closed by a time; the slices up to there.  *)
Pointer(candles, time) == Cardinality({i \in DOMAIN candles : \A j \in 1..i : candles[j].at <= time})
Slice(candles, pointer, n) == SubSeq(candles, Max({1, pointer - n + 1}), pointer)
AsOf(candles, time, n) == Slice(candles, Pointer(candles, time), n)

HasOpen(signals) == signals # <<>> /\ Last(signals).status = "open"
UsedTap(signals) == IF signals = <<>> THEN {} ELSE {Last(signals).opened}

Graded(signals, c) ==
    IF ~HasOpen(signals) THEN signals
    ELSE LET status == Grade(Last(signals), c, Expiry)
             closing == [Last(signals) EXCEPT !.status = status, !.closed = c.at]
         IN  IF status = "open" THEN signals ELSE Front(signals) \o <<closing>>

Seen1h(h, c) == AsOf(h.h1, c.at, Window1h)

(* What build_signal returns at a candle: nothing before warm-up.             *)
Opened(h, fine, signals, c) ==
    LET w4h == AsOf(h.h4, c.at, Window4h)
        w1h == Seen1h(h, c)
    IN  IF Len(w4h) >= Window4h /\ Len(w1h) >= Window1h /\ Len(fine) >= Window15
        THEN BuildSignal(w4h, w1h, fine, Eligible(fine, UsedTap(signals)))
        ELSE {}

(* The loop body of run_signal_backtest for one candle.  Of the fine history  *)
(* only the last window is kept.                                              *)
WalkSignal ==
    /\ Running("signal") /\ fetched = 3 /\ walked < MaxWalk15
    /\ walked' = walked + 1
    /\ \E shape \in Candles15 :
          LET c == [shape EXCEPT !.at = walked + 1]
              fine == Slice(Append(history.fine, c), Len(history.fine) + 1, Window15)
              graded == Graded(ledger, c)
              opened == IF HasOpen(graded) THEN {} ELSE Opened(history, fine, graded, c)
          IN  /\ history' = [history EXCEPT !.fine = fine]
              /\ ledger' = graded \o SetToSeq(opened)
    /\ UNCHANGED <<agenda, fetched, tally, rows, alive>>

-----------------------------------------------------------------------------
(* Variant: the window of a prediction ends with the candle it is scored by.  *)
Before_Including(candles, i) == SubSeq(candles, i - PredictionWindow + 1, i)

(* The window before a candle.                                                *)
Before(candles, i) == SubSeq(candles, i - PredictionWindow, i - 1)

Rises(candles, i) == candles[i].close > candles[i - 1].close

Scored(call, up) ==
    IF call.direction = "neutral" THEN "neutral"
    ELSE IF up = (call.direction = "bullish") THEN "correct" ELSE "incorrect"

(* The loop body of run_prediction_backtest; the loop starts behind the first *)
(* window.                                                                    *)
WalkPrediction ==
    LET i == Max({walked, PredictionWindow}) + 1
        call == RuleBased(FeatureSet(Before(history.fine, i)))
    IN  /\ Running("prediction") /\ fetched = 3 /\ i <= Len(history.fine)
        /\ walked' = i
        /\ tally' = [tally EXCEPT ![Scored(call, Rises(history.fine, i))] = @ + 1]
        /\ UNCHANGED <<agenda, fetched, history, ledger, rows, alive>>

-----------------------------------------------------------------------------
(* _summarize and the summary of a prediction run.                            *)
Summary ==
    LET count(status) == Cardinality({i \in DOMAIN ledger : ledger[i].status = status})
    IN  IF agenda[1].kind = "prediction" THEN tally
        ELSE [win |-> count("win"), loss |-> count("loss"),
              expired |-> count("expired"), open |-> count("open")]

(* A 15m history may end anywhere.                                            *)
WalkEnded ==
    /\ alive /\ agenda # <<>> /\ fetched = 3
    /\ agenda[1].kind = "prediction" => Max({walked, PredictionWindow}) >= Len(history.fine)

(* _persist, and the next job of main.                                        *)
Persist ==
    /\ WalkEnded
    /\ rows' = Append(rows, [job |-> agenda[1], summary |-> Summary])
    /\ agenda' = Tail(agenda)
    /\ fetched' = 0 /\ history' = NoHistory /\ walked' = 0 /\ ledger' = <<>> /\ tally' = NoCalls
    /\ UNCHANGED alive

(* Variant: a row that cannot be written is passed over.                      *)
PersistFails_Swallowed ==
    /\ WalkEnded
    /\ agenda' = Tail(agenda)
    /\ fetched' = 0 /\ history' = NoHistory /\ walked' = 0 /\ ledger' = <<>> /\ tally' = NoCalls
    /\ UNCHANGED <<rows, alive>>

(* The database refuses the row, and main ends.                               *)
PersistFails ==
    /\ WalkEnded
    /\ alive' = FALSE
    /\ UNCHANGED <<agenda, fetched, history, walked, ledger, tally, rows>>

CliNext ==
    \/ Fetch4h \/ Fetch1h \/ FetchFine \/ FetchFails
    \/ WalkSignal \/ WalkPrediction
    \/ Persist \/ PersistFails
-----------------------------------------------------------------------------
(* Of a signal whose leg runs in the direction of the trade: the entry zone   *)
(* lies 70.5 to 79 percent back into the leg, the stop behind the candle that *)
(* swept, the target beyond the zone, and the reward is 1.8 times the risk    *)
(* with both measured in the direction of the trade.                          *)
EntryInsideLeg ==
    \A i \in DOMAIN ledger :
        LET s == ledger[i].setup
            sign == IF s.bias = "high" THEN 1 ELSE -1
            length == sign * (s.leg.end - s.leg.start)
            back(price) == sign * (Unit * s.leg.end - price)
        IN  length > 0 =>
                /\ s.low < s.high
                /\ \A price \in {s.low, s.high} :
                      /\ 705 * Unit * length <= 1000 * back(price)
                      /\ 1000 * back(price) <= 790 * Unit * length
                      /\ Beyond(s.bias, s.target, price)
                /\ Beyond(Other(s.bias), s.stop, Unit * s.leg.start)
                /\ 10 * sign * (2 * s.target - Middle(s)) >= 18 * sign * (Middle(s) - 2 * s.stop)

(* What a stop is: behind the entry, against the direction of the trade.      *)
StopBehindEntry ==
    \A i \in DOMAIN ledger :
        LET s == ledger[i].setup
        IN  Beyond(Other(s.bias), 2 * s.stop, Middle(s))

(* The target of a signal is resting liquidity: since the swing candle that   *)
(* left it, no candle of the window has traded beyond it.                     *)
TargetUntested ==
    \A i \in DOMAIN ledger :
        ledger[i].status = "open" /\ walked = ledger[i].opened =>
            LET s == ledger[i].setup
                w == AsOf(history.h1, walked, Window1h)
            IN  \E j \in DOMAIN w :
                    /\ Unit * Level(w[j], s.bias) = s.target
                    /\ \A k \in (j + 1)..Len(w) : ~Beyond(s.bias, Unit * Level(w[k], s.bias), s.target)

(* A signal is entered by a fresh tap: one that closed after the leg it       *)
(* retraces, no later than the candle walked, and after the tap of the signal *)
(* before, which was resolved by then.                                        *)
TapsFresh ==
    \A i \in DOMAIN ledger :
        /\ ledger[i].setup.after < ledger[i].opened /\ ledger[i].opened <= walked
        /\ \A j \in 1..(i - 1) : /\ ledger[j].status # "open"
                                 /\ ledger[j].opened < ledger[i].opened

(* The structure of a window by the closes of its candles: each swing point   *)
(* that has its Lookback candles in front, with its first break and sweep.    *)
Structure(w, since) ==
    LET points == {p \in SwingPoints(w) : w[p.index].at >= since}
        times(S) == {<<w[x.point.index].at, x.point.kind, w[x.at].at>> : x \in S}
    IN  [points |-> {<<w[p.index].at, p.kind>> : p \in points},
         sweeps |-> times(Sweeps(points, w)), breaks |-> times(StructureBreaks(points, w))]

(* What the walk has seen does not change under it: a swing point, sweep or   *)
(* break once found in the hourly window is still found there as the window   *)
(* moves on, until its candles leave at the old end.                          *)
NothingRepaints ==
    [][agenda # <<>> /\ agenda[1].kind = "signal" /\ walked' = walked + 1 =>
          LET old == AsOf(history.h1, walked, Window1h)
              new == AsOf(history.h1, walked + 1, Window1h)
              since == new[1 + Lookback].at
          IN  \A field \in {"points", "sweeps", "breaks"} :
                  Structure(old, since)[field] \subseteq Structure(new, since)[field]]_cvars

(* The stretches of a fetched history that a leg could be.                    *)
Stretches == {SubSeq(history.h1, from, Len(history.h1)) : from \in DOMAIN history.h1}
Fetched1h == agenda # <<>> /\ agenda[1].kind = "signal" /\ fetched = 2

Volume(leg) == Shares * SumFunction([i \in DOMAIN leg |-> leg[i].volume])

(* The bins of a profile never hold more than the volume of the candles, and  *)
(* hold all of it when no candle stands flat at the very top of the range.    *)
VolumeKept ==
    Fetched1h => \A leg \in {s \in Stretches : HasProfile(s)} :
        LET kept == VolumeIn(Profile(leg), 0, BinCount - 1)
        IN  /\ kept <= Volume(leg)
            /\ (\A i \in DOMAIN leg : leg[i].low < RangeHigh(leg)) => kept = Volume(leg)

(* "Distributes each candle's volume evenly across the price bins its [low,   *)
(* high] range overlaps" (features/volume_profile.py:38-39): the bins of a    *)
(* profile hold the volume of its candles.                                    *)
VolumeDistributed ==
    Fetched1h => \A leg \in {s \in Stretches : HasProfile(s)} :
        VolumeIn(Profile(leg), 0, BinCount - 1) = Volume(leg)

(* The value area holds the fullest bin and 70 percent of the volume, and not *)
(* without the bin it took last, which is one of its ends.                    *)
ValueAreaHolds ==
    Fetched1h => \A leg \in {s \in Stretches : HasProfile(s)} :
        LET bins == Profile(leg)
            area == ValueArea(bins)
            poc == PocBin(bins)
            holds(from, to) == 100 * VolumeIn(bins, from, to) >= 70 * VolumeIn(bins, 0, BinCount - 1)
        IN  /\ area[1] <= poc /\ poc <= area[2] /\ holds(area[1], area[2])
            /\ \/ area = <<poc, poc>>
               \/ area[1] < poc /\ ~holds(area[1] + 1, area[2])
               \/ area[2] > poc /\ ~holds(area[1], area[2] - 1)

(* The tally of a prediction backtest is that of calls made blind: each from  *)
(* the candles before the one that judges it and from nothing later.          *)
TallyBlind ==
    agenda # <<>> /\ agenda[1].kind = "prediction" =>
        LET judged == {i \in (PredictionWindow + 1)..Len(history.fine) : i <= walked}
            blind(i) == [k \in 1..PredictionWindow |-> history.fine[i - PredictionWindow + k - 1]]
            direction(i) == RuleBased(FeatureSet(blind(i))).direction
            rose(i) == history.fine[i].close > history.fine[i - 1].close
        IN  /\ tally.neutral = Cardinality({i \in judged : direction(i) = "neutral"})
            /\ tally.correct = Cardinality({i \in judged : \/ direction(i) = "bullish" /\ rose(i)
                                                           \/ direction(i) = "bearish" /\ ~rose(i)})
            /\ tally.correct + tally.incorrect + tally.neutral = Cardinality(judged)

(* Every job of the program is persisted once, in its turn, or still to do.   *)
(* A fetch or a commit that fails ends the program and loses no run that      *)
(* ended before it, and no later job runs as if nothing had happened.         *)
RunsKept ==
    \E kind \in Kinds : [i \in DOMAIN rows |-> rows[i].job] \o agenda = Agenda(kind)
=============================================================================
