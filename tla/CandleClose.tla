----------------------------- MODULE CandleClose -----------------------------
(* One pipeline (data source) and one symbol of it: the candle tables, the   *)
(* signal and prediction tables, the handlers the feed task runs on a closed *)
(* 15-minute candle (PredictionService, SignalTracker, SignalService, in     *)
(* this order) and the HTTP requests that run the same signal construction   *)
(* (GET /signals/{symbol}/latest).                                           *)
(*                                                                           *)
(* The backend is one asyncio event loop, so tasks interleave only where     *)
(* they await the database: one action per await that reads or commits.      *)
(* The feed service that fetches candles and persists them is the module     *)
(* that extends this one.                                                    *)
EXTENDS SignalRules, Sequences

CONSTANTS
    Clients,      \* concurrent GET /signals/{symbol}/latest requests
    Feed,         \* the feed service's task for this symbol
    MaxBar,       \* bound: number of 15-minute bars the market closes
    Ratio,        \* 15-minute bars in one coarse bar (1H and 4H taken as one)
    Window,       \* CANDLE_WINDOW_15M
    CoarseWindow, \* CANDLE_WINDOW_1H and CANDLE_WINDOW_4H
    Expiry,       \* DEFAULT_EXPIRY, in bars
    Shapes,       \* the sets of levels one bar may touch
    Setups,       \* the setups the coarse candles may hold
    MaxFaults     \* bound: failures and crashes in a behaviour

ASSUME FeedAssumption == Feed \notin Clients /\ IsFiniteSet(Clients)
ASSUME BoundsAssumption ==
    /\ MaxBar \in Nat /\ Expiry \in Nat /\ MaxFaults \in Nat
    /\ Ratio \in Nat \ {0} /\ Window \in Nat \ {0}
    /\ CoarseWindow \in Nat \ {0}
ASSUME ShapesAssumption == Shapes \subseteq SUBSET Touches
ASSUME SetupsAssumption == Setups \subseteq [born : Nat, dead : Nat]

VARIABLES
    market,       \* the bars that closed so far, oldest first
    setup,        \* the setup hidden in this market's coarse candles
    stored,       \* 15-minute candle table
    coarse,       \* coarse candle table
    signals,      \* signal table, in order of id
    predictions,  \* prediction table: the bar each row was logged for
    queue,        \* closed candles the feed task has yet to hand to the handlers
    bar,          \* the candle the handlers run on, or ran on last
    tracked,      \* SignalTracker: ids it still has to write an outcome for
    pc,           \* the next await of each task that builds signals
    local,        \* what that task has read so far
    faults        \* failures so far

marketVars == <<market, setup>>
candleVars == <<stored, coarse>>
feedVars == <<queue, bar, tracked>>
taskVars == <<pc, local>>
coreVars == <<market, setup, stored, coarse, signals, predictions, queue, bar,
              tracked, pc, local, faults>>

Bars == 1..MaxBar
CoarseBars == {k \in Bars : k * Ratio <= MaxBar}
Tasks == Clients \union {Feed}

Steps == {"idle", "track", "resolve", "check", "coarse", "m15", "build", "save"}

(* `asof` is the newest 15-minute candle the builder had read (not a column  *)
(* of the table: it records what was known when the row was built).          *)
Rows == [opened : Bars, asof : Bars, status : Statuses, closed : 0..MaxBar]

Locals == [coarse : SUBSET CoarseBars, m15 : SUBSET Bars,
           tap : 0..MaxBar, asof : 0..MaxBar]
NoLocal == [coarse |-> {}, m15 |-> {}, tap |-> 0, asof |-> 0]

Ids == DOMAIN signals
OpenIds == {i \in Ids : signals[i].status = "open"}
UsedTaps == {signals[i].opened : i \in Ids}

ClosedBars == 1..Len(market)
ClosedCoarse == {k \in CoarseBars : k * Ratio <= Len(market)}

CoreInit ==
    /\ market = <<>>
    /\ setup \in Setups
    /\ stored = {} /\ coarse = {}
    /\ signals = <<>> /\ predictions = <<>>
    /\ queue = {} /\ bar = 0 /\ tracked = {}
    /\ pc = [p \in Tasks |-> "idle"]
    /\ local = [p \in Tasks |-> NoLocal]
    /\ faults = 0

CanFail == faults < MaxFaults

-----------------------------------------------------------------------------
(* The handlers of one closed candle.  The feed task enters with Predict and *)
(* is back in the feed service's own code when its step is "idle" again.     *)

Idle(p) ==
    /\ pc' = [pc EXCEPT ![p] = "idle"]
    /\ local' = [local EXCEPT ![p] = NoLocal]

Goto(p, step) == pc' = [pc EXCEPT ![p] = step]

(* PredictionService.on_candle_closed: every call logs one more row. *)
Predict ==
    /\ pc[Feed] = "idle"
    /\ \E b \in queue :
        /\ IsOldest(b, queue)
        /\ queue' = queue \ {b}
        /\ bar' = b
        /\ predictions' = Append(predictions, b)
    /\ Goto(Feed, "track")
    /\ UNCHANGED <<marketVars, candleVars, signals, tracked, local, faults>>

(* Variants: SignalTracker reads every row instead of the open ones; it does *)
(* not look at the stop.                                                     *)
Graded_EveryRow(b) == {i \in Ids : Outcome(market[b], signals[i].opened, b, Expiry) # "open"}
Graded_NoStop(b) ==
    {i \in OpenIds : Outcome(market[b] \ {"stop"}, signals[i].opened, b, Expiry) # "open"}

Graded(b) == {i \in OpenIds : Outcome(market[b], signals[i].opened, b, Expiry) # "open"}

(* SignalTracker.on_candle_closed up to and including get_open; which rows   *)
(* the loop will write is decided by what this read returned.                *)
TrackerRead ==
    /\ pc[Feed] = "track"
    /\ tracked' = Graded(bar)
    /\ Goto(Feed, IF Graded(bar) = {} THEN "check" ELSE "resolve")
    /\ UNCHANGED <<marketVars, candleVars, signals, predictions, queue, bar, local, faults>>

(* One update_outcome commit of that loop; the row is written whatever its   *)
(* status is by now.                                                         *)
TrackerResolve ==
    /\ pc[Feed] = "resolve"
    /\ \E i \in tracked :
        /\ signals' = [signals EXCEPT
              ![i].status = Outcome(market[bar], signals[i].opened, bar, Expiry),
              ![i].closed = bar]
        /\ tracked' = tracked \ {i}
        /\ Goto(Feed, IF tracked = {i} THEN "check" ELSE "resolve")
    /\ UNCHANGED <<marketVars, candleVars, predictions, queue, bar, local, faults>>

-----------------------------------------------------------------------------
(* SignalService.on_candle_closed and get_latest_signal: the same reads and  *)
(* the same save, run by the feed task for a candle or by a client's request.*)

MayCheck(p) == pc[p] = IF p = Feed THEN "check" ELSE "idle"

(* Variant: no get_open guard. *)
CheckOpen_NoGuard(p) ==
    /\ MayCheck(p)
    /\ Goto(p, "coarse")
    /\ UNCHANGED <<marketVars, candleVars, signals, predictions, feedVars, local, faults>>

CheckOpen(p) ==
    /\ MayCheck(p)
    /\ IF OpenIds = {} THEN Goto(p, "coarse") ELSE Goto(p, "idle")
    /\ UNCHANGED <<marketVars, candleVars, signals, predictions, feedVars, local, faults>>

ReadCoarse(p) ==
    /\ pc[p] = "coarse"
    /\ local' = [local EXCEPT ![p].coarse = Recent(coarse, CoarseWindow)]
    /\ Goto(p, "m15")
    /\ UNCHANGED <<marketVars, candleVars, signals, predictions, feedVars, faults>>

(* Variant: one candle too many in the window. *)
ReadM15_LongWindow(p) ==
    /\ pc[p] = "m15"
    /\ local' = [local EXCEPT ![p].m15 = Recent(stored, Window + 1)]
    /\ Goto(p, "build")
    /\ UNCHANGED <<marketVars, candleVars, signals, predictions, feedVars, faults>>

ReadM15(p) ==
    /\ pc[p] = "m15"
    /\ local' = [local EXCEPT ![p].m15 = Recent(stored, Window)]
    /\ Goto(p, "build")
    /\ UNCHANGED <<marketVars, candleVars, signals, predictions, feedVars, faults>>

(* The taps build_signal can choose from, once the signal table's newest tap *)
(* has been read.                                                            *)
BuildTaps(p) ==
    IF SetupKnown(setup, local[p].coarse)
    THEN EntryTaps(local[p].m15, UsedTaps, setup.born * Ratio, market)
    ELSE {}

(* Read of the most recent signal, eligible_entry_candles and build_signal:  *)
(* no await between them.                                                    *)
BuildNone(p) ==
    /\ pc[p] = "build"
    /\ BuildTaps(p) = {}
    /\ Idle(p)
    /\ UNCHANGED <<marketVars, candleVars, signals, predictions, feedVars, faults>>

BuildFound(p) ==
    /\ pc[p] = "build"
    /\ \E t \in BuildTaps(p), n \in local[p].m15 :
        /\ IsNewest(t, BuildTaps(p))
        /\ IsNewest(n, local[p].m15)
        /\ local' = [local EXCEPT ![p] = [coarse |-> {}, m15 |-> {}, tap |-> t, asof |-> n]]
    /\ Goto(p, "save")
    /\ UNCHANGED <<marketVars, candleVars, signals, predictions, feedVars, faults>>

(* SignalRepository.save: no constraint of the table refuses the row. *)
Save(p) ==
    /\ pc[p] = "save"
    /\ signals' = Append(signals, [opened |-> local[p].tap, asof |-> local[p].asof,
                                   status |-> "open", closed |-> 0])
    /\ Idle(p)
    /\ UNCHANGED <<marketVars, candleVars, predictions, feedVars, faults>>

BuildStep(p) ==
    \/ CheckOpen(p) \/ ReadCoarse(p) \/ ReadM15(p)
    \/ BuildNone(p) \/ BuildFound(p) \/ Save(p)

HandlerStep == Predict \/ TrackerRead \/ TrackerResolve \/ BuildStep(Feed)

RestStep == \E c \in Clients : BuildStep(c)

-----------------------------------------------------------------------------
(* PredictionService raises on a candle: it is dropped before the other two  *)
(* handlers see it.                                                          *)
PredictFails ==
    /\ CanFail
    /\ pc[Feed] = "idle"
    /\ \E b \in queue : IsOldest(b, queue) /\ queue' = queue \ {b} /\ bar' = b
    /\ faults' = faults + 1
    /\ UNCHANGED <<marketVars, candleVars, signals, predictions, tracked, taskVars>>

(* A later handler raises: the rest of this candle's work is dropped, what   *)
(* was committed stays.                                                      *)
HandlerFails ==
    /\ CanFail
    /\ pc[Feed] # "idle"
    /\ Idle(Feed)
    /\ tracked' = {}
    /\ faults' = faults + 1
    /\ UNCHANGED <<marketVars, candleVars, signals, predictions, queue, bar>>

(* The process stops: every task's progress is lost, the tables stay. *)
LoseMemory ==
    /\ queue' = {} /\ bar' = 0 /\ tracked' = {}
    /\ pc' = [p \in Tasks |-> "idle"]
    /\ local' = [p \in Tasks |-> NoLocal]
    /\ UNCHANGED <<marketVars, candleVars, signals, predictions>>

(* The market closes one more bar, touching the levels of some shape. *)
CloseBar ==
    /\ Len(market) < MaxBar
    /\ \E shape \in Shapes : market' = Append(market, shape)
    /\ UNCHANGED <<setup, candleVars, signals, predictions, feedVars, taskVars, faults>>

-----------------------------------------------------------------------------
CoreTypeOK ==
    /\ market \in Seq(Shapes) /\ Len(market) <= MaxBar
    /\ setup \in Setups
    /\ stored \subseteq ClosedBars /\ coarse \subseteq CoarseBars
    /\ signals \in Seq(Rows)
    /\ predictions \in Seq(Bars)
    /\ queue \subseteq stored /\ bar \in {0} \union stored
    /\ tracked \subseteq Ids
    /\ pc \in [Tasks -> Steps]
    /\ local \in [Tasks -> Locals]
    /\ faults \in 0..MaxFaults

(* Tasks that found no open signal and have not saved one yet. *)
PastCheck == {p \in Tasks : pc[p] \in {"coarse", "m15", "build", "save"}}

(* A symbol never has more open signals than tasks that can be between the   *)
(* get_open guard and the save at once; with no HTTP client it is the "one   *)
(* open signal per symbol at a time" of SignalService.                       *)
OpenBounded == Cardinality(OpenIds) + Cardinality(PastCheck) <= Cardinality(Clients) + 1

(* "One open signal per symbol at a time" (signal_service.py:59). *)
OneOpen == Cardinality(OpenIds) <= 1

(* A tap candle opens one signal at most, and rows are opened in the order   *)
(* of their taps (eligible_entry_candles against the newest row).            *)
TapsIncrease == \A i, j \in Ids : i < j => signals[i].opened < signals[j].opened

(* No signal is graded by a candle that had already been read when it was    *)
(* built (main.py:54-57).                                                    *)
NotGradedByOwnCandle == \A i \in Ids \ OpenIds : signals[i].closed > signals[i].asof

(* A resolved signal was resolved by the first candle that came after it was *)
(* built and that resolve_signal grades, with that candle's outcome.         *)
GradedByFirstHit ==
    \A i \in Ids \ OpenIds :
        LET row == signals[i]
            grade(b) == Outcome(market[b], row.opened, b, Expiry)
        IN /\ grade(row.closed) = row.status
           /\ \A b \in (row.asof + 1)..(row.closed - 1) : grade(b) = "open"

(* Once the feed task has handled every candle it stored, no signal is open  *)
(* that a stored candle newer than the signal would have resolved            *)
(* (docs/signal-method.md:81: every open signal, each new candle).           *)
NoMissedGrade ==
    (queue = {} /\ pc[Feed] = "idle") =>
        \A i \in OpenIds : \A b \in stored :
            b > signals[i].asof => Outcome(market[b], signals[i].opened, b, Expiry) = "open"

(* PredictionService logs each bar once, in the order the bars closed.       *)
PredictedOnce ==
    \A i, j \in DOMAIN predictions : i < j => predictions[i] < predictions[j]

(* A resolved row never changes again, and no row is ever deleted or moved.  *)
ResolvedIsFinal ==
    [][\A i \in Ids :
          /\ i \in DOMAIN signals'
          /\ signals[i].status # "open" => signals'[i] = signals[i]
          /\ signals'[i].opened = signals[i].opened]_coreVars
=============================================================================
