------------------------- MODULE TradingViewPipeline -------------------------
(* TradingViewFeedService for one symbol, composed with the candle-close     *)
(* handlers and the HTTP requests of CandleClose.                            *)
(*                                                                           *)
(* A poll cycle fetches the newest candles of each timeframe, the coarse one *)
(* first, stores those it did not have in one commit, and only then runs the *)
(* handlers on each of them in order.  A start of the process backfills each *)
(* timeframe (the fine one first) without running any handler.               *)
EXTENDS CandleClose

CONSTANTS
    PollCount,      \* _POLL_FETCH_COUNT
    BackfillCount,  \* _BACKFILL_CANDLE_COUNT
    MaxLag,         \* bound: bars the market may close ahead of the newest stored one
    MidCycle        \* whether a bar may close while a poll cycle is in progress

ASSUME FetchAssumption ==
    /\ PollCount \in Nat \ {0} /\ BackfillCount \in Nat \ {0}
    /\ MaxLag \in Nat \ {0} /\ MidCycle \in BOOLEAN

VARIABLE stage    \* what the feed service does next when no candle is queued

vars == <<market, setup, stored, coarse, signals, predictions, queue, bar,
          tracked, pc, local, faults, stage>>

Stages == {"backfill_m15", "backfill_coarse", "poll_coarse", "poll_m15"}

Init == CoreInit /\ stage = "backfill_m15"

(* The feed task runs its own code, not a handler. *)
InFeed == queue = {} /\ pc[Feed] = "idle"

(* HTTP is served once the start-up backfill is over. *)
Serving == stage \notin {"backfill_m15", "backfill_coarse"}

(* Variant: the forming bar is kept. *)
Fetched_Forming(closed, n) == Recent(closed \union {Len(market) + 1}, n)

(* fetch_candles(n) and _split_forming: the last of the n bars returned is   *)
(* still forming, so n - 1 closed ones are left.                             *)
Fetched(closed, n) == Recent(closed, n - 1)

-----------------------------------------------------------------------------
(* _backfill_one for the 15-minute candles, then for the coarse ones: a      *)
(* table that holds BackfillCount rows is left as it is.                     *)
BackfillM15 ==
    /\ stage = "backfill_m15"
    /\ stored' = IF Cardinality(Recent(stored, BackfillCount)) >= BackfillCount
                 THEN stored
                 ELSE stored \union Fetched(ClosedBars, BackfillCount)
    /\ stage' = "backfill_coarse"
    /\ UNCHANGED <<marketVars, coarse, signals, predictions, feedVars, taskVars, faults>>

BackfillCoarse ==
    /\ stage = "backfill_coarse"
    /\ coarse' = IF Cardinality(Recent(coarse, BackfillCount)) >= BackfillCount
                 THEN coarse
                 ELSE coarse \union Fetched(ClosedCoarse, BackfillCount)
    /\ stage' = "poll_coarse"
    /\ UNCHANGED <<marketVars, stored, signals, predictions, feedVars, taskVars, faults>>

(* An expected error while backfilling a timeframe: that one starts cold. *)
BackfillFails ==
    /\ CanFail
    /\ ~Serving
    /\ stage' = IF stage = "backfill_m15" THEN "backfill_coarse" ELSE "poll_coarse"
    /\ faults' = faults + 1
    /\ UNCHANGED <<marketVars, candleVars, signals, predictions, feedVars, taskVars>>

(* Variant: the last closed bar is dropped together with the forming one. *)
PollCoarse_DropsClosed ==
    /\ stage = "poll_coarse"
    /\ InFeed
    /\ coarse' = coarse \union
          {k \in Fetched(ClosedCoarse, PollCount) : ~IsNewest(k, ClosedCoarse)}
    /\ stage' = "poll_m15"
    /\ UNCHANGED <<marketVars, stored, signals, predictions, feedVars, taskVars, faults>>

(* _poll_one for the coarse timeframe.  Its closed candles go through the    *)
(* handlers too, but SignalTracker and SignalService ignore every timeframe  *)
(* other than 15 minutes.                                                    *)
PollCoarse ==
    /\ stage = "poll_coarse"
    /\ InFeed
    /\ coarse' = coarse \union Fetched(ClosedCoarse, PollCount)
    /\ stage' = "poll_m15"
    /\ UNCHANGED <<marketVars, stored, signals, predictions, feedVars, taskVars, faults>>

(* Variants: every fetched candle counts as new; only the newest one does.   *)
NewlyClosed_NoDiff == Fetched(ClosedBars, PollCount)
NewlyClosed_NewestOnly ==
    {b \in Fetched(ClosedBars, PollCount) \ Recent(stored, PollCount) :
        IsNewest(b, ClosedBars)}

NewlyClosed == Fetched(ClosedBars, PollCount) \ Recent(stored, PollCount)

(* _poll_one for the 15-minute timeframe: the whole fetched window is one    *)
(* commit, then the candles that were new wait for the handlers.             *)
PollM15 ==
    /\ stage = "poll_m15"
    /\ stored' = stored \union Fetched(ClosedBars, PollCount)
    /\ queue' = NewlyClosed
    /\ stage' = "poll_coarse"
    /\ UNCHANGED <<marketVars, coarse, signals, predictions, bar, tracked, taskVars, faults>>

(* The fetch raises: _run drops the cycle, backs off and starts a new one. *)
FetchFails ==
    /\ CanFail
    /\ stage = "poll_m15"
    /\ stage' = "poll_coarse"
    /\ faults' = faults + 1
    /\ UNCHANGED <<marketVars, candleVars, signals, predictions, feedVars, taskVars>>

(* SQLAlchemyError while storing one timeframe: logged, and the cycle goes   *)
(* on with the next one.                                                     *)
PersistFails ==
    /\ CanFail
    /\ Serving /\ InFeed
    /\ stage' = IF stage = "poll_coarse" THEN "poll_m15" ELSE "poll_coarse"
    /\ faults' = faults + 1
    /\ UNCHANGED <<marketVars, candleVars, signals, predictions, feedVars, taskVars>>

(* The process stops at any await and starts again. *)
Restart ==
    /\ CanFail
    /\ LoseMemory
    /\ stage' = "backfill_m15"
    /\ faults' = faults + 1

-----------------------------------------------------------------------------
Unstored == {b \in ClosedBars : \A s \in stored : s < b}

(* The market, within the two assumptions on its pace. *)
MarketStep ==
    /\ Cardinality(Unstored) < MaxLag
    /\ MidCycle \/ (stage = "poll_coarse" /\ InFeed)
    /\ CloseBar
    /\ UNCHANGED stage

FeedStep ==
    \/ BackfillM15 \/ BackfillCoarse
    \/ PollCoarse \/ PollM15
    \/ HandlerStep /\ UNCHANGED stage

FaultStep ==
    \/ BackfillFails \/ FetchFails \/ PersistFails \/ Restart
    \/ (PredictFails \/ HandlerFails) /\ UNCHANGED stage

ClientStep == Serving /\ RestStep /\ UNCHANGED stage

Next == MarketStep \/ FeedStep \/ FaultStep \/ ClientStep

Spec == Init /\ [][Next]_vars

(* The event loop keeps running a task that is ready, and every await of the *)
(* feed task completes; the market and the clients promise nothing.          *)
FairSpec == Spec /\ WF_vars(FeedStep)

-----------------------------------------------------------------------------
TypeOK == CoreTypeOK /\ stage \in Stages

(* While nothing closes in the middle of a cycle, polling the coarse         *)
(* timeframe first means that a signal is never built from coarse candles    *)
(* that lag the 15-minute candle it is built for                             *)
(* (tradingview_feed_service.py:22-28).                                      *)
CoarseIsFresh ==
    pc[Feed] = "build" =>
        \A k \in CoarseBars : k * Ratio <= bar => \E n \in local[Feed].coarse : n >= k

(* Until something fails, however candles are batched and whichever bars fall *)
(* out of the poll window: NoMissedGrade.  A restart or a handler that raises *)
(* takes it away (tradingview_feed_service.py:154, 284).                      *)
NoMissedGradeYet == faults = 0 => NoMissedGrade

(* Bars that SignalTracker has yet to see, unless something fails. *)
ToCome ==
    (IF Serving THEN Unstored ELSE {}) \union queue
        \union (IF pc[Feed] = "track" THEN {bar} ELSE {})

(* Once nothing fails any more, an open signal that is too old for a bar      *)
(* still to come, newer than everything it was built from, is resolved in the *)
(* end, and the symbol is free for the next one.                              *)
TooOld(i) == \E b \in ToCome : b > signals[i].asof /\ b > signals[i].opened + Expiry

OldSignalsResolve == ((\E i \in OpenIds : TooOld(i)) /\ ~CanFail) ~> (OpenIds = {})
=============================================================================
