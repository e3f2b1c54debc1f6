----------------------------- MODULE TickPipeline -----------------------------
(* FeedService for one symbol: the backfill, the reconnecting tick stream,    *)
(* CandleAggregator and the persistence of the candles it closes, up to the   *)
(* call of the candle-close handlers (whose work is the module CandleClose).  *)
(*                                                                            *)
(* A candle is the set of ticks it was made of; its open, high, low, close    *)
(* and volume are functions of that set.  A candle of the provider's history  *)
(* is made of no tick of ours.                                                *)
EXTENDS Naturals, Sequences, FiniteSets

CONSTANTS
    Lengths,    \* bucket length of each timeframe, in the order of Settings.timeframes
    MaxDelay,   \* _MAX_RECONNECT_DELAY_SECONDS
    BackfillCount,  \* _BACKFILL_CANDLE_COUNT
    Depth,      \* bars in the provider's history; the mock has none
    Forming,    \* whether that history may end with the bar in progress
    Late,       \* how far a timestamp may lie behind the one before
    Setback,    \* the same for the first one of a connection
    MaxTime,    \* bound: the last timestamp
    MaxTicks,   \* bound: ticks in a behaviour
    MaxFaults   \* bound: failures and crashes in a behaviour

ASSUME LengthsAssumption ==
    Lengths \in Seq(Nat \ {0}) /\ Len(Lengths) > 0
ASSUME LimitsAssumption ==
    /\ MaxDelay \in Nat \ {0} /\ Late \in Nat /\ Setback \in Nat
    /\ BackfillCount \in Nat /\ Depth \in Nat /\ Forming \in BOOLEAN
    /\ MaxTime \in Nat /\ MaxTicks \in Nat /\ MaxFaults \in Nat

VARIABLES
    ticks,         \* timestamp of each tick received so far, over all runs
    starts,        \* for each run of the process, the number of its first tick
    present,       \* the time of the last tick or fetch
    fetches,       \* timeframes that backfill has still to go through
    open,          \* CandleAggregator._open of each timeframe
    pending,       \* candles ingest returned that _handle_closed_candle has yet to finish
    step,          \* where _run is
    stored,        \* candle table
    handled,       \* candles whose handlers ran, in order
    reconnecting,  \* local of _run
    delay,         \* local of _run
    status,        \* FeedService.status
    faults         \* failures so far

vars == <<ticks, starts, present, fetches, open, pending, step, stored, handled, reconnecting, delay, status, faults>>

tableVars == <<stored, handled>>
backfillVars == <<present, fetches>>
loopVars == <<reconnecting, delay, status>>

Timeframes == DOMAIN Lengths

(* bucket_start, as the number of the bucket. *)
Bucket(t, f) == t \div Lengths[f]

CloseTime(c) == (c.bucket + 1) * Lengths[c.tf]

Candles == [tf : Timeframes, bucket : 0..MaxTime, ticks : SUBSET (1..MaxTicks)]

NotOpen(f) == [tf |-> f, bucket |-> 0, ticks |-> {}]

Init ==
    /\ ticks = <<>> /\ starts = {1}
    /\ present = 0 /\ fetches = Lengths
    /\ open = [f \in Timeframes |-> NotOpen(f)]
    /\ pending = {} /\ step = "backfill"
    /\ stored = {} /\ handled = <<>>
    /\ reconnecting = FALSE /\ delay = 1 /\ status = "nominal"
    /\ faults = 0

CanFail == faults < MaxFaults

-----------------------------------------------------------------------------
(* The timeframe whose turn it is in backfill. *)
Filling == Len(Lengths) - Len(fetches) + 1

Rows(f) == {r \in stored : r.tf = f}

(* fetch_history at a time: the newest bars, up to one that has closed by     *)
(* then or, since no provider here drops it, to the one in progress.          *)
Histories(t, f) ==
    LET upTo(newest) == {b \in 0..MaxTime : b < newest /\ b + Depth >= newest}
    IN  {{[NotOpen(f) EXCEPT !.bucket = b] : b \in upTo(newest)} :
            newest \in Bucket(t, f)..(IF Forming THEN Bucket(t, f) + 1 ELSE Bucket(t, f))}

(* _backfill_one: nothing is fetched for a table that is full enough, and a   *)
(* row that is there is never replaced.                                       *)
Backfill ==
    /\ step = "backfill" /\ fetches # <<>>
    /\ \E t \in present..MaxTime :
        IF Cardinality(Rows(Filling)) >= BackfillCount
        THEN UNCHANGED <<present, stored>>
        ELSE /\ present' = t
             /\ \E history \in Histories(t, Filling) :
                    stored' = stored \union {c \in history : \A r \in Rows(Filling) : r.bucket # c.bucket}
    /\ fetches' = Tail(fetches)
    /\ UNCHANGED <<ticks, starts, open, pending, step, handled, loopVars, faults>>

(* The fetch or the commit raises: logged, and the next timeframe's turn.     *)
BackfillFails ==
    /\ CanFail
    /\ step = "backfill" /\ fetches # <<>>
    /\ fetches' = Tail(fetches)
    /\ faults' = faults + 1
    /\ UNCHANGED <<ticks, starts, present, open, pending, step, tableVars, loopVars>>

(* start: connect, and _run iterates. *)
Start ==
    /\ step = "backfill" /\ fetches = <<>>
    /\ step' = "stream"
    /\ UNCHANGED <<ticks, starts, backfillVars, open, pending, tableVars, loopVars, faults>>

-----------------------------------------------------------------------------
(* A tick of this timestamp does not belong to the candle in progress. *)
Closes(t, f) == open[f].ticks # {} /\ open[f].bucket # Bucket(t, f)

(* Variants: the new candle keeps the boundary of the old one; it keeps its  *)
(* ticks.                                                                    *)
Reopened_OldBucket(t, f) ==
    LET n == Len(ticks) + 1 IN
    IF Closes(t, f)
    THEN [open[f] EXCEPT !.ticks = {n}]
    ELSE [open[f] EXCEPT !.bucket = Bucket(t, f), !.ticks = @ \union {n}]

Reopened_KeepsOld(t, f) ==
    LET n == Len(ticks) + 1 IN
    [open[f] EXCEPT !.bucket = Bucket(t, f), !.ticks = @ \union {n}]

(* The candle in progress once ingest has seen the tick. *)
Reopened(t, f) ==
    LET n == Len(ticks) + 1 IN
    [tf |-> f, bucket |-> Bucket(t, f),
     ticks |-> IF Closes(t, f) THEN {n} ELSE open[f].ticks \union {n}]

(* No tick has come since connect, which sets the mock's accelerated clock    *)
(* back to now (mock_provider.py:58); a live feed may deliver once more what  *)
(* came before the connection broke (candle_repository.py:33-35).             *)
JustConnected == reconnecting \/ Len(ticks) + 1 \in starts

(* One tick of the stream: the body of _run's loop up to and including       *)
(* ingest.  It may close a candle of each timeframe.                         *)
Receive ==
    /\ step = "stream" /\ pending = {}
    /\ Len(ticks) < MaxTicks
    /\ \E t \in 0..MaxTime :
        /\ t + (IF JustConnected THEN Setback ELSE Late) >= present
        /\ ticks' = Append(ticks, t) /\ present' = t
        /\ open' = [f \in Timeframes |-> Reopened(t, f)]
        /\ pending' = {open[f] : f \in {g \in Timeframes : Closes(t, g)}}
    /\ reconnecting' = FALSE /\ status' = "nominal"
    /\ delay' = IF reconnecting THEN 1 ELSE delay
    /\ UNCHANGED <<starts, fetches, step, tableVars, faults>>

(* The closed candles are handled in the order of the timeframes. *)
Turn(c) == c \in pending /\ \A d \in pending : c.tf <= d.tf

(* CandleRepository.save: a row of this boundary is never replaced. *)
Saved(c) ==
    IF \E r \in stored : r.tf = c.tf /\ r.bucket = c.bucket THEN stored ELSE stored \union {c}

(* _handle_closed_candle: _persist, and after it the handlers; when one of    *)
(* them raises, the candle's turn is over just the same.                      *)
Persist ==
    /\ step = "stream"
    /\ \E c \in pending : Turn(c) /\ stored' = Saved(c)
    /\ step' = "handle"
    /\ UNCHANGED <<ticks, starts, backfillVars, open, pending, handled, loopVars, faults>>

Handle ==
    /\ step = "handle"
    /\ \E c \in pending :
        /\ Turn(c)
        /\ handled' = Append(handled, c)
        /\ pending' = pending \ {c}
    /\ step' = "stream"
    /\ UNCHANGED <<ticks, starts, backfillVars, open, stored, loopVars, faults>>

(* Variant: the handlers run although the candle could not be stored. *)
PersistFails_RunsHandlers ==
    /\ CanFail
    /\ step = "stream" /\ pending # {}
    /\ step' = "handle"
    /\ faults' = faults + 1
    /\ UNCHANGED <<ticks, starts, backfillVars, open, pending, tableVars, loopVars>>

(* The store refuses: logged, and the next candle's turn comes. *)
PersistFails ==
    /\ CanFail
    /\ step = "stream"
    /\ \E c \in pending : Turn(c) /\ pending' = pending \ {c}
    /\ faults' = faults + 1
    /\ UNCHANGED <<ticks, starts, backfillVars, open, step, tableVars, loopVars>>

(* The stream raises or ends, or connect raises. *)
StreamFails ==
    /\ CanFail
    /\ step = "stream" /\ pending = {}
    /\ reconnecting' = TRUE /\ status' = "disconnected"
    /\ step' = "sleep"
    /\ faults' = faults + 1
    /\ UNCHANGED <<ticks, starts, backfillVars, open, pending, tableVars, delay>>

(* Variants: the backoff is not capped; a new connection counts as recovery. *)
Reconnect_NoCap ==
    /\ step = "sleep"
    /\ delay' = 2 * delay
    /\ step' = "stream"
    /\ UNCHANGED <<ticks, starts, backfillVars, open, pending, tableVars, reconnecting, status, faults>>
Reconnect_Resets ==
    /\ step = "sleep"
    /\ delay' = 1 /\ reconnecting' = FALSE /\ status' = "nominal"
    /\ step' = "stream"
    /\ UNCHANGED <<ticks, starts, backfillVars, open, pending, tableVars, faults>>

(* The backoff is over: disconnect, connect and iterate again.  The candles  *)
(* in progress are kept, the ticks in between are lost.                      *)
Reconnect ==
    /\ step = "sleep"
    /\ delay' = IF 2 * delay > MaxDelay THEN MaxDelay ELSE 2 * delay
    /\ step' = "stream"
    /\ UNCHANGED <<ticks, starts, backfillVars, open, pending, tableVars, reconnecting, status, faults>>

(* The process stops at any await and starts again. *)
Restart ==
    /\ CanFail
    /\ starts' = starts \union {Len(ticks) + 1}
    /\ open' = [f \in Timeframes |-> NotOpen(f)]
    /\ pending' = {} /\ step' = "backfill" /\ fetches' = Lengths
    /\ reconnecting' = FALSE /\ delay' = 1 /\ status' = "nominal"
    /\ faults' = faults + 1
    /\ UNCHANGED <<ticks, present, tableVars>>

Next ==
    \/ Backfill \/ Start
    \/ Receive \/ Persist \/ Handle \/ Reconnect
    \/ BackfillFails \/ PersistFails \/ StreamFails \/ Restart

Spec == Init /\ [][Next]_vars

-----------------------------------------------------------------------------
TypeOK ==
    /\ ticks \in Seq(0..MaxTime) /\ Len(ticks) <= MaxTicks
    /\ starts \subseteq 1..(Len(ticks) + 1)
    /\ open \in [Timeframes -> Candles]
    /\ pending \subseteq Candles
    /\ present \in 0..MaxTime /\ Len(fetches) <= Len(Lengths)
    /\ step \in {"backfill", "stream", "handle", "sleep"}
    /\ step = "handle" => pending # {}
    /\ stored \subseteq Candles
    /\ handled \in Seq(Candles)
    /\ reconnecting \in BOOLEAN
    /\ delay \in 1..MaxDelay
    /\ status \in {"nominal", "disconnected"}
    /\ faults \in 0..MaxFaults

(* A candle's ticks are those of its bucket that came in a row in one run of  *)
(* the process, from a start or a tick of another bucket on.                  *)
InARow(c, first, last) ==
    /\ first <= last /\ c.ticks = first..last
    /\ \A n \in first..last : Bucket(ticks[n], c.tf) = c.bucket
    /\ starts \intersect (first + 1)..(last + 1) = {}
    /\ first \in starts \/ (first > 1 /\ Bucket(ticks[first - 1], c.tf) # c.bucket)

(* And up to a tick of another bucket: the candle is closed.                  *)
Unbroken(c) ==
    \E first, last \in 1..Len(ticks) :
        /\ InARow(c, first, last)
        /\ last < Len(ticks) /\ Bucket(ticks[last + 1], c.tf) # c.bucket

(* A row that is not the provider's is unbroken, however the ticks are        *)
(* stamped and whatever fails: no failure of the stream, of the store or of a *)
(* handler tears or shortens a candle, no tick is counted into two candles of *)
(* a timeframe, and none into the candle before it (candle_aggregator.py:51). *)
RowsComplete == \A r \in stored : r.ticks = {} \/ Unbroken(r)

(* All ticks of a candle came before those of another.                        *)
Earlier(c, d) == \A m \in c.ticks, n \in d.ticks : m < n

(* The handlers find in the table, under the boundary of the candle they are  *)
(* handed, that very candle or the one that was there first: a bar of the     *)
(* provider's or a candle made of earlier ticks (candle_repository.py:30-39   *)
(* runs them even when the row was not written by this call).                 *)
HandledAsStored ==
    step = "handle" => \A c \in pending : Turn(c) =>
        \E r \in stored : /\ r.tf = c.tf /\ r.bucket = c.bucket
                          /\ r = c \/ Earlier(r, c)

(* Between the ticks of two candles the provider's time went back.            *)
WentBack(c, d) ==
    \E m, n \in 1..Len(ticks) :
        /\ m < n /\ ticks[n] < ticks[m]
        /\ \E a \in c.ticks : a <= m
        /\ \E b \in d.ticks : n <= b

(* The handlers see each timeframe's candles in the order in which they were  *)
(* made and none twice, whatever fails.  A boundary they have seen comes      *)
(* again, or an older one comes later, only when the provider's time went     *)
(* back in between (candle_repository.py:33-39).                              *)
HandledInOrder ==
    \A i, j \in DOMAIN handled :
        i < j /\ handled[i].tf = handled[j].tf =>
            /\ Earlier(handled[i], handled[j])
            /\ handled[j].bucket <= handled[i].bucket => WentBack(handled[i], handled[j])

(* The service reports itself healthy again, and forgets its backoff, only   *)
(* when a tick arrives (feed_service.py:139-144), or when it starts anew.    *)
HealthyOnlyByTick ==
    [][(status' # status /\ status' = "nominal") \/ delay' < delay =>
          Len(ticks') > Len(ticks) \/ Restart]_vars

(* "A hazard the tick-driven path never has" (tradingview_feed_service.py:   *)
(* 22-28): when the finest timeframe's handlers run, the coarser candles     *)
(* that closed no later than that candle are stored.                         *)
CoarserStoredFirst ==
    step = "handle" =>
        \A c, d \in pending :
            Turn(c) /\ c.tf = 1 /\ CloseTime(d) <= CloseTime(c) => d \in stored
=============================================================================
