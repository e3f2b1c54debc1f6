--------------------------- MODULE FreshnessProofs ---------------------------
(* Theorems about what a signal is built from, compared with the candle it is *)
(* built for and the candles that grade it, for every value of the constants. *)
EXTENDS GradingProofs

-----------------------------------------------------------------------------
(* The inductive invariants.                                                  *)

(* At a lag of one bar, all but the newest bar are stored; the handlers run   *)
(* on the newest one of the table, which no row knew before them.             *)
AllButNewest == 1..(Len(market) - 1) \subseteq stored
NewestHandled ==
    /\ \A q \in queue : \A s \in stored : s <= q
    /\ pc[Feed] # "idle" => queue = {} /\ bar \in stored /\ \A s \in stored : s <= bar
RowsKnowLess ==
    /\ \A i \in Ids : signals[i].asof \in stored
    /\ \A q \in queue : \A i \in Ids : signals[i].asof < q
    /\ pc[Feed] \in {"track", "resolve"} => \A i \in Ids : signals[i].asof < bar
    /\ pc[Feed] = "build" => local[Feed].m15 \subseteq stored
    /\ pc[Feed] = "save" => local[Feed].asof \in stored

OwnOK == AllButNewest /\ NewestHandled /\ RowsKnowLess /\ NotGradedByOwnCandle

OwnInv == IInv /\ PollsAlone /\ OwnOK

(* From the coarse poll to the end of the handlers, the coarse table has the  *)
(* newest closed candle.                                                      *)
CoarseCaught ==
    (stage = "poll_m15" \/ ~InFeed) => \A k \in ClosedCoarse : \E n \in coarse : n >= k
CoarseRead ==
    pc[Feed] \in {"m15", "build"} =>
        \A k \in CoarseBars : k * Ratio <= bar => \E n \in local[Feed].coarse : n >= k

CoarseInv == IInv /\ PollsAlone /\ CoarseCaught /\ CoarseRead

-----------------------------------------------------------------------------
(* A candle that was read does not grade.                                     *)

(* At a lag of one bar, a bar closes only when all are stored.                *)
LEMMA AllButNewestStep ==
    ASSUME MaxLag = 1, IInv, AllButNewest, [Next]_vars
    PROVE  AllButNewest'
<1>1. stored \subseteq stored' /\ Len(market) \in Nat
  BY CandlesOnlyGrow
<1>2. CASE MarketStep
  <2>1. Len(market') = Len(market) + 1 /\ Cardinality(Unstored) < MaxLag
    BY <1>2 DEF MarketStep, CloseBar, IInv, TypeOK, CoreTypeOK
  <2>2. \A b \in ClosedBars : b \notin Unstored
    BY <1>1, <2>1, UnstoredLag DEF ClosedBars
  <2>3. Len(market) # 0 => Len(market) \in stored
    <3> SUFFICES ASSUME Len(market) # 0 PROVE Len(market) \in stored
      OBVIOUS
    <3>1. Len(market) \in ClosedBars
      BY <1>1 DEF ClosedBars
    <3>2. PICK s \in stored : ~(s < Len(market))
      BY <2>2, <3>1 DEF Unstored
    <3>3. s \in Nat /\ s <= Len(market)
      BY <1>1 DEF IInv, TypeOK, CoreTypeOK, ClosedBars
    <3> QED
      BY <1>1, <3>2, <3>3
  <2>4. 1..Len(market) \subseteq stored
    BY <1>1, <2>3 DEF AllButNewest
  <2> QED
    BY <1>1, <2>1, <2>4 DEF AllButNewest
<1>3. CASE ~MarketStep
  <2>1. market' = market
    BY <1>3 DEF Next, FeedStep, BackfillM15, BackfillCoarse, PollCoarse, PollM15, HandlerStep,
                Predict, TrackerRead, TrackerResolve, BuildStep, CheckOpen, ReadCoarse, ReadM15,
                BuildNone, BuildFound, Save, FaultStep, BackfillFails, FetchFails, PersistFails,
                Restart, PredictFails, HandlerFails, LoseMemory, ClientStep, RestStep, vars,
                marketVars
  <2> QED
    BY <1>1, <2>1 DEF AllButNewest
<1> QED
  BY <1>2, <1>3

(* A poll queues no candle but the newest, which no row can have known.       *)
LEMMA PollKeepsOwn ==
    ASSUME OwnInv, PollM15
    PROVE  NewestHandled' /\ RowsKnowLess' /\ NotGradedByOwnCandle'
<1>1. /\ UNCHANGED <<market, signals, bar, pc, local>> /\ pc[Feed] = "idle"
      /\ queue' = NewlyClosed /\ stored \subseteq stored'
      /\ stored' = stored \union Fetched(ClosedBars, PollCount)
  BY DEF PollM15, marketVars, taskVars, OwnInv, PollsAlone, InFeed
<1>2. stored' \subseteq ClosedBars /\ Len(market) \in Nat /\ stored \subseteq ClosedBars
  BY <1>1, QueuedIsNew, RecentIsSubset DEF Fetched, OwnInv, IInv, TypeOK, CoreTypeOK
<1>3. \A q \in queue' : q = Len(market) /\ q \notin stored
  <2> SUFFICES ASSUME NEW q \in NewlyClosed PROVE q = Len(market) /\ q \notin stored
    BY <1>1
  <2>1. q \in ClosedBars /\ q \notin stored
    BY QueuedIsNew, RecentIsSubset DEF Fetched, OwnInv
  <2> QED
    BY <1>2, <2>1 DEF OwnInv, OwnOK, AllButNewest, ClosedBars
<1>4. NewestHandled'
  BY <1>1, <1>2, <1>3 DEF NewestHandled, ClosedBars
<1>5. Ids' = Ids /\ OpenIds' = OpenIds
  BY <1>1 DEF Ids, OpenIds
<1>6. RowsKnowLess'
  <2>1. ASSUME NEW q \in queue', NEW s \in stored PROVE s < q
    BY <1>2, <1>3 DEF ClosedBars
  <2>2. \A q \in queue' : \A i \in Ids : signals[i].asof < q
    BY <2>1 DEF OwnInv, OwnOK, RowsKnowLess
  <2> QED
    BY <1>1, <1>5, <2>2 DEF OwnInv, OwnOK, RowsKnowLess
<1> QED
  BY <1>1, <1>4, <1>5, <1>6 DEF OwnInv, OwnOK, NotGradedByOwnCandle

(* A candle leaves the queue alone, and every row is older than it.           *)
LEMMA PredictKeepsOwn ==
    ASSUME OwnInv, Predict
    PROVE  NewestHandled' /\ RowsKnowLess' /\ NotGradedByOwnCandle'
<1>1. PICK b \in queue : queue' = queue \ {b} /\ bar' = b
  BY DEF Predict
<1>2. UNCHANGED <<stored, signals, local>> /\ pc'[Feed] = "track"
  BY FeedIsTask DEF Predict, Goto, candleVars, OwnInv, IInv, TypeOK, CoreTypeOK
<1>3. b \in stored /\ queue \subseteq stored /\ stored \subseteq Nat
  BY <1>1, StoredBars, BoundsAssumption DEF OwnInv, IInv, TypeOK, CoreTypeOK, Bars
<1>4. Ids' = Ids /\ OpenIds' = OpenIds
  BY <1>2 DEF Ids, OpenIds
<1>5. queue' = {} /\ \A s \in stored : s <= b
  BY <1>1, <1>3 DEF OwnInv, OwnOK, NewestHandled
<1>6. NewestHandled'
  BY <1>1, <1>2, <1>3, <1>5 DEF NewestHandled
<1>7. RowsKnowLess'
  BY <1>1, <1>2, <1>4, <1>5 DEF OwnInv, OwnOK, RowsKnowLess
<1> QED
  BY <1>2, <1>4, <1>6, <1>7 DEF OwnInv, OwnOK, NotGradedByOwnCandle

(* What SignalTracker writes is later than what the row was built from.       *)
LEMMA TrackerKeepsOwn ==
    ASSUME OwnInv, TrackerRead \/ TrackerResolve
    PROVE  NewestHandled' /\ RowsKnowLess' /\ NotGradedByOwnCandle'
<1>1. UNCHANGED <<stored, queue, bar, local>> /\ pc[Feed] \in {"track", "resolve"}
  BY DEF TrackerRead, TrackerResolve, candleVars
<1>2. pc'[Feed] \in {"resolve", "check"}
  BY FeedIsTask DEF TrackerRead, TrackerResolve, Goto, OwnInv, IInv, TypeOK, CoreTypeOK
<1>3. /\ Ids' = Ids
      /\ \A j \in Ids : /\ signals'[j].asof = signals[j].asof
                        /\ \/ signals'[j] = signals[j]
                           \/ signals'[j].closed = bar
  <2>1. CASE TrackerRead
    BY <2>1 DEF TrackerRead, Ids
  <2>2. CASE TrackerResolve
    <3>1. PICK i \in tracked :
            /\ Ids' = Ids /\ signals'[i].closed = bar /\ signals'[i].asof = signals[i].asof
            /\ \A j \in Ids \ {i} : signals'[j] = signals[j]
      BY <2>2, ResolveRow DEF OwnInv
    <3> QED
      BY <3>1
  <2> QED
    BY <2>1, <2>2
<1>4. NewestHandled'
  BY <1>1, <1>2 DEF OwnInv, OwnOK, NewestHandled
<1>5. RowsKnowLess'
  BY <1>1, <1>2, <1>3 DEF OwnInv, OwnOK, RowsKnowLess
<1>6. NotGradedByOwnCandle'
  <2> SUFFICES ASSUME NEW j \in Ids, j \notin OpenIds'
               PROVE  signals'[j].closed > signals'[j].asof
    BY <1>3 DEF NotGradedByOwnCandle
  <2>1. CASE signals'[j] = signals[j]
    BY <1>3, <2>1 DEF OwnInv, OwnOK, NotGradedByOwnCandle, OpenIds
  <2>2. CASE signals'[j].closed = bar
    <3>1. signals[j].asof < bar /\ signals[j].asof \in Nat /\ bar \in Nat
      BY <1>1, StoredBars, BoundsAssumption
         DEF OwnInv, OwnOK, RowsKnowLess, NewestHandled, Bars
    <3> QED
      BY <1>3, <2>2, <3>1
  <2> QED
    BY <1>3, <2>1, <2>2
<1> QED
  BY <1>4, <1>5, <1>6

(* A new row is saved when no candle waits.                                   *)
LEMMA SaveKeepsOwn ==
    ASSUME OwnInv, Save(Feed)
    PROVE  NewestHandled' /\ RowsKnowLess' /\ NotGradedByOwnCandle'
<1> DEFINE n == Len(signals) + 1
<1>1. /\ Ids' = Ids \union {n} /\ n \notin Ids
      /\ OpenIds' = OpenIds \union {n}
      /\ \A i \in Ids : signals'[i] = signals[i]
  BY SaveEffect, FeedIsTask DEF OwnInv
<1>2. signals'[n].asof = local[Feed].asof
  BY RowType DEF Save, OwnInv
<1>3. UNCHANGED <<stored, queue, bar>> /\ pc[Feed] = "save" /\ pc'[Feed] = "idle"
  BY FeedIsTask DEF Save, Idle, candleVars, feedVars, OwnInv, IInv, TypeOK, CoreTypeOK
<1> HIDE DEF n
<1>4. queue = {} /\ local[Feed].asof \in stored
  BY <1>3 DEF OwnInv, OwnOK, NewestHandled, RowsKnowLess
<1>5. NewestHandled' /\ RowsKnowLess'
  BY <1>1, <1>2, <1>3, <1>4 DEF OwnInv, OwnOK, NewestHandled, RowsKnowLess
<1>6. NotGradedByOwnCandle'
  <2>1. \A j \in Ids' \ OpenIds' : j \in Ids \ OpenIds /\ signals'[j] = signals[j]
    BY <1>1
  <2> QED
    BY <2>1 DEF OwnInv, OwnOK, NotGradedByOwnCandle
<1> QED
  BY <1>5, <1>6

(* Signal construction reads candles of the table.                            *)
LEMMA BuildKeepsOwn ==
    ASSUME OwnInv,
           \/ CheckOpen(Feed) \/ ReadCoarse(Feed) \/ ReadM15(Feed)
           \/ BuildNone(Feed) \/ BuildFound(Feed)
    PROVE  NewestHandled' /\ RowsKnowLess' /\ NotGradedByOwnCandle'
<1>1. UNCHANGED <<stored, signals, queue, bar>>
  BY DEF CheckOpen, ReadCoarse, ReadM15, BuildNone, BuildFound, candleVars, feedVars
<1>2. /\ pc[Feed] \in {"check", "coarse", "m15", "build"}
      /\ pc'[Feed] \notin {"track", "resolve"}
      /\ Feed \in Tasks /\ pc \in [Tasks -> Steps] /\ local \in [Tasks -> Locals]
  BY FeedIsTask
     DEF CheckOpen, MayCheck, ReadCoarse, ReadM15, BuildNone, BuildFound, Goto, Idle, OwnInv,
         IInv, TypeOK, CoreTypeOK
<1>3. Ids' = Ids /\ OpenIds' = OpenIds
  BY <1>1 DEF Ids, OpenIds
<1>4. /\ pc'[Feed] = "build" => local'[Feed].m15 \subseteq stored
      /\ pc'[Feed] = "save" => local'[Feed].asof \in stored
  <2>1. CASE CheckOpen(Feed) \/ ReadCoarse(Feed) \/ BuildNone(Feed)
    BY <1>2, <2>1 DEF CheckOpen, ReadCoarse, BuildNone, Goto, Idle
  <2>2. CASE ReadM15(Feed)
    <3>1. local'[Feed].m15 = Recent(stored, Window) /\ pc'[Feed] = "build"
      BY <1>2, <2>2 DEF ReadM15, Goto, Locals
    <3> QED
      BY <3>1, RecentIsSubset
  <2>3. CASE BuildFound(Feed)
    <3>1. PICK t \in BuildTaps(Feed), n \in local[Feed].m15 :
            local' = [local EXCEPT ![Feed] = [coarse |-> {}, m15 |-> {}, tap |-> t, asof |-> n]]
      BY <2>3 DEF BuildFound
    <3>2. local'[Feed].asof = n /\ pc'[Feed] = "save" /\ pc[Feed] = "build"
      BY <1>2, <2>3, <3>1 DEF BuildFound, Goto
    <3> QED
      BY <3>2 DEF OwnInv, OwnOK, RowsKnowLess
  <2> QED
    BY <2>1, <2>2, <2>3
<1> QED
  BY <1>1, <1>2, <1>3, <1>4 DEF OwnInv, OwnOK, NewestHandled, RowsKnowLess, NotGradedByOwnCandle

(* The other steps add no row, and no candle to the queue, and start no       *)
(* handler.                                                                   *)
LEMMA RestKeepsOwn ==
    ASSUME OwnInv, [Next]_vars,
           \/ MarketStep \/ BackfillM15 \/ BackfillCoarse \/ PollCoarse \/ FaultStep
           \/ UNCHANGED vars
    PROVE  NewestHandled' /\ RowsKnowLess' /\ NotGradedByOwnCandle'
<1>1. UNCHANGED signals /\ queue' \subseteq queue /\ stored \subseteq stored'
  BY CandlesOnlyGrow
     DEF MarketStep, CloseBar, BackfillM15, BackfillCoarse, PollCoarse, FaultStep, BackfillFails,
         FetchFails, PersistFails, Restart, PredictFails, HandlerFails, LoseMemory, feedVars,
         vars, OwnInv
<1>2. \/ pc'[Feed] = "idle"
      \/ /\ pc'[Feed] = pc[Feed] /\ local'[Feed] = local[Feed] /\ bar' = bar
         /\ pc[Feed] # "idle"
  BY FeedIsTask
     DEF MarketStep, CloseBar, BackfillM15, BackfillCoarse, PollCoarse, FaultStep, BackfillFails,
         FetchFails, PersistFails, Restart, PredictFails, HandlerFails, LoseMemory, Idle,
         feedVars, taskVars, vars, OwnInv, IInv, TypeOK, CoreTypeOK
<1>3. stored' = stored \/ (queue' = {} /\ pc'[Feed] = "idle")
  BY DEF MarketStep, CloseBar, BackfillM15, BackfillCoarse, PollCoarse, FaultStep, BackfillFails,
         FetchFails, PersistFails, Restart, PredictFails, HandlerFails, LoseMemory, candleVars,
         feedVars, taskVars, vars, OwnInv, PollsAlone, InFeed
<1>4. Ids' = Ids /\ OpenIds' = OpenIds
  BY <1>1 DEF Ids, OpenIds
<1>5. NewestHandled'
  BY <1>1, <1>2, <1>3 DEF OwnInv, OwnOK, NewestHandled
<1>6. RowsKnowLess'
  BY <1>1, <1>2, <1>4 DEF OwnInv, OwnOK, RowsKnowLess
<1> QED
  BY <1>1, <1>4, <1>5, <1>6 DEF OwnInv, OwnOK, NotGradedByOwnCandle

(* The tables are empty at the start.                                         *)
LEMMA OwnInvInit == Init => OwnInv
<1> SUFFICES ASSUME Init PROVE OwnInv
  OBVIOUS
<1>1. queue = {} /\ pc[Feed] = "idle" /\ signals = <<>> /\ Len(market) = 0
  BY FeedIsTask DEF Init, CoreInit
<1>2. Ids = {}
  BY <1>1 DEF Ids
<1> QED
  BY <1>1, <1>2, InitInv
     DEF OwnInv, OwnOK, PollsAlone, InFeed, AllButNewest, NewestHandled, RowsKnowLess,
         NotGradedByOwnCandle

(* While at most one bar is unread, no step lets a window run ahead of the    *)
(* bar that is handled.                                                       *)
LEMMA OwnInvStep ==
    ASSUME Clients = {}, MaxLag = 1
    PROVE  OwnInv /\ [Next]_vars => OwnInv'
<1> SUFFICES ASSUME OwnInv, [Next]_vars PROVE OwnInv'
  OBVIOUS
<1>1. IInv' /\ PollsAlone' /\ AllButNewest'
  BY StepInv, PollsAloneStep, AllButNewestStep DEF OwnInv, OwnOK
<1>2. NewestHandled' /\ RowsKnowLess' /\ NotGradedByOwnCandle'
  BY PollKeepsOwn, PredictKeepsOwn, TrackerKeepsOwn, SaveKeepsOwn, BuildKeepsOwn, RestKeepsOwn
     DEF Next, FeedStep, HandlerStep, BuildStep, ClientStep, RestStep
<1> QED
  BY <1>1, <1>2 DEF OwnInv, OwnOK

(* With the feed task alone, and a market at most one bar ahead of the table, *)
(* no signal is graded by a candle it was built from, whatever fails and      *)
(* however often the process restarts: SignalTracker runs before              *)
(* SignalService on each candle (main.py:54-57).                              *)
THEOREM OwnCandleNeverGrades ==
    ASSUME Clients = {}, MaxLag = 1
    PROVE  Spec => []NotGradedByOwnCandle
<1>1. OwnInv => NotGradedByOwnCandle
  BY DEF OwnInv, OwnOK
<1> QED
  BY <1>1, OwnInvInit, OwnInvStep, PTL DEF Spec

-----------------------------------------------------------------------------
(* Signals are built from the newest coarse candle.                           *)

(* A request reads and writes nothing of the feed task's own.                 *)
LEMMA RequestsKeepFeed ==
    ASSUME IInv, ClientStep
    PROVE  UNCHANGED <<market, coarse, queue, bar, stage>>
           /\ pc'[Feed] = pc[Feed] /\ local'[Feed] = local[Feed]
<1>1. /\ pc \in [Tasks -> Steps] /\ local \in [Tasks -> Locals]
      /\ Feed \in Tasks /\ Feed \notin Clients
  BY FeedIsTask, FeedAssumption DEF IInv, TypeOK, CoreTypeOK
<1>2. UNCHANGED stage /\ \E c \in Clients : BuildStep(c)
  BY DEF ClientStep, RestStep
<1>3. UNCHANGED <<market, coarse, queue, bar>>
  BY <1>2 DEF BuildStep, CheckOpen, ReadCoarse, ReadM15, BuildNone, BuildFound, Save, marketVars,
              candleVars, feedVars
<1> QED
  BY <1>1, <1>2, <1>3
     DEF BuildStep, CheckOpen, ReadCoarse, ReadM15, BuildNone, BuildFound, Save, Goto, Idle

(* A poll of the coarse timeframe that fetches at least one closed candle     *)
(* stores the newest one.                                                     *)
LEMMA PollFetchesNewest ==
    ASSUME PollCount >= 2, IInv, NEW k \in ClosedCoarse
    PROVE  \E n \in Fetched(ClosedCoarse, PollCount) : n >= k
<1>1. MaxBar \in Nat /\ ClosedCoarse \in SUBSET (1..MaxBar) /\ ClosedCoarse # {}
  BY BoundsAssumption DEF ClosedCoarse, CoarseBars, Bars
<1>2. PICK m \in ClosedCoarse : \A c \in ClosedCoarse : c <= m
  BY <1>1, HasNewest
<1>3. PollCount - 1 \in Nat \ {0}
  BY FetchAssumption
<1>4. m \in Fetched(ClosedCoarse, PollCount)
  BY <1>1, <1>2, <1>3, RecentHasNewest DEF Fetched
<1>5. m \in Nat /\ k \in Nat /\ k <= m
  BY <1>1, <1>2
<1> QED
  BY <1>4, <1>5

(* The window read from the coarse table holds its newest candle.             *)
LEMMA WindowHoldsNewest ==
    ASSUME IInv, NEW c \in coarse
    PROVE  \E n \in Recent(coarse, CoarseWindow) : n >= c
<1>1. MaxBar \in Nat /\ coarse \in SUBSET (1..MaxBar) /\ CoarseWindow \in Nat \ {0}
  BY BoundsAssumption DEF IInv, TypeOK, CoreTypeOK, CoarseBars, Bars
<1>2. PICK m \in coarse : \A d \in coarse : d <= m
  BY <1>1, HasNewest
<1>3. m \in Recent(coarse, CoarseWindow)
  BY <1>1, <1>2, RecentHasNewest
<1>4. m \in Nat /\ c \in Nat /\ c <= m
  BY <1>1, <1>2
<1> QED
  BY <1>3, <1>4

(* The commit of the coarse candles fails, and the cycle goes on without them.*)
CoarseDropped == PersistFails /\ stage = "poll_coarse"

(* No bar closes between the coarse poll and the end of the handlers.         *)
LEMMA CoarseCaughtStep ==
    ASSUME MidCycle = FALSE, PollCount >= 2, CoarseInv, [Next]_vars, [~CoarseDropped]_vars
    PROVE  CoarseCaught'
<1>1. pc \in [Tasks -> Steps] /\ Feed \in Tasks
  BY FeedIsTask DEF CoarseInv, IInv, TypeOK, CoreTypeOK
<1>2. CASE MarketStep
  <2>1. stage' = "poll_coarse" /\ InFeed'
    BY <1>2 DEF MarketStep, CloseBar, feedVars, taskVars, InFeed
  <2> QED
    BY <2>1 DEF CoarseCaught
<1>3. CASE PollCoarse
  <2>1. coarse' = coarse \union Fetched(ClosedCoarse, PollCount) /\ UNCHANGED market
    BY <1>3 DEF PollCoarse, marketVars
  <2>2. ClosedCoarse' = ClosedCoarse
    BY <2>1 DEF ClosedCoarse
  <2> QED
    BY <2>1, <2>2, PollFetchesNewest DEF CoarseCaught, CoarseInv
<1>4. CASE BackfillM15 \/ BackfillCoarse
  <2>1. stage' # "poll_m15" /\ InFeed'
    BY <1>4 DEF BackfillM15, BackfillCoarse, CoarseInv, PollsAlone, InFeed, feedVars, taskVars
  <2> QED
    BY <2>1 DEF CoarseCaught
<1>5. CASE PollM15 \/ (HandlerStep /\ UNCHANGED stage) \/ ClientStep \/ UNCHANGED vars
  <2>1. UNCHANGED <<market, coarse>>
    BY <1>5, RequestsKeepFeed
       DEF PollM15, HandlerStep, Predict, TrackerRead, TrackerResolve, BuildStep, CheckOpen,
           ReadCoarse, ReadM15, BuildNone, BuildFound, Save, vars, marketVars, candleVars,
           CoarseInv
  <2>2. (stage' = "poll_m15" \/ ~InFeed') => (stage = "poll_m15" \/ ~InFeed)
    BY <1>5, RequestsKeepFeed
       DEF PollM15, HandlerStep, Predict, TrackerRead, TrackerResolve, BuildStep, CheckOpen,
           MayCheck, ReadCoarse, ReadM15, BuildNone, BuildFound, Save, vars, InFeed, CoarseInv
  <2>3. ClosedCoarse' = ClosedCoarse
    BY <2>1 DEF ClosedCoarse
  <2> QED
    BY <2>1, <2>2, <2>3 DEF CoarseCaught, CoarseInv
<1>6. CASE FaultStep /\ ~CoarseDropped
  <2>1. UNCHANGED <<market, coarse>>
    BY <1>6 DEF FaultStep, BackfillFails, FetchFails, PersistFails, Restart, PredictFails,
                HandlerFails, LoseMemory, marketVars, candleVars
  <2>2. (stage' = "poll_m15" \/ ~InFeed') => (stage = "poll_m15" \/ ~InFeed)
    BY <1>1, <1>6
       DEF FaultStep, BackfillFails, FetchFails, PersistFails, Restart, PredictFails,
           HandlerFails, LoseMemory, Serving, InFeed, Idle, feedVars, taskVars, CoarseDropped,
           CoarseInv, PollsAlone
  <2>3. ClosedCoarse' = ClosedCoarse
    BY <2>1 DEF ClosedCoarse
  <2> QED
    BY <2>1, <2>2, <2>3 DEF CoarseCaught, CoarseInv
<1> QED
  BY <1>2, <1>3, <1>4, <1>5, <1>6 DEF Next, FeedStep

(* What the feed task read of the coarse table is as new as its candle.       *)
LEMMA CoarseReadStep ==
    ASSUME CoarseInv, [Next]_vars
    PROVE  CoarseRead'
<1>1. /\ pc \in [Tasks -> Steps] /\ local \in [Tasks -> Locals] /\ Feed \in Tasks
      /\ Feed \notin Clients
  BY FeedIsTask, FeedAssumption DEF CoarseInv, IInv, TypeOK, CoreTypeOK
<1>2. CASE ReadCoarse(Feed)
  <2>1. /\ local'[Feed].coarse = Recent(coarse, CoarseWindow) /\ UNCHANGED bar
        /\ ~InFeed
    BY <1>1, <1>2 DEF ReadCoarse, feedVars, Locals, InFeed
  <2> SUFFICES ASSUME NEW k \in CoarseBars, k * Ratio <= bar
               PROVE  \E n \in Recent(coarse, CoarseWindow) : n >= k
    BY <2>1 DEF CoarseRead
  <2>2. k \in ClosedCoarse
    <3>1. bar \in Nat /\ Len(market) \in Nat /\ bar <= Len(market) /\ k * Ratio \in Nat
      BY LenProperties, BoundsAssumption
         DEF CoarseInv, IInv, TypeOK, CoreTypeOK, ClosedBars, CoarseBars, Bars
    <3> QED
      BY <3>1 DEF ClosedCoarse
  <2>3. PICK c \in coarse : c >= k
    BY <2>1, <2>2 DEF CoarseInv, CoarseCaught
  <2>4. PICK n \in Recent(coarse, CoarseWindow) : n >= c
    BY WindowHoldsNewest DEF CoarseInv
  <2>5. n \in Nat /\ c \in Nat /\ k \in Nat
    <3>1. CoarseBars \subseteq Nat /\ coarse \subseteq CoarseBars
      BY BoundsAssumption DEF CoarseInv, IInv, TypeOK, CoreTypeOK, CoarseBars, Bars
    <3>2. n \in coarse
      BY RecentIsSubset
    <3> QED
      BY <3>1, <3>2
  <2> QED
    BY <2>3, <2>4, <2>5
<1>3. CASE ReadM15(Feed)
  BY <1>1, <1>3 DEF ReadM15, feedVars, Goto, CoarseInv, CoarseRead, Locals
<1>4. CASE ~ReadCoarse(Feed) /\ ~ReadM15(Feed)
  <2>1. FaultStep => \/ pc'[Feed] \notin {"m15", "build"}
                     \/ pc'[Feed] = pc[Feed] /\ local'[Feed] = local[Feed] /\ bar' = bar
    BY <1>1
       DEF FaultStep, BackfillFails, FetchFails, PersistFails, Restart, PredictFails,
           HandlerFails, LoseMemory, Idle, feedVars, taskVars
  <2>2. \/ pc'[Feed] \notin {"m15", "build"}
        \/ pc'[Feed] = pc[Feed] /\ local'[Feed] = local[Feed] /\ bar' = bar
    BY <1>1, <1>4, <2>1, RequestsKeepFeed
       DEF Next, FeedStep, MarketStep, CloseBar, BackfillM15, BackfillCoarse, PollCoarse, PollM15,
           HandlerStep, Predict, TrackerRead, TrackerResolve, BuildStep, CheckOpen, BuildNone,
           BuildFound, Save, Goto, Idle, feedVars, taskVars, vars, CoarseInv
  <2> QED
    BY <2>2 DEF CoarseInv, CoarseRead
<1> QED
  BY <1>2, <1>3, <1>4

(* While nothing closes in the middle of a poll cycle and no commit of coarse *)
(* candles fails, the feed task never builds a signal from coarse candles     *)
(* that lag the candle it builds it for, however many requests run beside it  *)
(* and whatever else fails (tradingview_feed_service.py:22-28).               *)
THEOREM BuiltFromFreshCoarse ==
    ASSUME MidCycle = FALSE, PollCount >= 2
    PROVE  Spec /\ [][~CoarseDropped]_vars => []CoarseIsFresh
<1>1. Init => CoarseInv
  <2> SUFFICES ASSUME Init PROVE CoarseInv
    OBVIOUS
  <2>1. queue = {} /\ pc[Feed] = "idle" /\ stage = "backfill_m15"
    BY FeedIsTask DEF Init, CoreInit
  <2> QED
    BY <2>1, InitInv DEF CoarseInv, PollsAlone, InFeed, CoarseCaught, CoarseRead
<1>2. CoarseInv /\ [Next]_vars /\ [~CoarseDropped]_vars => CoarseInv'
  <2> SUFFICES ASSUME CoarseInv, [Next]_vars, [~CoarseDropped]_vars PROVE CoarseInv'
    OBVIOUS
  <2>1. IInv' /\ PollsAlone'
    BY StepInv, PollsAloneStep DEF CoarseInv
  <2> QED
    BY <2>1, CoarseCaughtStep, CoarseReadStep DEF CoarseInv
<1>3. CoarseInv => CoarseIsFresh
  BY DEF CoarseInv, CoarseRead, CoarseIsFresh
<1> QED
  BY <1>1, <1>2, <1>3, PTL DEF Spec
=============================================================================
