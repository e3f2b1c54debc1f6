-------------------------- MODULE TradingViewProofs --------------------------
(* Theorems about TradingViewPipeline, for every value of its constants. *)
EXTENDS TradingViewPipeline, FiniteSetTheorems, SequenceTheorems, TLAPS

(* What the handlers carry from one await to the next is sound: a task about *)
(* to save holds a tap and the candle it was built at, and the rows          *)
(* SignalTracker is about to write still are open.                           *)
CarriedOK ==
    /\ \A p \in Tasks : pc[p] = "save" => local[p].tap \in Bars /\ local[p].asof \in Bars
    /\ tracked \subseteq OpenIds

IInv == TypeOK /\ CarriedOK

-----------------------------------------------------------------------------
(* Lemmas on the rules. *)

(* get_recent returns rows of the table. *)
LEMMA RecentIsSubset == \A S, n : Recent(S, n) \subseteq S
BY DEF Recent

(* resolve_signal leaves a signal with a status of the table. *)
LEMMA OutcomeType ==
    \A touched, opened, b, e : Outcome(touched, opened, b, e) \in Statuses
BY DEF Outcome, Statuses

(* The feed and every request is a task. *)
LEMMA FeedIsTask == Feed \in Tasks /\ Clients \subseteq Tasks
BY DEF Tasks

(* SignalRepository.save keeps every row and adds one. *)
LEMMA AppendRow ==
    ASSUME NEW S, NEW s \in Seq(S), NEW row \in S
    PROVE  /\ Append(s, row) \in Seq(S)
           /\ DOMAIN Append(s, row) = DOMAIN s \union {Len(s) + 1}
           /\ Len(s) + 1 \notin DOMAIN s
           /\ \A i \in DOMAIN s : Append(s, row)[i] = s[i]
           /\ Append(s, row)[Len(s) + 1] = row
BY SMT

(* Replacing one row keeps the table's ids and its other rows. *)
LEMMA UpdateRow ==
    ASSUME NEW S, NEW s \in Seq(S), NEW i \in DOMAIN s, NEW row \in S
    PROVE  /\ [s EXCEPT ![i] = row] \in Seq(S)
           /\ DOMAIN [s EXCEPT ![i] = row] = DOMAIN s
           /\ [s EXCEPT ![i] = row][i] = row
           /\ \A j \in DOMAIN s \ {i} : [s EXCEPT ![i] = row][j] = s[j]
<1>1. i \in 1..Len(s)
  BY LenProperties
<1> QED
  BY <1>1, ExceptSeq

-----------------------------------------------------------------------------
(* Every action keeps IInv: one lemma per action, or per group of actions    *)
(* that write the same state.                                                *)

(* Candles are stored only for bars within the bound. *)
LEMMA StoredBars == IInv => stored \subseteq Bars /\ bar \in 0..MaxBar
<1> SUFFICES ASSUME IInv PROVE stored \subseteq Bars /\ bar \in 0..MaxBar
  OBVIOUS
<1>1. Len(market) \in Nat /\ Len(market) <= MaxBar /\ stored \subseteq 1..Len(market)
      /\ bar \in {0} \union stored
  BY LenProperties DEF IInv, TypeOK, CoreTypeOK, ClosedBars
<1> QED
  BY <1>1, BoundsAssumption DEF Bars

(* An empty database and an idle feed satisfy IInv. *)
LEMMA InitInv == Init => IInv
BY EmptySeq, FeedIsTask, BoundsAssumption
   DEF Init, CoreInit, IInv, TypeOK, CoreTypeOK, CarriedOK, Stages, Steps, Locals, NoLocal,
       Ids, OpenIds, ClosedBars

(* A closing bar only extends the market. *)
LEMMA MarketInv == IInv /\ MarketStep => IInv'
<1> SUFFICES ASSUME IInv, MarketStep PROVE IInv'
  OBVIOUS
<1>1. PICK shape \in Shapes : market' = Append(market, shape)
  BY DEF MarketStep, CloseBar
<1>2. market' \in Seq(Shapes) /\ Len(market') = Len(market) + 1 /\ Len(market) \in Nat
  BY <1>1, LenProperties DEF IInv, TypeOK, CoreTypeOK
<1>3. Len(market') <= MaxBar /\ ClosedBars \subseteq ClosedBars'
  BY <1>2, BoundsAssumption DEF MarketStep, CloseBar, ClosedBars
<1>4. UNCHANGED <<setup, stored, coarse, signals, predictions, queue, bar, tracked, pc, local,
                  faults, stage>>
  BY DEF MarketStep, CloseBar, candleVars, feedVars, taskVars
<1>5. TypeOK'
  BY <1>2, <1>3, <1>4 DEF IInv, TypeOK, CoreTypeOK, Ids
<1>6. CarriedOK'
  BY <1>4 DEF IInv, CarriedOK, OpenIds, Ids
<1> QED
  BY <1>5, <1>6 DEF IInv

(* The candle tables only grow, by bars that have closed. *)
LEMMA FeedInv ==
    IInv /\ (BackfillM15 \/ BackfillCoarse \/ PollCoarse \/ PollM15) => IInv'
<1> SUFFICES ASSUME IInv, BackfillM15 \/ BackfillCoarse \/ PollCoarse \/ PollM15
             PROVE  IInv'
  OBVIOUS
<1>1. stored \subseteq stored' /\ stored' \subseteq ClosedBars
  BY RecentIsSubset
     DEF IInv, TypeOK, CoreTypeOK, BackfillM15, BackfillCoarse, PollCoarse, PollM15, Fetched
<1>2. coarse' \subseteq CoarseBars
  BY RecentIsSubset
     DEF IInv, TypeOK, CoreTypeOK, BackfillM15, BackfillCoarse, PollCoarse, PollM15, Fetched,
         ClosedCoarse
<1>3. queue' \subseteq stored'
  BY <1>1 DEF IInv, TypeOK, CoreTypeOK, BackfillM15, BackfillCoarse, PollCoarse, PollM15,
              NewlyClosed, feedVars
<1>4. stage' \in Stages
  BY DEF BackfillM15, BackfillCoarse, PollCoarse, PollM15, Stages
<1>5. UNCHANGED <<market, setup, signals, predictions, bar, tracked, pc, local, faults>>
  BY DEF BackfillM15, BackfillCoarse, PollCoarse, PollM15, marketVars, feedVars, taskVars
<1>6. TypeOK'
  BY <1>1, <1>2, <1>3, <1>4, <1>5 DEF IInv, TypeOK, CoreTypeOK, Ids, ClosedBars
<1>7. CarriedOK'
  BY <1>5 DEF IInv, CarriedOK, OpenIds, Ids
<1> QED
  BY <1>6, <1>7 DEF IInv

(* A failure or a restart drops work in progress and writes no table.        *)
LEMMA FaultInv == IInv /\ FaultStep => IInv'
<1> SUFFICES ASSUME IInv, FaultStep PROVE IInv'
  OBVIOUS
<1>1. faults' \in 0..MaxFaults
  BY BoundsAssumption
     DEF FaultStep, BackfillFails, FetchFails, PersistFails, Restart, PredictFails, HandlerFails,
         CanFail, IInv, TypeOK, CoreTypeOK
<1>2. stage' \in Stages
  BY DEF FaultStep, BackfillFails, FetchFails, PersistFails, Restart, Stages, IInv, TypeOK
<1>3. UNCHANGED <<market, setup, stored, coarse, signals, predictions>>
  BY DEF FaultStep, BackfillFails, FetchFails, PersistFails, Restart, PredictFails, HandlerFails,
         LoseMemory, marketVars, candleVars
<1>4. queue' \subseteq queue /\ bar' \in {0} \union stored /\ tracked' \subseteq tracked
  BY DEF FaultStep, BackfillFails, FetchFails, PersistFails, Restart, PredictFails, HandlerFails,
         LoseMemory, feedVars, IInv, TypeOK, CoreTypeOK
<1>5. /\ pc' \in [Tasks -> Steps] /\ local' \in [Tasks -> Locals]
      /\ \A p \in Tasks : pc'[p] = "save" => pc[p] = "save" /\ local'[p] = local[p]
  <2>1. NoLocal \in Locals
    BY BoundsAssumption DEF NoLocal, Locals
  <2>2. CASE UNCHANGED taskVars
    BY <2>2 DEF taskVars, IInv, TypeOK, CoreTypeOK
  <2>3. CASE Restart
    BY <2>1, <2>3 DEF Restart, LoseMemory, Steps
  <2>4. CASE HandlerFails
    BY <2>1, <2>4, FeedIsTask DEF HandlerFails, Idle, Steps, IInv, TypeOK, CoreTypeOK
  <2> QED
    BY <2>2, <2>3, <2>4 DEF FaultStep, BackfillFails, FetchFails, PersistFails, PredictFails
<1>6. TypeOK'
  BY <1>1, <1>2, <1>3, <1>4, <1>5 DEF IInv, TypeOK, CoreTypeOK, Ids, ClosedBars
<1>7. CarriedOK'
  BY <1>3, <1>4, <1>5 DEF IInv, CarriedOK, OpenIds, Ids
<1> QED
  BY <1>6, <1>7 DEF IInv

(* The handlers start on a candle that is stored. *)
LEMMA PredictInv == IInv /\ Predict /\ UNCHANGED stage => IInv'
<1> SUFFICES ASSUME IInv, Predict, UNCHANGED stage PROVE IInv'
  OBVIOUS
<1>1. PICK b \in queue : queue' = queue \ {b} /\ bar' = b /\ predictions' = Append(predictions, b)
  BY DEF Predict
<1>2. b \in Bars /\ b \in stored
  BY <1>1, StoredBars DEF IInv, TypeOK, CoreTypeOK
<1>3. predictions' \in Seq(Bars)
  BY <1>1, <1>2 DEF IInv, TypeOK, CoreTypeOK
<1>4. pc' \in [Tasks -> Steps] /\ \A p \in Tasks : pc'[p] = "save" => pc[p] = "save"
  BY FeedIsTask DEF Predict, Goto, Steps, IInv, TypeOK, CoreTypeOK
<1>5. UNCHANGED <<market, setup, stored, coarse, signals, tracked, local, faults, stage>>
  BY DEF Predict, marketVars, candleVars
<1> QED
  BY <1>1, <1>2, <1>3, <1>4, <1>5
     DEF IInv, TypeOK, CoreTypeOK, CarriedOK, Ids, OpenIds, ClosedBars

(* What SignalTracker is going to write was open when it read the table. *)
LEMMA TrackerReadInv == IInv /\ TrackerRead /\ UNCHANGED stage => IInv'
<1> SUFFICES ASSUME IInv, TrackerRead, UNCHANGED stage PROVE IInv'
  OBVIOUS
<1>1. tracked' \subseteq OpenIds
  BY DEF TrackerRead, Graded
<1>2. pc' \in [Tasks -> Steps] /\ \A p \in Tasks : pc'[p] = "save" => pc[p] = "save"
  BY FeedIsTask DEF TrackerRead, Goto, Steps, IInv, TypeOK, CoreTypeOK
<1>3. UNCHANGED <<market, setup, stored, coarse, signals, predictions, queue, bar, local, faults,
                  stage>>
  BY DEF TrackerRead, marketVars, candleVars
<1> QED
  BY <1>1, <1>2, <1>3 DEF IInv, TypeOK, CoreTypeOK, CarriedOK, Ids, OpenIds, ClosedBars

(* What one update_outcome does to the signal table. *)
LEMMA ResolveEffect ==
    ASSUME IInv, TrackerResolve
    PROVE  /\ signals' \in Seq(Rows) /\ Ids' = Ids
           /\ OpenIds' \subseteq OpenIds
           /\ tracked' \subseteq OpenIds'
           /\ \A j \in Ids : /\ signals'[j].opened = signals[j].opened
                             /\ j \notin OpenIds => signals'[j] = signals[j]
<1>1. PICK i \in tracked :
        /\ signals' = [signals EXCEPT
              ![i].status = Outcome(market[bar], signals[i].opened, bar, Expiry),
              ![i].closed = bar]
        /\ tracked' = tracked \ {i}
  BY DEF TrackerResolve
<1> DEFINE out == Outcome(market[bar], signals[i].opened, bar, Expiry)
<1>2. signals \in Seq(Rows) /\ i \in DOMAIN signals /\ i \in OpenIds /\ tracked \subseteq OpenIds
  BY DEF IInv, TypeOK, CoreTypeOK, CarriedOK, OpenIds, Ids
<1>3. out \in Statuses
  BY OutcomeType
<1>4. bar \in 0..MaxBar
  BY StoredBars
<1> DEFINE row == [signals[i] EXCEPT !.status = out, !.closed = bar]
<1>5. row \in Rows /\ row.opened = signals[i].opened /\ signals' = [signals EXCEPT ![i] = row]
  <2>1. signals[i] \in Rows
    BY <1>2, LenProperties, ElementOfSeq
  <2>2. row \in Rows /\ row.opened = signals[i].opened
    <3> HIDE DEF out
    <3> QED
      BY <2>1, <1>3, <1>4 DEF Rows
  <2>3. signals' = [signals EXCEPT ![i] = row]
    BY <1>1, <1>2
  <2> QED
    BY <2>2, <2>3
<1> HIDE DEF row
<1>6. /\ signals' \in Seq(Rows) /\ DOMAIN signals' = DOMAIN signals
      /\ \A j \in DOMAIN signals \ {i} : signals'[j] = signals[j]
      /\ signals'[i].opened = signals[i].opened
  BY <1>2, <1>5, UpdateRow
<1> QED
  BY <1>1, <1>2, <1>6 DEF Ids, OpenIds

(* One update_outcome keeps the other rows SignalTracker holds open. *)
LEMMA TrackerResolveInv == IInv /\ TrackerResolve /\ UNCHANGED stage => IInv'
<1> SUFFICES ASSUME IInv, TrackerResolve, UNCHANGED stage PROVE IInv'
  OBVIOUS
<1>1. signals' \in Seq(Rows) /\ tracked' \subseteq OpenIds' /\ tracked' \subseteq Ids'
  BY ResolveEffect DEF OpenIds
<1>2. pc' \in [Tasks -> Steps] /\ \A p \in Tasks : pc'[p] = "save" => pc[p] = "save"
  BY FeedIsTask DEF TrackerResolve, Goto, Steps, IInv, TypeOK, CoreTypeOK
<1>3. UNCHANGED <<market, setup, stored, coarse, predictions, queue, bar, local, faults, stage>>
  BY DEF TrackerResolve, marketVars, candleVars
<1> QED
  BY <1>1, <1>2, <1>3 DEF IInv, TypeOK, CoreTypeOK, CarriedOK, ClosedBars

(* What one save does to the signal table. *)
LEMMA SaveEffect ==
    ASSUME IInv, NEW p \in Tasks, Save(p)
    PROVE  /\ signals' \in Seq(Rows)
           /\ Ids' = Ids \union {Len(signals) + 1} /\ Len(signals) + 1 \notin Ids
           /\ OpenIds' = OpenIds \union {Len(signals) + 1}
           /\ \A i \in Ids : signals'[i] = signals[i]
           /\ signals'[Len(signals) + 1].opened = local[p].tap
<1> DEFINE row == [opened |-> local[p].tap, asof |-> local[p].asof,
                   status |-> "open", closed |-> 0]
<1>1. row \in Rows
  BY BoundsAssumption DEF IInv, CarriedOK, Save, Rows, Statuses
<1>2. row.status = "open" /\ row.opened = local[p].tap
  OBVIOUS
<1>3. signals' = Append(signals, row) /\ signals \in Seq(Rows)
  BY DEF Save, IInv, TypeOK, CoreTypeOK
<1> HIDE DEF row
<1> QED
  BY <1>1, <1>2, <1>3, AppendRow DEF Ids, OpenIds

(* A new row is open, and holds what the builder found. *)
LEMMA SaveInv == ASSUME NEW p \in Tasks PROVE IInv /\ Save(p) /\ UNCHANGED stage => IInv'
<1> SUFFICES ASSUME IInv, Save(p), UNCHANGED stage PROVE IInv'
  OBVIOUS
<1>1. signals' \in Seq(Rows) /\ Ids \subseteq Ids' /\ OpenIds \subseteq OpenIds'
  BY SaveEffect
<1>2. NoLocal \in Locals
  BY BoundsAssumption DEF NoLocal, Locals
<1>3. /\ pc' \in [Tasks -> Steps] /\ local' \in [Tasks -> Locals]
      /\ \A q \in Tasks : pc'[q] = "save" => pc[q] = "save" /\ local'[q] = local[q]
  BY <1>2 DEF Save, Idle, Steps, IInv, TypeOK, CoreTypeOK
<1>4. UNCHANGED <<market, setup, stored, coarse, predictions, queue, bar, tracked, faults, stage>>
  BY DEF Save, marketVars, candleVars, feedVars
<1> QED
  BY <1>1, <1>3, <1>4 DEF IInv, TypeOK, CoreTypeOK, CarriedOK, ClosedBars

(* The steps of signal construction before the save write no table. *)
LEMMA BuildInv ==
    ASSUME NEW p \in Tasks
    PROVE  IInv /\ (CheckOpen(p) \/ ReadCoarse(p) \/ ReadM15(p) \/ BuildNone(p) \/ BuildFound(p))
             /\ UNCHANGED stage => IInv'
<1> SUFFICES ASSUME IInv, UNCHANGED stage,
                    CheckOpen(p) \/ ReadCoarse(p) \/ ReadM15(p) \/ BuildNone(p) \/ BuildFound(p)
             PROVE  IInv'
  OBVIOUS
<1>1. UNCHANGED <<market, setup, stored, coarse, signals, predictions, queue, bar, tracked,
                  faults, stage>>
  BY DEF CheckOpen, ReadCoarse, ReadM15, BuildNone, BuildFound, marketVars, candleVars, feedVars
<1>2. stored \subseteq Bars /\ coarse \subseteq CoarseBars
  BY StoredBars DEF IInv, TypeOK, CoreTypeOK
<1>3. pc' \in [Tasks -> Steps]
  BY DEF CheckOpen, ReadCoarse, ReadM15, BuildNone, BuildFound, Goto, Idle, Steps,
         IInv, TypeOK, CoreTypeOK
<1>4. /\ local' \in [Tasks -> Locals]
      /\ \A q \in Tasks : pc'[q] = "save" => local'[q].tap \in Bars /\ local'[q].asof \in Bars
  <2>1. local \in [Tasks -> Locals] /\ pc \in [Tasks -> Steps]
    BY DEF IInv, TypeOK, CoreTypeOK
  <2>2. CASE CheckOpen(p)
    BY <2>1, <2>2 DEF CheckOpen, Goto, IInv, CarriedOK
  <2>3. CASE ReadCoarse(p)
    <3>1. Recent(coarse, CoarseWindow) \subseteq CoarseBars
      BY <1>2, RecentIsSubset
    <3>2. [local[p] EXCEPT !.coarse = Recent(coarse, CoarseWindow)] \in Locals
      BY <2>1, <3>1 DEF Locals
    <3>3. local' = [local EXCEPT ![p] = [local[p] EXCEPT !.coarse = Recent(coarse, CoarseWindow)]]
      BY <2>1, <2>3 DEF ReadCoarse
    <3> QED
      BY <2>1, <2>3, <3>2, <3>3 DEF ReadCoarse, Goto, IInv, CarriedOK
  <2>4. CASE ReadM15(p)
    <3>1. Recent(stored, Window) \subseteq Bars
      BY <1>2, RecentIsSubset
    <3>2. [local[p] EXCEPT !.m15 = Recent(stored, Window)] \in Locals
      BY <2>1, <3>1 DEF Locals
    <3>3. local' = [local EXCEPT ![p] = [local[p] EXCEPT !.m15 = Recent(stored, Window)]]
      BY <2>1, <2>4 DEF ReadM15
    <3> QED
      BY <2>1, <2>4, <3>2, <3>3 DEF ReadM15, Goto, IInv, CarriedOK
  <2>5. CASE BuildNone(p)
    BY <2>1, <2>5, BoundsAssumption DEF BuildNone, Idle, NoLocal, Locals, IInv, CarriedOK
  <2>6. CASE BuildFound(p)
    <3>1. PICK t \in BuildTaps(p), n \in local[p].m15 :
            local' = [local EXCEPT ![p] = [coarse |-> {}, m15 |-> {}, tap |-> t, asof |-> n]]
      BY <2>6 DEF BuildFound
    <3>2. t \in Bars /\ n \in Bars
      BY <2>1 DEF BuildTaps, EntryTaps, Locals
    <3>3. [coarse |-> {}, m15 |-> {}, tap |-> t, asof |-> n] \in Locals
      BY <3>2, BoundsAssumption DEF Locals, Bars
    <3> QED
      BY <2>1, <2>6, <3>1, <3>2, <3>3 DEF BuildFound, Goto, IInv, CarriedOK
  <2> QED
    BY <2>2, <2>3, <2>4, <2>5, <2>6
<1> QED
  BY <1>1, <1>3, <1>4 DEF IInv, TypeOK, CoreTypeOK, CarriedOK, ClosedBars, Ids, OpenIds

(* A stuttering step changes nothing IInv speaks of. *)
LEMMA StutterInv == IInv /\ UNCHANGED vars => IInv'
BY DEF vars, IInv, TypeOK, CoreTypeOK, CarriedOK, Ids, OpenIds, ClosedBars

(* Every step keeps IInv. *)
LEMMA StepInv == IInv /\ [Next]_vars => IInv'
<1> SUFFICES ASSUME IInv, [Next]_vars PROVE IInv'
  OBVIOUS
<1>1. ASSUME NEW p \in Tasks, BuildStep(p), UNCHANGED stage PROVE IInv'
  BY <1>1, SaveInv, BuildInv DEF BuildStep
<1>2. CASE MarketStep
  BY <1>2, MarketInv
<1>3. CASE FeedStep
  BY <1>1, <1>3, FeedInv, PredictInv, TrackerReadInv, TrackerResolveInv, FeedIsTask
     DEF FeedStep, HandlerStep
<1>4. CASE FaultStep
  BY <1>4, FaultInv
<1>5. CASE ClientStep
  BY <1>1, <1>5, FeedIsTask DEF ClientStep, RestStep
<1>6. CASE UNCHANGED vars
  BY <1>6, StutterInv
<1> QED
  BY <1>2, <1>3, <1>4, <1>5, <1>6 DEF Next

(* IInv holds throughout, in every behaviour of the pipeline. *)
THEOREM Invariance == Spec => []IInv
BY InitInv, StepInv, PTL DEF Spec

(* Every variable keeps its type; in particular no candle is stored that the *)
(* market has not closed, and no handler ever runs on one that is not stored.*)
THEOREM TypeCorrect == Spec => []TypeOK
BY Invariance, PTL DEF IInv

-----------------------------------------------------------------------------
(* The number of open signals. *)

(* The open signals and the tasks past the guard can be counted. *)
LEMMA FiniteSets ==
    IInv => IsFiniteSet(OpenIds) /\ IsFiniteSet(PastCheck) /\ IsFiniteSet(Tasks)
            /\ Cardinality(Tasks) = Cardinality(Clients) + 1
            /\ Cardinality(PastCheck) <= Cardinality(Tasks)
<1> SUFFICES ASSUME IInv
             PROVE  IsFiniteSet(OpenIds) /\ IsFiniteSet(PastCheck) /\ IsFiniteSet(Tasks)
                    /\ Cardinality(Tasks) = Cardinality(Clients) + 1
                    /\ Cardinality(PastCheck) <= Cardinality(Tasks)
  OBVIOUS
<1>1. IsFiniteSet(Tasks) /\ Cardinality(Tasks) = Cardinality(Clients) + 1
  BY FeedAssumption, FS_AddElement DEF Tasks
<1>2. IsFiniteSet(PastCheck) /\ Cardinality(PastCheck) <= Cardinality(Tasks)
  BY <1>1, FS_Subset DEF PastCheck
<1>3. Ids = 1..Len(signals) /\ Len(signals) \in Nat
  BY LenProperties DEF IInv, TypeOK, CoreTypeOK, Ids
<1>4. IsFiniteSet(Ids)
  BY <1>3, FS_Interval
<1>5. OpenIds \in SUBSET Ids
  BY DEF OpenIds
<1> QED
  BY <1>1, <1>2, <1>4, <1>5, FS_Subset

(* A step that opens no signal and lets no task past the guard. *)
LEMMA FewerKeepsBound ==
    ASSUME IInv, IInv', OpenBounded, OpenIds' \subseteq OpenIds, PastCheck' \subseteq PastCheck
    PROVE  OpenBounded'
<1>1. Cardinality(OpenIds') <= Cardinality(OpenIds)
  BY FiniteSets, FS_Subset
<1>2. Cardinality(PastCheck') <= Cardinality(PastCheck)
  BY FiniteSets, FS_Subset
<1>3. /\ Cardinality(OpenIds) \in Nat /\ Cardinality(OpenIds') \in Nat
      /\ Cardinality(PastCheck) \in Nat /\ Cardinality(PastCheck') \in Nat
      /\ Cardinality(Clients) \in Nat
  <2>1. IsFiniteSet(OpenIds') /\ IsFiniteSet(PastCheck')
    BY FiniteSets, FS_Subset
  <2> QED
    BY <2>1, FiniteSets, FS_CardinalityType, FeedAssumption
<1> QED
  BY <1>1, <1>2, <1>3 DEF OpenBounded

(* The task that saves its signal leaves the tasks past the guard. *)
LEMMA SaveKeepsBound ==
    ASSUME NEW p \in Tasks, IInv, OpenBounded, Save(p)
    PROVE  OpenBounded'
<1>1. OpenIds' = OpenIds \union {Len(signals) + 1} /\ Len(signals) + 1 \notin OpenIds
  BY SaveEffect DEF OpenIds
<1>2. Cardinality(OpenIds') = Cardinality(OpenIds) + 1
  BY <1>1, FiniteSets, FS_AddElement
<1>3. PastCheck' = PastCheck \ {p} /\ p \in PastCheck
  BY DEF Save, Idle, PastCheck, IInv, TypeOK, CoreTypeOK
<1>4. Cardinality(PastCheck') = Cardinality(PastCheck) - 1
  BY <1>3, FiniteSets, FS_RemoveElement
<1>5. /\ Cardinality(OpenIds) \in Nat /\ Cardinality(PastCheck) \in Nat
      /\ Cardinality(Clients) \in Nat
  BY FiniteSets, FS_CardinalityType, FeedAssumption
<1> QED
  BY <1>2, <1>4, <1>5 DEF OpenBounded

(* The guard lets a task past only when no signal is open, and then there    *)
(* are no more tasks to save than there are tasks.                           *)
LEMMA CheckKeepsBound ==
    ASSUME NEW p \in Tasks, IInv, IInv', OpenBounded, CheckOpen(p)
    PROVE  OpenBounded'
<1>1. UNCHANGED signals
  BY DEF CheckOpen
<1>2. OpenIds' = OpenIds
  BY <1>1 DEF OpenIds, Ids
<1>3. CASE OpenIds = {}
  <2>1. Cardinality(OpenIds') = 0
    BY <1>2, <1>3, FS_EmptySet
  <2>2. Cardinality(PastCheck') \in Nat /\ Cardinality(PastCheck') <= Cardinality(Clients) + 1
    <3>1. IsFiniteSet(Tasks) /\ PastCheck' \in SUBSET Tasks
      BY FiniteSets DEF PastCheck
    <3>2. IsFiniteSet(PastCheck') /\ Cardinality(PastCheck') <= Cardinality(Tasks)
      BY <3>1, FS_Subset
    <3> QED
      BY <3>2, FiniteSets, FS_CardinalityType
  <2> QED
    BY <2>1, <2>2, FeedAssumption, FS_CardinalityType DEF OpenBounded
<1>4. CASE OpenIds # {}
  <2>1. PastCheck' \subseteq PastCheck
    BY <1>4 DEF CheckOpen, Goto, PastCheck, IInv, TypeOK, CoreTypeOK
  <2> QED
    BY <1>2, <2>1, FewerKeepsBound
<1> QED
  BY <1>3, <1>4

(* Every step keeps OpenBounded. *)
LEMMA BoundStep == IInv /\ IInv' /\ OpenBounded /\ [Next]_vars => OpenBounded'
<1> SUFFICES ASSUME IInv, IInv', OpenBounded, [Next]_vars PROVE OpenBounded'
  OBVIOUS
<1>1. ASSUME NEW p \in Tasks, BuildStep(p) PROVE OpenBounded'
  <2>1. CASE Save(p)
    BY <2>1, SaveKeepsBound
  <2>2. CASE CheckOpen(p)
    BY <2>2, CheckKeepsBound
  <2>3. CASE ReadCoarse(p) \/ ReadM15(p) \/ BuildNone(p) \/ BuildFound(p)
    <3>1. UNCHANGED signals
      BY <2>3 DEF ReadCoarse, ReadM15, BuildNone, BuildFound
    <3>2. OpenIds' = OpenIds
      BY <3>1 DEF OpenIds, Ids
    <3>3. PastCheck' \subseteq PastCheck
      BY <2>3 DEF ReadCoarse, ReadM15, BuildNone, BuildFound, Goto, Idle, PastCheck,
                  IInv, TypeOK, CoreTypeOK
    <3> QED
      BY <3>2, <3>3, FewerKeepsBound
  <2> QED
    BY <1>1, <2>1, <2>2, <2>3 DEF BuildStep
<1>2. CASE TrackerResolve
  <2>1. PastCheck' \subseteq PastCheck
    BY <1>2, FeedIsTask DEF TrackerResolve, Goto, PastCheck, IInv, TypeOK, CoreTypeOK
  <2> QED
    BY <1>2, <2>1, ResolveEffect, FewerKeepsBound
<1>3. CASE Predict \/ TrackerRead
  <2>1. UNCHANGED signals
    BY <1>3 DEF Predict, TrackerRead
  <2>2. OpenIds' = OpenIds
    BY <2>1 DEF OpenIds, Ids
  <2>3. PastCheck' \subseteq PastCheck
    BY <1>3, FeedIsTask DEF Predict, TrackerRead, Goto, PastCheck, IInv, TypeOK, CoreTypeOK
  <2> QED
    BY <2>2, <2>3, FewerKeepsBound
<1>4. CASE MarketStep \/ BackfillM15 \/ BackfillCoarse \/ PollCoarse \/ PollM15 \/ UNCHANGED vars
  <2>1. UNCHANGED <<signals, pc>>
    BY <1>4 DEF MarketStep, CloseBar, BackfillM15, BackfillCoarse, PollCoarse, PollM15, vars,
                taskVars
  <2> QED
    BY <2>1 DEF OpenBounded, OpenIds, Ids, PastCheck
<1>5. CASE FaultStep
  <2>1. UNCHANGED signals
    BY <1>5 DEF FaultStep, BackfillFails, FetchFails, PersistFails, Restart, PredictFails,
                HandlerFails, LoseMemory
  <2>2. OpenIds' = OpenIds
    BY <2>1 DEF OpenIds, Ids
  <2>3. PastCheck' \subseteq PastCheck
    BY <1>5, FeedIsTask
       DEF FaultStep, BackfillFails, FetchFails, PersistFails, Restart, PredictFails,
           HandlerFails, LoseMemory, Idle, taskVars, PastCheck, IInv, TypeOK, CoreTypeOK
  <2> QED
    BY <2>2, <2>3, FewerKeepsBound
<1> QED
  BY <1>1, <1>2, <1>3, <1>4, <1>5, FeedIsTask
     DEF Next, FeedStep, HandlerStep, ClientStep, RestStep

(* Nothing is open at the start, and nobody past the guard. *)
LEMMA BoundInit == Init => OpenBounded
<1> SUFFICES ASSUME Init PROVE OpenBounded
  OBVIOUS
<1>1. OpenIds = {} /\ PastCheck = {}
  BY DEF Init, CoreInit, OpenIds, Ids, PastCheck
<1>2. Cardinality(OpenIds) = 0 /\ Cardinality(PastCheck) = 0 /\ Cardinality(Clients) \in Nat
  BY <1>1, FS_EmptySet, FS_CardinalityType, FeedAssumption
<1> QED
  BY <1>2 DEF OpenBounded

(* However many HTTP requests race the feed task, a symbol has at most one   *)
(* open signal for each task that can be past the guard at once.             *)
THEOREM OpenSignalsBounded == Spec => []OpenBounded
BY BoundInit, BoundStep, Invariance, PTL DEF Spec

(* With the feed task alone, the guard of SignalService is enough.           *)
THEOREM OneOpenWithoutRequests == ASSUME Clients = {} PROVE Spec => []OneOpen
<1>1. IInv /\ OpenBounded => OneOpen
  <2> SUFFICES ASSUME IInv, OpenBounded PROVE OneOpen
    OBVIOUS
  <2>1. Cardinality(Clients) = 0
    BY FS_EmptySet
  <2>2. Cardinality(OpenIds) \in Nat /\ Cardinality(PastCheck) \in Nat
    BY FiniteSets, FS_CardinalityType
  <2> QED
    BY <2>1, <2>2 DEF OpenBounded, OneOpen
<1> QED
  BY <1>1, OpenSignalsBounded, Invariance, PTL

-----------------------------------------------------------------------------
(* SignalTracker and SignalService never touch a signal that has resolved,   *)
(* whatever fails and whoever else writes the table.                         *)
THEOREM ResolvedSignalsAreFinal == Spec => ResolvedIsFinal
<1> DEFINE Final == \A i \in Ids :
                       /\ i \in DOMAIN signals'
                       /\ signals[i].status # "open" => signals'[i] = signals[i]
                       /\ signals'[i].opened = signals[i].opened
<1>1. IInv /\ [Next]_vars => [Final]_coreVars
  <2> SUFFICES ASSUME IInv, [Next]_vars PROVE Final
    OBVIOUS
  <2>1. CASE TrackerResolve
    BY <2>1, ResolveEffect DEF OpenIds, Ids
  <2>2. ASSUME NEW p \in Tasks, Save(p) PROVE Final
    BY <2>2, SaveEffect DEF Ids
  <2>3. CASE UNCHANGED signals
    BY <2>3 DEF Ids
  <2>4. ASSUME NEW p \in Tasks, BuildStep(p) PROVE Save(p) \/ UNCHANGED signals
    BY <2>4 DEF BuildStep, CheckOpen, ReadCoarse, ReadM15, BuildNone, BuildFound
  <2>5. MarketStep \/ FaultStep \/ UNCHANGED vars => UNCHANGED signals
    BY DEF MarketStep, CloseBar, FaultStep, BackfillFails, FetchFails, PersistFails, Restart,
           PredictFails, HandlerFails, LoseMemory, vars
  <2>6. FeedStep => \/ TrackerResolve \/ UNCHANGED signals
                    \/ \E p \in Tasks : BuildStep(p)
    BY FeedIsTask DEF FeedStep, HandlerStep, BackfillM15, BackfillCoarse, PollCoarse, PollM15,
                      Predict, TrackerRead
  <2>7. ClientStep => \E p \in Tasks : BuildStep(p)
    BY FeedIsTask DEF ClientStep, RestStep
  <2> QED
    BY <2>1, <2>2, <2>3, <2>4, <2>5, <2>6, <2>7 DEF Next
<1> QED
  BY <1>1, Invariance, PTL DEF Spec, ResolvedIsFinal

-----------------------------------------------------------------------------
(* The tap of the row the feed task is about to save is later than every tap *)
(* the table holds.                                                          *)
FreshTap == pc[Feed] = "save" => \A i \in Ids : signals[i].opened < local[Feed].tap

(* A step that opens no signal, moves no tap, and does not bring the feed    *)
(* task to its save.                                                         *)
LEMMA SameTaps ==
    ASSUME IInv, TapsIncrease, FreshTap,
           Ids' = Ids, \A i \in Ids : signals'[i].opened = signals[i].opened,
           pc'[Feed] = "save" => pc[Feed] = "save" /\ local'[Feed] = local[Feed]
    PROVE  TapsIncrease' /\ FreshTap'
BY DEF TapsIncrease, FreshTap

(* Saving a tap newer than every row keeps the rows in order. *)
LEMMA FeedSaveKeepsTaps ==
    ASSUME IInv, TapsIncrease, FreshTap, Save(Feed)
    PROVE  TapsIncrease' /\ FreshTap'
<1>1. /\ Ids' = Ids \union {Len(signals) + 1}
      /\ \A i \in Ids : signals'[i] = signals[i]
      /\ signals'[Len(signals) + 1].opened = local[Feed].tap
  BY SaveEffect, FeedIsTask
<1>2. Ids = 1..Len(signals) /\ Len(signals) \in Nat
  BY LenProperties DEF IInv, TypeOK, CoreTypeOK, Ids
<1>3. \A i \in Ids : signals[i].opened < local[Feed].tap
  BY DEF Save, FreshTap
<1>4. TapsIncrease'
  <2> SUFFICES ASSUME NEW i \in Ids', NEW j \in Ids', i < j
               PROVE  signals'[i].opened < signals'[j].opened
    BY DEF TapsIncrease
  <2>1. i \in Ids
    BY <1>1, <1>2
  <2>2. CASE j \in Ids
    BY <1>1, <2>1, <2>2 DEF TapsIncrease
  <2>3. CASE j = Len(signals) + 1
    BY <1>1, <1>3, <2>1, <2>3
  <2> QED
    BY <1>1, <2>2, <2>3
<1>5. pc'[Feed] = "idle"
  BY FeedIsTask DEF Save, Idle, IInv, TypeOK, CoreTypeOK
<1> QED
  BY <1>4, <1>5 DEF FreshTap

(* eligible_entry_candles: what build_signal finds is a new tap.             *)
LEMMA FeedBuildKeepsTaps ==
    ASSUME IInv, TapsIncrease, FreshTap, BuildFound(Feed)
    PROVE  TapsIncrease' /\ FreshTap'
<1>1. UNCHANGED signals
  BY DEF BuildFound
<1>2. PICK t \in BuildTaps(Feed), n \in local[Feed].m15 :
        local' = [local EXCEPT ![Feed] = [coarse |-> {}, m15 |-> {}, tap |-> t, asof |-> n]]
  BY DEF BuildFound
<1>3. local'[Feed].tap = t
  BY <1>2, FeedIsTask DEF IInv, TypeOK, CoreTypeOK
<1>4. \A i \in Ids : signals[i].opened \in Bars
  <2>1. signals \in Seq(Rows) /\ Ids = 1..Len(signals)
    BY LenProperties DEF IInv, TypeOK, CoreTypeOK, Ids
  <2>2. \A i \in Ids : signals[i] \in Rows
    BY <2>1, ElementOfSeq
  <2> QED
    BY <2>2 DEF Rows
<1>5. t \in Bars
  BY FeedIsTask DEF BuildTaps, EntryTaps, IInv, TypeOK, CoreTypeOK, Locals
<1>6. \A i \in Ids : t > signals[i].opened
  BY DEF BuildTaps, EntryTaps, UsedTaps
<1> QED
  BY <1>1, <1>3, <1>4, <1>5, <1>6, BoundsAssumption DEF TapsIncrease, FreshTap, Ids, Bars

(* With the feed task alone, every step keeps the rows in order of tap. *)
LEMMA TapsStep ==
    ASSUME Clients = {}
    PROVE  IInv /\ TapsIncrease /\ FreshTap /\ [Next]_vars => TapsIncrease' /\ FreshTap'
<1> SUFFICES ASSUME IInv, TapsIncrease, FreshTap, [Next]_vars PROVE TapsIncrease' /\ FreshTap'
  OBVIOUS
<1>1. CASE Save(Feed)
  BY <1>1, FeedSaveKeepsTaps
<1>2. CASE BuildFound(Feed)
  BY <1>2, FeedBuildKeepsTaps
<1>3. CASE TrackerResolve
  <2>1. Ids' = Ids /\ \A i \in Ids : signals'[i].opened = signals[i].opened
    BY <1>3, ResolveEffect
  <2>2. pc'[Feed] # "save"
    BY <1>3, FeedIsTask DEF TrackerResolve, Goto, IInv, TypeOK, CoreTypeOK
  <2> QED
    BY <2>1, <2>2, SameTaps
<1>4. CASE \/ Predict \/ TrackerRead \/ CheckOpen(Feed) \/ ReadCoarse(Feed) \/ ReadM15(Feed)
           \/ BuildNone(Feed)
  <2>1. UNCHANGED signals
    BY <1>4 DEF Predict, TrackerRead, CheckOpen, ReadCoarse, ReadM15, BuildNone
  <2>2. pc'[Feed] # "save"
    BY <1>4, FeedIsTask
       DEF Predict, TrackerRead, CheckOpen, ReadCoarse, ReadM15, BuildNone, Goto, Idle,
           IInv, TypeOK, CoreTypeOK
  <2> QED
    BY <2>1, <2>2, SameTaps DEF Ids
<1>5. CASE MarketStep \/ BackfillM15 \/ BackfillCoarse \/ PollCoarse \/ PollM15 \/ FaultStep
           \/ UNCHANGED vars
  <2>1. UNCHANGED signals
    BY <1>5 DEF MarketStep, CloseBar, BackfillM15, BackfillCoarse, PollCoarse, PollM15, FaultStep,
                BackfillFails, FetchFails, PersistFails, Restart, PredictFails, HandlerFails,
                LoseMemory, vars
  <2>2. pc'[Feed] = "save" => pc[Feed] = "save" /\ local'[Feed] = local[Feed]
    BY <1>5, FeedIsTask
       DEF MarketStep, CloseBar, BackfillM15, BackfillCoarse, PollCoarse, PollM15, FaultStep,
           BackfillFails, FetchFails, PersistFails, Restart, PredictFails, HandlerFails,
           LoseMemory, Idle, taskVars, vars, IInv, TypeOK, CoreTypeOK
  <2> QED
    BY <2>1, <2>2, SameTaps DEF Ids
<1> QED
  BY <1>1, <1>2, <1>3, <1>4, <1>5
     DEF Next, FeedStep, HandlerStep, BuildStep, ClientStep, RestStep

(* With the feed task alone, no tap opens a second signal, and signals are   *)
(* stored in the order of their taps, through failures and restarts.         *)
THEOREM TapsIncreaseWithoutRequests == ASSUME Clients = {} PROVE Spec => []TapsIncrease
<1>1. Init => TapsIncrease /\ FreshTap
  BY FeedIsTask DEF Init, CoreInit, TapsIncrease, FreshTap, Ids
<1> QED
  BY <1>1, TapsStep, Invariance, PTL DEF Spec
=============================================================================
