----------------------------- MODULE GradingProofs -----------------------------
(* Theorems about the candles a poll hands to the handlers, the predictions   *)
(* they log and the rows they grade, for every value of the constants.        *)
EXTENDS TradingViewProofs

-----------------------------------------------------------------------------
(* The inductive invariants.                                                  *)

(* No handler runs and no candle waits except between two poll cycles.        *)
PollsAlone == stage # "poll_coarse" => InFeed

(* What the handlers saw, or are about to see.                                *)
Seen == {predictions[i] : i \in DOMAIN predictions} \union queue

(* A bar passed over has left the window a poll fetches.                      *)
PassedIsGone ==
    \A s \in Seen : \A b \in 1..s : b \notin stored => b + PollCount <= Len(market) + 1

PredictedBeforeQueue == \A i \in DOMAIN predictions : \A q \in queue : predictions[i] < q

PollInv == IInv /\ PollsAlone /\ PassedIsGone /\ PredictedBeforeQueue /\ PredictedOnce

(* The handlers run on a stored candle, those that wait are newer, and only   *)
(* SignalTracker's loop has rows to write, each one for a level its candle    *)
(* reaches.                                                                   *)
HandlersOK ==
    /\ pc[Feed] # "idle" => bar \in stored \intersect Seen /\ \A q \in queue : bar < q
    /\ tracked # {} => pc[Feed] = "resolve"
    /\ \A i \in tracked : Outcome(market[bar], signals[i].opened, bar, Expiry) # "open"

(* The signal under construction knows the newest candle of the table.        *)
ReadsNewest ==
    /\ pc[Feed] = "build" => local[Feed].m15 = Recent(stored, Window)
    /\ pc[Feed] = "save" =>
          local[Feed].asof \in stored /\ \A s \in stored : s <= local[Feed].asof

RowsStored ==
    /\ \A i \in Ids : signals[i].asof \in stored
    /\ \A i \in Ids \ OpenIds : signals[i].closed \in stored \intersect Seen

(* Candle b still is to be looked at for row i.                               *)
ToGrade(i, b) ==
    \/ b \in queue
    \/ b = bar /\ (pc[Feed] = "track" \/ i \in tracked)

OpenUntilGraded ==
    \A i \in OpenIds : \A b \in stored :
        b > signals[i].asof =>
            ToGrade(i, b) \/ Outcome(market[b], signals[i].opened, b, Expiry) = "open"

(* GradedByFirstHit among the candles of the table.                           *)
GradedByFirstStored ==
    \A i \in Ids \ OpenIds :
        LET row == signals[i]
            grade(b) == Outcome(market[b], row.opened, b, Expiry)
        IN /\ grade(row.closed) = row.status
           /\ \A b \in stored : row.asof < b /\ b < row.closed => grade(b) = "open"

(* Without a restart, the backfill of the 15-minute table finds it empty.     *)
ColdStart == stage = "backfill_m15" => stored = {}

GradesOK ==
    HandlersOK /\ ReadsNewest /\ RowsStored /\ OpenUntilGraded /\ GradedByFirstStored

GradeInv == PollInv /\ ColdStart /\ GradesOK

(* The market is at most MaxLag bars ahead of the table, which has no gap.    *)
LagBounded == \A b \in Unstored : Len(market) < b + MaxLag
NoGap == \A r, s \in stored : r..s \subseteq stored

GapInv == GradeInv /\ LagBounded /\ NoGap

-----------------------------------------------------------------------------
(* Lemmas on the rules.                                                       *)

(* A finite set of numbers has a newest one.                                  *)
LEMMA HasNewest ==
    ASSUME NEW n \in Nat, NEW S \in SUBSET (1..n), S # {}
    PROVE  \E m \in S : \A s \in S : s <= m
<1> DEFINE Newer(x) == {c \in S : c > x}
           T == {Newer(x) : x \in S}
<1>1. T \subseteq FiniteSubsetsOf(Nat)
  <2> SUFFICES ASSUME NEW x \in S PROVE Newer(x) \in FiniteSubsetsOf(Nat)
    OBVIOUS
  <2>1. Newer(x) \in SUBSET (1..n) /\ Newer(x) \in SUBSET Nat
    <3>1. S \subseteq 1..n /\ 1..n \subseteq Nat /\ Newer(x) \subseteq S
      OBVIOUS
    <3> HIDE DEF Newer
    <3> QED
      BY <3>1
  <2>2. IsFiniteSet(1..n)
    BY FS_Interval
  <2> QED
    BY <2>1, <2>2, FS_Subset DEF FiniteSubsetsOf
<1>2. PICK U \in T : \A V \in T : <<V, U>> \notin StrictSubsetOrdering(Nat)
  <2>1. T # {}
    OBVIOUS
  <2> HIDE DEF T
  <2> QED
    BY <1>1, <2>1, FS_StrictSubsetOrderingWellFounded, WFMin
<1>3. PICK m \in S : U = Newer(m)
  OBVIOUS
<1>4. ASSUME NEW s \in S, s > m PROVE FALSE
  <2>1. Newer(s) \in T
    OBVIOUS
  <2>2. s \in U /\ s \notin Newer(s)
    BY <1>3, <1>4
  <2>3. Newer(s) \subseteq U
    <3>1. \A c \in S : c > s => c > m
      BY <1>4
    <3> QED
      BY <1>3, <3>1
  <2>4. Newer(s) \in SUBSET Nat /\ U \in SUBSET Nat
    BY <1>1, <1>2, <2>1 DEF FiniteSubsetsOf
  <2> HIDE DEF Newer
  <2>5. <<Newer(s), U>> \in StrictSubsetOrdering(Nat)
    BY <2>2, <2>3, <2>4 DEF StrictSubsetOrdering
  <2> QED
    BY <1>2, <2>1, <2>5
<1> QED
  BY <1>4

(* Of the bars up to n, at most n - b are newer than b.                       *)
LEMMA NewerBars ==
    ASSUME NEW n \in Nat, NEW S \in SUBSET (1..n), NEW b \in 1..n
    PROVE  /\ Cardinality({c \in S : c > b}) \in Nat
           /\ Cardinality({c \in S : c > b}) <= n - b
           /\ S = 1..n => Cardinality({c \in S : c > b}) = n - b
<1>1. IsFiniteSet((b + 1)..n) /\ Cardinality((b + 1)..n) = n - b
  <2>1. b + 1 \in Int /\ n \in Int
    OBVIOUS
  <2>2. /\ IsFiniteSet((b + 1)..n)
        /\ Cardinality((b + 1)..n) = IF b + 1 > n THEN 0 ELSE n - (b + 1) + 1
    BY <2>1, FS_Interval
  <2> QED
    BY <2>2
<1>2. {c \in S : c > b} \in SUBSET ((b + 1)..n)
  <2>1. \A c \in S : c \in Nat /\ c <= n /\ (c > b => c \in (b + 1)..n)
    OBVIOUS
  <2> QED
    BY <2>1
<1>3. S = 1..n => {c \in S : c > b} = (b + 1)..n
  OBVIOUS
<1> QED
  BY <1>1, <1>2, <1>3, FS_Subset, FS_CardinalityType

(* get_recent of a table returns a row whose bar is among the newest ones.    *)
LEMMA RecentHasNewest ==
    ASSUME NEW n \in Nat, NEW S \in SUBSET (1..n), NEW k \in Nat \ {0}, NEW m \in S,
           \A s \in S : s <= m
    PROVE  m \in Recent(S, k)
<1>1. {c \in S : c > m} = {}
  <2>1. m \in Nat /\ \A s \in S : s \in Nat /\ ~(s > m)
    OBVIOUS
  <2> QED
    BY <2>1
<1>2. Cardinality({c \in S : c > m}) = 0
  BY <1>1, FS_EmptySet
<1> QED
  BY <1>2 DEF Recent

(* What a fetch of k candles returns once the forming one is dropped.         *)
LEMMA FetchedBars ==
    ASSUME NEW n \in Nat, NEW k \in Nat, NEW b \in 1..n
    PROVE  b \in Fetched(1..n, k) <=> n + 1 < b + k
<1>1. Cardinality({c \in 1..n : c > b}) = n - b
  BY NewerBars
<1> QED
  BY <1>1 DEF Fetched, Recent

(* A stored bar that new enough is in the window read from the table.         *)
LEMMA RecentStored ==
    ASSUME NEW n \in Nat, NEW S \in SUBSET (1..n), NEW b \in S, NEW k \in Nat, n < b + k
    PROVE  b \in Recent(S, k)
<1>1. Cardinality({c \in S : c > b}) \in Nat /\ Cardinality({c \in S : c > b}) <= n - b
  BY NewerBars
<1> QED
  BY <1>1 DEF Recent

(* What a poll queues was not stored before.                                  *)
LEMMA QueuedIsNew ==
    ASSUME IInv
    PROVE  /\ NewlyClosed = Fetched(ClosedBars, PollCount) \ stored
           /\ Len(market) \in Nat
           /\ \A b \in ClosedBars :
                 b \in Fetched(ClosedBars, PollCount) <=> Len(market) + 1 < b + PollCount
<1>1. Len(market) \in Nat /\ stored \in SUBSET (1..Len(market)) /\ PollCount \in Nat
  BY LenProperties, FetchAssumption DEF IInv, TypeOK, CoreTypeOK, ClosedBars
<1>2. \A b \in ClosedBars :
        b \in Fetched(ClosedBars, PollCount) <=> Len(market) + 1 < b + PollCount
  BY <1>1, FetchedBars DEF ClosedBars
<1>3. ASSUME NEW b \in Fetched(ClosedBars, PollCount), b \in stored
      PROVE  b \in Recent(stored, PollCount)
  <2>1. b \in 1..Len(market) /\ Len(market) + 1 < b + PollCount
    BY <1>2, <1>3, RecentIsSubset DEF Fetched, ClosedBars
  <2>2. Len(market) < b + PollCount
    BY <1>1, <2>1
  <2> QED
    BY <1>1, <1>3, <2>2, RecentStored
<1>4. Recent(stored, PollCount) \subseteq stored
  BY RecentIsSubset
<1> QED
  BY <1>1, <1>2, <1>3, <1>4 DEF NewlyClosed

-----------------------------------------------------------------------------
(* What every step does.                                                      *)

(* Candles are only added to the market and to the table, and a closed candle *)
(* is never changed.                                                          *)
LEMMA CandlesOnlyGrow ==
    ASSUME IInv, [Next]_vars
    PROVE  /\ stored \subseteq stored'
           /\ Len(market) \in Nat /\ Len(market') \in Nat /\ Len(market) <= Len(market')
           /\ \A b \in ClosedBars : b \in ClosedBars' /\ market'[b] = market[b]
<1>1. Len(market) \in Nat /\ market \in Seq(Shapes)
  BY LenProperties DEF IInv, TypeOK, CoreTypeOK
<1>2. CASE MarketStep
  <2>1. stored' = stored /\ \E shape \in Shapes : market' = Append(market, shape)
    BY <1>2 DEF MarketStep, CloseBar, candleVars
  <2>2. /\ Len(market') = Len(market) + 1
        /\ \A b \in 1..Len(market) : market'[b] = market[b]
    BY <1>1, <2>1
  <2> QED
    BY <1>1, <2>1, <2>2 DEF ClosedBars
<1>3. CASE ~MarketStep
  <2>1. market' = market /\ stored \subseteq stored'
    BY <1>3 DEF Next, FeedStep, BackfillM15, BackfillCoarse, PollCoarse, PollM15, HandlerStep,
                Predict, TrackerRead, TrackerResolve, BuildStep, CheckOpen, ReadCoarse, ReadM15,
                BuildNone, BuildFound, Save, FaultStep, BackfillFails, FetchFails, PersistFails,
                Restart, PredictFails, HandlerFails, LoseMemory, ClientStep, RestStep, vars,
                marketVars, candleVars
  <2> QED
    BY <1>1, <2>1 DEF ClosedBars
<1> QED
  BY <1>2, <1>3

(* The handlers run, and candles wait for them, only between poll cycles.     *)
LEMMA PollsAloneStep == IInv /\ PollsAlone /\ [Next]_vars => PollsAlone'
<1> SUFFICES ASSUME IInv, PollsAlone, [Next]_vars PROVE PollsAlone'
  OBVIOUS
<1>1. pc \in [Tasks -> Steps] /\ Feed \in Tasks /\ Feed \notin Clients
  BY FeedIsTask, FeedAssumption DEF IInv, TypeOK, CoreTypeOK
<1>2. CASE MarketStep \/ UNCHANGED vars
  BY <1>2 DEF MarketStep, CloseBar, vars, feedVars, taskVars, PollsAlone, InFeed
<1>3. CASE BackfillM15 \/ BackfillCoarse \/ PollCoarse \/ PollM15
  BY <1>3 DEF BackfillM15, BackfillCoarse, PollCoarse, PollM15, feedVars, taskVars, PollsAlone,
              InFeed
<1>4. CASE HandlerStep /\ UNCHANGED stage
  <2>1. ~InFeed
    BY <1>4 DEF HandlerStep, Predict, TrackerRead, TrackerResolve, BuildStep, CheckOpen, MayCheck,
                ReadCoarse, ReadM15, BuildNone, BuildFound, Save, InFeed
  <2> QED
    BY <1>4, <2>1 DEF PollsAlone
<1>5. CASE FaultStep
  <2>1. CASE BackfillFails \/ FetchFails \/ PersistFails
    BY <2>1 DEF BackfillFails, FetchFails, PersistFails, Serving, feedVars, taskVars, PollsAlone,
                InFeed
  <2>2. CASE Restart
    BY <1>1, <2>2 DEF Restart, LoseMemory, PollsAlone, InFeed
  <2>3. CASE (PredictFails \/ HandlerFails) /\ UNCHANGED stage
    <3>1. ~InFeed
      BY <2>3 DEF PredictFails, HandlerFails, InFeed
    <3> QED
      BY <2>3, <3>1 DEF PollsAlone
  <2> QED
    BY <1>5, <2>1, <2>2, <2>3 DEF FaultStep
<1>6. CASE ClientStep
  <2>1. UNCHANGED <<queue, stage>> /\ pc'[Feed] = pc[Feed]
    BY <1>1, <1>6
       DEF ClientStep, RestStep, BuildStep, CheckOpen, ReadCoarse, ReadM15, BuildNone, BuildFound,
           Save, Goto, Idle, feedVars
  <2> QED
    BY <2>1 DEF PollsAlone, InFeed
<1> QED
  BY <1>2, <1>3, <1>4, <1>5, <1>6 DEF Next, FeedStep

-----------------------------------------------------------------------------
(* Every bar is logged once.                                                  *)

(* Only a poll puts a candle before the handlers, and only the handlers log   *)
(* one.                                                                       *)
LEMMA QueueEffect ==
    ASSUME IInv, [Next]_vars
    PROVE  \/ PollM15
           \/ Predict
           \/ queue' \subseteq queue /\ UNCHANGED predictions
BY DEF Next, MarketStep, CloseBar, FeedStep, BackfillM15, BackfillCoarse, PollCoarse, HandlerStep,
       TrackerRead, TrackerResolve, BuildStep, CheckOpen, ReadCoarse, ReadM15,
       BuildNone, BuildFound, Save, FaultStep, BackfillFails, FetchFails, PersistFails,
       Restart, PredictFails, HandlerFails, LoseMemory, ClientStep, RestStep, vars, feedVars

(* The bars the feed has seen are bars.                                       *)
LEMMA SeenType == IInv => Seen \subseteq Bars
<1> SUFFICES ASSUME IInv PROVE Seen \subseteq Bars
  OBVIOUS
<1>1. predictions \in Seq(Bars) /\ queue \subseteq Bars
  BY StoredBars DEF IInv, TypeOK, CoreTypeOK
<1>2. \A i \in DOMAIN predictions : predictions[i] \in Bars
  BY <1>1
<1> QED
  BY <1>1, <1>2 DEF Seen

(* A step that shows the handlers no new candle.                              *)
LEMMA SeenShrinks ==
    ASSUME IInv, [Next]_vars, PassedIsGone, Seen' \subseteq Seen
    PROVE  PassedIsGone'
<1> SUFFICES ASSUME NEW s \in Seen', NEW b \in 1..s, b \notin stored'
             PROVE  b + PollCount <= Len(market') + 1
  BY DEF PassedIsGone
<1>1. b \notin stored /\ s \in Seen
  BY CandlesOnlyGrow
<1>2. b + PollCount <= Len(market) + 1
  BY <1>1 DEF PassedIsGone
<1>3. b \in Nat /\ PollCount \in Nat
  BY <1>1, SeenType, FetchAssumption, BoundsAssumption DEF Bars
<1> QED
  BY <1>2, <1>3, CandlesOnlyGrow

(* PredictionService logs the oldest candle of the queue: it is newer than    *)
(* all it has logged, and older than those that wait.                         *)
LEMMA PredictKeepsOrder ==
    ASSUME IInv, PassedIsGone, PredictedBeforeQueue, PredictedOnce, Predict, [Next]_vars
    PROVE  PassedIsGone' /\ PredictedBeforeQueue' /\ PredictedOnce'
<1>1. PICK b \in queue :
        IsOldest(b, queue) /\ queue' = queue \ {b} /\ predictions' = Append(predictions, b)
  BY DEF Predict
<1>2. predictions \in Seq(Bars) /\ queue \subseteq Bars /\ b \in Bars /\ Bars \subseteq Nat
  BY <1>1, StoredBars, BoundsAssumption DEF IInv, TypeOK, CoreTypeOK, Bars
<1>3. /\ DOMAIN predictions = 1..Len(predictions) /\ Len(predictions) \in Nat
      /\ DOMAIN predictions' = 1..(Len(predictions) + 1)
      /\ \A i \in 1..Len(predictions) : predictions'[i] = predictions[i]
      /\ predictions'[Len(predictions) + 1] = b
  BY <1>1, <1>2
<1>4. Seen' \subseteq Seen
  BY <1>1, <1>3 DEF Seen
<1>5. PredictedOnce'
  <2> SUFFICES ASSUME NEW i \in DOMAIN predictions', NEW j \in DOMAIN predictions', i < j
               PROVE  predictions'[i] < predictions'[j]
    BY DEF PredictedOnce
  <2>1. i \in DOMAIN predictions
    BY <1>3
  <2>2. CASE j \in DOMAIN predictions
    BY <1>3, <2>1, <2>2 DEF PredictedOnce
  <2>3. CASE j = Len(predictions) + 1
    BY <1>1, <1>3, <2>1, <2>3 DEF PredictedBeforeQueue
  <2> QED
    BY <1>3, <2>2, <2>3
<1>6. PredictedBeforeQueue'
  <2> SUFFICES ASSUME NEW i \in DOMAIN predictions', NEW q \in queue'
               PROVE  predictions'[i] < q
    BY DEF PredictedBeforeQueue
  <2>1. q \in queue /\ b < q
    BY <1>1, <1>2 DEF IsOldest
  <2>2. CASE i \in DOMAIN predictions
    BY <1>3, <2>1, <2>2 DEF PredictedBeforeQueue
  <2>3. CASE i = Len(predictions) + 1
    BY <1>3, <2>1, <2>3
  <2> QED
    BY <1>3, <2>2, <2>3
<1> QED
  BY <1>4, <1>5, <1>6, SeenShrinks

(* A poll finds new what it fetches and the table does not have: candles the  *)
(* handlers did not pass, and all the unstored ones of its window.            *)
LEMMA PollKeepsOrder ==
    ASSUME IInv, PollsAlone, PassedIsGone, PredictedOnce, PollM15, [Next]_vars
    PROVE  PassedIsGone' /\ PredictedBeforeQueue' /\ PredictedOnce'
<1>1. /\ queue' = NewlyClosed /\ UNCHANGED <<market, predictions>> /\ queue = {}
      /\ stored' = stored \union Fetched(ClosedBars, PollCount)
  BY DEF PollM15, marketVars, PollsAlone, InFeed
<1>2. NewlyClosed \subseteq ClosedBars \ stored /\ stored \subseteq ClosedBars
  BY QueuedIsNew, RecentIsSubset DEF Fetched, IInv, TypeOK, CoreTypeOK
<1>3. \A b \in NewlyClosed : Len(market) + 1 < b + PollCount
  BY <1>2, QueuedIsNew
<1>4. Len(market) \in Nat /\ PollCount \in Nat /\ ClosedBars \subseteq Nat /\ Seen \subseteq Nat
  BY QueuedIsNew, SeenType, FetchAssumption DEF Bars, ClosedBars
<1>5. \A s \in Seen : \A q \in NewlyClosed : s < q
  <2> SUFFICES ASSUME NEW s \in Seen, NEW q \in NewlyClosed, q <= s PROVE FALSE
    BY <1>2, <1>4
  <2>1. q \in 1..s /\ q \notin stored
    BY <1>2, <1>4 DEF ClosedBars
  <2> QED
    BY <1>3, <1>4, <2>1 DEF PassedIsGone
<1>6. PredictedBeforeQueue'
  BY <1>1, <1>5 DEF PredictedBeforeQueue, Seen
<1>7. PassedIsGone'
  <2> SUFFICES ASSUME NEW s \in Seen', NEW b \in 1..s, b \notin stored'
               PROVE  b + PollCount <= Len(market) + 1
    BY <1>1 DEF PassedIsGone
  <2>1. CASE s \in Seen
    BY <1>1, <2>1 DEF PassedIsGone
  <2>2. CASE s \in NewlyClosed
    <3>1. b \in ClosedBars
      BY <1>2, <1>4, <2>2 DEF ClosedBars
    <3>2. b \notin Fetched(ClosedBars, PollCount)
      BY <1>1
    <3> QED
      BY <1>4, <3>1, <3>2, QueuedIsNew
  <2> QED
    BY <1>1, <2>1, <2>2 DEF Seen
<1> QED
  BY <1>1, <1>6, <1>7 DEF PredictedOnce

(* Nothing is stored or queued at the start.                                  *)
LEMMA PollInvInit == Init => PollInv
<1> SUFFICES ASSUME Init PROVE PollInv
  OBVIOUS
<1>1. predictions = <<>> /\ queue = {} /\ pc[Feed] = "idle"
  BY FeedIsTask DEF Init, CoreInit
<1>2. DOMAIN predictions = {} /\ Seen = {}
  BY <1>1 DEF Seen
<1> QED
  BY <1>1, <1>2, InitInv
     DEF PollInv, PollsAlone, InFeed, PassedIsGone, PredictedBeforeQueue, PredictedOnce

(* Polls, failures and restarts keep the queue ahead of what was handled.     *)
LEMMA PollInvStep == PollInv /\ [Next]_vars => PollInv'
<1> SUFFICES ASSUME PollInv, [Next]_vars PROVE PollInv'
  OBVIOUS
<1>1. IInv' /\ PollsAlone'
  BY StepInv, PollsAloneStep DEF PollInv
<1>2. PassedIsGone' /\ PredictedBeforeQueue' /\ PredictedOnce'
  <2>1. CASE PollM15
    BY <2>1, PollKeepsOrder DEF PollInv
  <2>2. CASE Predict
    BY <2>2, PredictKeepsOrder DEF PollInv
  <2>3. CASE queue' \subseteq queue /\ UNCHANGED predictions
    <3>1. Seen' \subseteq Seen
      BY <2>3 DEF Seen
    <3> QED
      BY <2>3, <3>1, SeenShrinks DEF PollInv, PredictedBeforeQueue, PredictedOnce
  <2> QED
    BY <2>1, <2>2, <2>3, QueueEffect DEF PollInv
<1> QED
  BY <1>1, <1>2 DEF PollInv

(* PredictionService logs each bar once and in the order the bars closed,     *)
(* through failures, restarts, gaps and any number of requests.               *)
THEOREM PredictionsOnce == Spec => []PredictedOnce
BY PollInvInit, PollInvStep, PTL DEF Spec, PollInv

-----------------------------------------------------------------------------
(* Every candle of the table grades every open row older than it.             *)

(* The failures that lose a candle: the process stops, or a handler raises    *)
(* and the others do not see its candle.  The other failures store nothing.   *)
CandleLost == Restart \/ PredictFails \/ HandlerFails
NothingStored == BackfillFails \/ FetchFails \/ PersistFails

(* Without requests, only the market and the feed act.                        *)
LEMMA FeedActsAlone ==
    ASSUME Clients = {}, Next, ~CandleLost
    PROVE  MarketStep \/ FeedStep \/ NothingStored
BY DEF Next, ClientStep, RestStep, FaultStep, CandleLost, NothingStored

(* Every row has its type. *)
LEMMA RowType ==
    ASSUME IInv
    PROVE  /\ signals \in Seq(Rows) /\ Len(signals) \in Nat /\ Ids = 1..Len(signals)
           /\ \A i \in Ids : signals[i] \in Rows
<1>1. signals \in Seq(Rows)
  BY DEF IInv, TypeOK, CoreTypeOK
<1> QED
  BY <1>1, LenProperties, ElementOfSeq DEF Ids

(* Nothing is stored before the backfill of the 15-minute table.              *)
LEMMA ColdStartStep ==
    ASSUME IInv, ColdStart, MarketStep \/ FeedStep \/ NothingStored
    PROVE  ColdStart'
BY DEF ColdStart, MarketStep, CloseBar, FeedStep, BackfillM15, BackfillCoarse, PollCoarse,
       PollM15, HandlerStep, Predict, TrackerRead, TrackerResolve, BuildStep, CheckOpen,
       ReadCoarse, ReadM15, BuildNone, BuildFound, Save, candleVars, NothingStored,
       BackfillFails, FetchFails, PersistFails

(* Without failures, what the handlers saw or wait to see is never forgotten. *)
LEMMA SeenGrows ==
    ASSUME PollInv, MarketStep \/ FeedStep
    PROVE  Seen \subseteq Seen'
<1>1. CASE Predict
  <2>1. PICK b \in queue : queue' = queue \ {b} /\ predictions' = Append(predictions, b)
    BY <1>1 DEF Predict
  <2>2. predictions \in Seq(Bars)
    BY DEF PollInv, IInv, TypeOK, CoreTypeOK
  <2>3. /\ DOMAIN predictions' = DOMAIN predictions \union {Len(predictions) + 1}
        /\ \A i \in DOMAIN predictions : predictions'[i] = predictions[i]
        /\ predictions'[Len(predictions) + 1] = b
    BY <2>1, <2>2
  <2> QED
    BY <2>1, <2>3 DEF Seen
<1>2. CASE PollM15
  <2>1. queue = {} /\ UNCHANGED predictions
    BY <1>2 DEF PollM15, PollInv, PollsAlone, InFeed
  <2> QED
    BY <2>1 DEF Seen
<1>3. CASE ~Predict /\ ~PollM15
  <2>1. UNCHANGED <<queue, predictions>>
    BY <1>3 DEF MarketStep, CloseBar, FeedStep, BackfillM15, BackfillCoarse, PollCoarse,
                HandlerStep, TrackerRead, TrackerResolve, BuildStep, CheckOpen, ReadCoarse,
                ReadM15, BuildNone, BuildFound, Save, feedVars
  <2> QED
    BY <2>1 DEF Seen
<1> QED
  BY <1>1, <1>2, <1>3

(* A step that changes no row, gives the handlers no candle and keeps every   *)
(* bar that has closed as it is.                                              *)
LEMMA RowsFrame ==
    ASSUME GradeInv, UNCHANGED <<stored, signals, queue, bar, tracked, predictions>>,
           \A b \in ClosedBars : market'[b] = market[b],
           pc[Feed] = "track" => pc'[Feed] = "track"
    PROVE  RowsStored' /\ OpenUntilGraded' /\ GradedByFirstStored'
<1>1. Ids' = Ids /\ OpenIds' = OpenIds /\ Seen' = Seen
  BY DEF Ids, OpenIds, Seen
<1>2. \A b \in stored : market'[b] = market[b]
  BY DEF GradeInv, PollInv, IInv, TypeOK, CoreTypeOK
<1>3. OpenUntilGraded'
  BY <1>1, <1>2 DEF GradeInv, GradesOK, OpenUntilGraded, ToGrade
<1>4. GradedByFirstStored'
  BY <1>1, <1>2 DEF GradeInv, GradesOK, GradedByFirstStored, RowsStored
<1> QED
  BY <1>1, <1>3, <1>4 DEF GradeInv, GradesOK, RowsStored

(* The market, and the polls of the coarse timeframe.                         *)
LEMMA OutsideKeepsGrades ==
    ASSUME GradeInv, [Next]_vars, MarketStep \/ BackfillCoarse \/ PollCoarse \/ NothingStored
    PROVE  GradesOK'
<1>1. UNCHANGED <<stored, signals, queue, bar, tracked, predictions, pc, local>>
  BY DEF MarketStep, CloseBar, BackfillCoarse, PollCoarse, NothingStored, BackfillFails,
         FetchFails, PersistFails, feedVars, taskVars, candleVars
<1>2. \A b \in ClosedBars : market'[b] = market[b]
  BY CandlesOnlyGrow DEF GradeInv, PollInv
<1>3. Seen' = Seen /\ Ids' = Ids
  BY <1>1 DEF Seen, Ids
<1>4. tracked # {} => bar \in ClosedBars
  BY DEF GradeInv, GradesOK, HandlersOK, PollInv, IInv, TypeOK, CoreTypeOK
<1>5. HandlersOK' /\ ReadsNewest'
  BY <1>1, <1>2, <1>3, <1>4 DEF GradeInv, GradesOK, HandlersOK, ReadsNewest
<1> QED
  BY <1>1, <1>2, <1>5, RowsFrame DEF GradesOK

(* Before the first candle is stored there is no row to grade.                *)
LEMMA BackfillKeepsGrades == GradeInv /\ BackfillM15 => GradesOK'
<1> SUFFICES ASSUME GradeInv, BackfillM15 PROVE GradesOK'
  OBVIOUS
<1>1. UNCHANGED <<signals, queue, bar, tracked, pc, local>> /\ stored = {}
  BY DEF BackfillM15, feedVars, taskVars, GradeInv, ColdStart
<1>2. Ids = {} /\ Ids' = {} /\ OpenIds' = {} /\ pc[Feed] = "idle" /\ tracked = {}
  BY <1>1 DEF GradeInv, GradesOK, PollInv, RowsStored, PollsAlone, InFeed, BackfillM15, Ids,
              OpenIds, HandlersOK
<1> QED
  BY <1>1, <1>2 DEF GradesOK, HandlersOK, ReadsNewest, RowsStored, OpenUntilGraded,
                    GradedByFirstStored

(* The candles a poll adds to the table wait for the handlers, and none of    *)
(* them is older than one the handlers saw.                                   *)
LEMMA PollKeepsGrades == GradeInv /\ PollM15 /\ [Next]_vars => GradesOK'
<1> SUFFICES ASSUME GradeInv, PollM15, [Next]_vars PROVE GradesOK'
  OBVIOUS
<1>1. /\ UNCHANGED <<market, signals, bar, tracked, pc, local, predictions>>
      /\ queue' = NewlyClosed /\ queue = {} /\ pc[Feed] = "idle"
      /\ stored' = stored \union Fetched(ClosedBars, PollCount)
  BY DEF PollM15, marketVars, taskVars, GradeInv, PollInv, PollsAlone, InFeed
<1>2. Ids' = Ids /\ OpenIds' = OpenIds /\ tracked = {} /\ Seen \subseteq Seen'
  BY <1>1 DEF Ids, OpenIds, GradeInv, GradesOK, HandlersOK, Seen
<1>3. \A b \in stored' : b \in stored \/ b \in queue'
  BY <1>1, QueuedIsNew DEF GradeInv, PollInv
<1>4. RowsStored' /\ OpenUntilGraded'
  BY <1>1, <1>2, <1>3 DEF GradeInv, GradesOK, RowsStored, OpenUntilGraded, ToGrade
<1>5. HandlersOK' /\ ReadsNewest'
  BY <1>1, <1>2 DEF HandlersOK, ReadsNewest
<1>6. ASSUME NEW i \in Ids \ OpenIds, NEW b \in NewlyClosed, b < signals[i].closed
      PROVE  FALSE
  <2>1. b \in ClosedBars /\ b \notin stored /\ Len(market) + 1 < b + PollCount
        /\ Len(market) \in Nat
    BY QueuedIsNew, RecentIsSubset DEF GradeInv, PollInv, Fetched
  <2>2. signals[i].closed \in Seen /\ signals[i].closed \in Nat
    BY SeenType, BoundsAssumption DEF GradeInv, PollInv, GradesOK, RowsStored, Bars
  <2>3. b \in 1..signals[i].closed
    BY <1>6, <2>1, <2>2 DEF ClosedBars
  <2>4. b + PollCount <= Len(market) + 1
    BY <2>1, <2>2, <2>3 DEF GradeInv, PollInv, PassedIsGone
  <2> QED
    BY <2>1, <2>4, FetchAssumption DEF ClosedBars
<1>7. GradedByFirstStored'
  BY <1>1, <1>2, <1>3, <1>6 DEF GradeInv, GradesOK, GradedByFirstStored
<1> QED
  BY <1>4, <1>5, <1>7 DEF GradesOK

(* The candle that leaves the queue is the one SignalTracker reads next.      *)
LEMMA PredictKeepsGrades == GradeInv /\ Predict /\ UNCHANGED stage => GradesOK'
<1> SUFFICES ASSUME GradeInv, Predict, UNCHANGED stage PROVE GradesOK'
  OBVIOUS
<1>1. PICK b \in queue : IsOldest(b, queue) /\ queue' = queue \ {b} /\ bar' = b
  BY DEF Predict
<1>2. UNCHANGED <<market, stored, signals, tracked, local>> /\ pc[Feed] = "idle"
      /\ pc'[Feed] = "track"
  BY FeedIsTask DEF Predict, Goto, marketVars, candleVars, GradeInv, PollInv, IInv, TypeOK,
                    CoreTypeOK
<1>3. Ids' = Ids /\ OpenIds' = OpenIds /\ tracked = {} /\ Seen \subseteq Seen'
  <2>1. FeedStep
    BY DEF FeedStep, HandlerStep
  <2>2. Seen \subseteq Seen'
    BY <2>1, SeenGrows DEF GradeInv
  <2> QED
    BY <1>2, <2>2 DEF Ids, OpenIds, GradeInv, GradesOK, HandlersOK
<1>4. HandlersOK' /\ ReadsNewest'
  <2>1. b \in stored /\ b \in Seen' /\ queue \subseteq Nat
    BY <1>1, <1>3, StoredBars, BoundsAssumption
       DEF Seen, GradeInv, PollInv, IInv, TypeOK, CoreTypeOK, Bars
  <2>2. \A q \in queue' : b < q
    BY <1>1, <2>1 DEF IsOldest
  <2> QED
    BY <1>1, <1>2, <1>3, <2>1, <2>2 DEF HandlersOK, ReadsNewest
<1>5. RowsStored' /\ GradedByFirstStored'
  BY <1>2, <1>3 DEF GradeInv, GradesOK, RowsStored, GradedByFirstStored
<1>6. OpenUntilGraded'
  BY <1>1, <1>2, <1>3 DEF GradeInv, GradesOK, OpenUntilGraded, ToGrade
<1> QED
  BY <1>4, <1>5, <1>6 DEF GradesOK

(* SignalTracker's read finds every open row its candle resolves.             *)
LEMMA TrackerReadKeepsGrades == GradeInv /\ TrackerRead /\ UNCHANGED stage => GradesOK'
<1> SUFFICES ASSUME GradeInv, TrackerRead, UNCHANGED stage PROVE GradesOK'
  OBVIOUS
<1>1. UNCHANGED <<market, stored, signals, queue, bar, predictions, local>>
      /\ pc[Feed] = "track" /\ tracked' = Graded(bar)
  BY DEF TrackerRead, marketVars, candleVars
<1>2. pc'[Feed] = IF Graded(bar) = {} THEN "check" ELSE "resolve"
  BY FeedIsTask DEF TrackerRead, Goto, GradeInv, PollInv, IInv, TypeOK, CoreTypeOK
<1>3. Ids' = Ids /\ OpenIds' = OpenIds /\ Seen' = Seen
  BY <1>1 DEF Ids, OpenIds, Seen
<1>4. HandlersOK' /\ ReadsNewest'
  BY <1>1, <1>2, <1>3 DEF GradeInv, GradesOK, HandlersOK, ReadsNewest, Graded
<1>5. RowsStored' /\ GradedByFirstStored'
  BY <1>1, <1>3 DEF GradeInv, GradesOK, RowsStored, GradedByFirstStored
<1>6. OpenUntilGraded'
  BY <1>1, <1>2, <1>3 DEF GradeInv, GradesOK, OpenUntilGraded, ToGrade, Graded
<1> QED
  BY <1>4, <1>5, <1>6 DEF GradesOK

(* One update_outcome writes one row, which was open and is so no longer.     *)
LEMMA ResolveRow ==
    ASSUME IInv, TrackerResolve
    PROVE  \E i \in tracked :
             /\ i \in Ids /\ Ids' = Ids /\ tracked' = tracked \ {i}
             /\ signals'[i].status = Outcome(market[bar], signals[i].opened, bar, Expiry)
             /\ signals'[i].closed = bar
             /\ signals'[i].opened = signals[i].opened /\ signals'[i].asof = signals[i].asof
             /\ \A j \in Ids \ {i} : signals'[j] = signals[j]
             /\ pc'[Feed] = IF tracked = {i} THEN "check" ELSE "resolve"
<1>1. PICK i \in tracked :
        /\ signals' = [signals EXCEPT
              ![i].status = Outcome(market[bar], signals[i].opened, bar, Expiry),
              ![i].closed = bar]
        /\ tracked' = tracked \ {i}
        /\ Goto(Feed, IF tracked = {i} THEN "check" ELSE "resolve")
  BY DEF TrackerResolve
<1> DEFINE out == Outcome(market[bar], signals[i].opened, bar, Expiry)
<1>2. i \in Ids /\ Ids = DOMAIN signals /\ signals[i] \in Rows
  BY RowType DEF IInv, TypeOK, CoreTypeOK, Ids
<1>3. pc'[Feed] = IF tracked = {i} THEN "check" ELSE "resolve"
  BY <1>1, FeedIsTask DEF Goto, IInv, TypeOK, CoreTypeOK
<1>4. signals' = [signals EXCEPT ![i].status = out, ![i].closed = bar]
  BY <1>1
<1> HIDE DEF out
<1>5. /\ Ids' = Ids
      /\ signals'[i].status = out /\ signals'[i].closed = bar
      /\ signals'[i].opened = signals[i].opened /\ signals'[i].asof = signals[i].asof
      /\ \A j \in Ids \ {i} : signals'[j] = signals[j]
  BY <1>2, <1>4, RowType DEF Ids, Rows
<1> QED
  BY <1>1, <1>2, <1>3, <1>5 DEF out

(* A row SignalTracker writes was not resolved by any older candle.           *)
LEMMA ResolveKeepsGrades == GradeInv /\ TrackerResolve /\ UNCHANGED stage => GradesOK'
<1> SUFFICES ASSUME GradeInv, TrackerResolve, UNCHANGED stage PROVE GradesOK'
  OBVIOUS
<1>1. PICK i \in tracked :
        /\ i \in Ids /\ Ids' = Ids /\ tracked' = tracked \ {i}
        /\ signals'[i].status = Outcome(market[bar], signals[i].opened, bar, Expiry)
        /\ signals'[i].closed = bar
        /\ signals'[i].opened = signals[i].opened /\ signals'[i].asof = signals[i].asof
        /\ \A j \in Ids \ {i} : signals'[j] = signals[j]
        /\ pc'[Feed] = IF tracked = {i} THEN "check" ELSE "resolve"
  BY ResolveRow DEF GradeInv, PollInv
<1>2. UNCHANGED <<market, stored, queue, bar, predictions, local>> /\ pc[Feed] = "resolve"
  BY DEF TrackerResolve, marketVars, candleVars
<1>3. /\ bar \in stored \intersect Seen /\ \A q \in queue : bar < q
      /\ signals'[i].status # "open" /\ i \in OpenIds
      /\ Seen' = Seen
  BY <1>1, <1>2 DEF GradeInv, GradesOK, HandlersOK, PollInv, IInv, CarriedOK, Seen
<1>4. OpenIds' = OpenIds \ {i}
  BY <1>1, <1>3 DEF OpenIds
<1>5. HandlersOK' /\ ReadsNewest'
  <2>1. \A j \in tracked' : signals'[j] = signals[j]
    BY <1>1 DEF GradeInv, PollInv, IInv, TypeOK, CoreTypeOK
  <2> QED
    BY <1>1, <1>2, <1>3, <2>1 DEF GradeInv, GradesOK, HandlersOK, ReadsNewest
<1>6. RowsStored'
  <2>1. ASSUME NEW j \in Ids, j # i
        PROVE  signals'[j] = signals[j] /\ (j \notin OpenIds' => j \notin OpenIds)
    BY <1>1, <1>4, <2>1
  <2> QED
    BY <1>1, <1>2, <1>3, <2>1 DEF GradeInv, GradesOK, RowsStored
<1>7. OpenUntilGraded'
  <2> SUFFICES ASSUME NEW j \in OpenIds', NEW b \in stored, b > signals[j].asof, ~ToGrade(j, b)'
               PROVE  Outcome(market[b], signals[j].opened, b, Expiry) = "open"
    BY <1>1, <1>2, <1>4 DEF OpenUntilGraded, OpenIds
  <2>1. j \in OpenIds /\ ~ToGrade(j, b)
    BY <1>1, <1>2, <1>4 DEF ToGrade
  <2> QED
    BY <2>1 DEF GradeInv, GradesOK, OpenUntilGraded
<1>8. GradedByFirstStored'
  <2> SUFFICES ASSUME NEW j \in Ids, j \notin OpenIds'
               PROVE  LET row == signals'[j]
                          grade(b) == Outcome(market[b], row.opened, b, Expiry)
                      IN /\ grade(row.closed) = row.status
                         /\ \A b \in stored : row.asof < b /\ b < row.closed => grade(b) = "open"
    BY <1>1, <1>2 DEF GradedByFirstStored
  <2>1. CASE j # i
    BY <1>1, <1>4, <2>1 DEF GradeInv, GradesOK, GradedByFirstStored
  <2>2. CASE j = i
    <3>1. ASSUME NEW b \in stored, signals[i].asof < b, b < bar
          PROVE  Outcome(market[b], signals[i].opened, b, Expiry) = "open"
      <4>1. stored \subseteq Nat /\ signals[i].asof \in stored
        BY <1>1, StoredBars, BoundsAssumption
           DEF GradeInv, GradesOK, RowsStored, PollInv, Bars
      <4>2. b > signals[i].asof /\ b \notin queue /\ b # bar
        BY <1>3, <3>1, <4>1
      <4> QED
        BY <1>3, <4>2 DEF GradeInv, GradesOK, OpenUntilGraded, ToGrade
    <3> QED
      BY <1>1, <2>2, <3>1
  <2> QED
    BY <2>1, <2>2
<1> QED
  BY <1>5, <1>6, <1>7, <1>8 DEF GradesOK

(* A new row was built from the newest candle of the table: no candle is      *)
(* there yet that could grade it.                                             *)
LEMMA SaveKeepsGrades == GradeInv /\ Save(Feed) /\ UNCHANGED stage => GradesOK'
<1> SUFFICES ASSUME GradeInv, Save(Feed), UNCHANGED stage PROVE GradesOK'
  OBVIOUS
<1> DEFINE n == Len(signals) + 1
<1>1. /\ Ids' = Ids \union {n} /\ n \notin Ids
      /\ OpenIds' = OpenIds \union {n}
      /\ \A i \in Ids : signals'[i] = signals[i]
  BY SaveEffect, FeedIsTask DEF GradeInv, PollInv
<1>2. signals'[n].asof = local[Feed].asof
  BY RowType DEF Save, GradeInv, PollInv
<1>3. UNCHANGED <<market, stored, queue, bar, tracked, predictions>> /\ pc[Feed] = "save"
      /\ pc'[Feed] = "idle"
  BY FeedIsTask DEF Save, Idle, marketVars, candleVars, feedVars, GradeInv, PollInv, IInv, TypeOK,
                    CoreTypeOK
<1>4. /\ local[Feed].asof \in stored /\ \A b \in stored : b <= local[Feed].asof
      /\ stored \subseteq Nat /\ tracked = {} /\ Seen' = Seen /\ OpenIds \subseteq Ids
  BY <1>3, StoredBars, BoundsAssumption
     DEF GradeInv, GradesOK, ReadsNewest, HandlersOK, PollInv, Seen, OpenIds, Bars
<1> HIDE DEF n
<1>5. HandlersOK' /\ ReadsNewest'
  BY <1>3, <1>4 DEF HandlersOK, ReadsNewest
<1>6. RowsStored'
  BY <1>1, <1>2, <1>3, <1>4 DEF GradeInv, GradesOK, RowsStored
<1>7. OpenUntilGraded'
  <2> SUFFICES ASSUME NEW j \in OpenIds', NEW b \in stored, b > signals'[j].asof
               PROVE  \/ ToGrade(j, b)'
                      \/ Outcome(market[b], signals'[j].opened, b, Expiry) = "open"
    BY <1>3 DEF OpenUntilGraded
  <2>1. ASSUME j = n PROVE FALSE
    <3> DEFINE a == local[Feed].asof
    <3>1. b > a /\ a \in Nat /\ b \in Nat /\ b <= a
      BY <1>2, <1>4, <2>1
    <3> HIDE DEF a
    <3> QED
      BY <3>1
  <2>2. j \in OpenIds /\ signals'[j] = signals[j]
    BY <1>1, <1>4, <2>1
  <2> QED
    BY <1>3, <1>4, <2>2 DEF GradeInv, GradesOK, OpenUntilGraded, ToGrade
<1>8. GradedByFirstStored'
  <2>1. \A j \in Ids' \ OpenIds' : j \in Ids \ OpenIds /\ signals'[j] = signals[j]
    BY <1>1
  <2> QED
    BY <1>3, <2>1 DEF GradeInv, GradesOK, GradedByFirstStored
<1> QED
  BY <1>5, <1>6, <1>7, <1>8 DEF GradesOK

(* Signal construction reads the newest candle of the table, and nothing is   *)
(* stored until it ends.                                                      *)
LEMMA BuildKeepsGrades ==
    ASSUME GradeInv, UNCHANGED stage,
           \/ CheckOpen(Feed) \/ ReadCoarse(Feed) \/ ReadM15(Feed)
           \/ BuildNone(Feed) \/ BuildFound(Feed)
    PROVE  GradesOK'
<1>1. UNCHANGED <<market, stored, signals, queue, bar, tracked, predictions>>
  BY DEF CheckOpen, ReadCoarse, ReadM15, BuildNone, BuildFound, marketVars, candleVars, feedVars
<1>2. /\ pc[Feed] \in {"check", "coarse", "m15", "build"} /\ pc'[Feed] # "track"
      /\ Feed \in Tasks /\ pc \in [Tasks -> Steps] /\ local \in [Tasks -> Locals]
  BY FeedIsTask
     DEF CheckOpen, MayCheck, ReadCoarse, ReadM15, BuildNone, BuildFound, Goto, Idle, GradeInv,
         PollInv, IInv, TypeOK, CoreTypeOK
<1>3. RowsStored' /\ OpenUntilGraded' /\ GradedByFirstStored'
  BY <1>1, <1>2, RowsFrame
<1>4. HandlersOK'
  <2>1. tracked = {} /\ Seen' = Seen
    BY <1>1, <1>2 DEF GradeInv, GradesOK, HandlersOK, Seen
  <2> QED
    BY <1>1, <1>2, <2>1 DEF GradeInv, GradesOK, HandlersOK
<1>5. ReadsNewest'
  <2>1. CASE CheckOpen(Feed) \/ ReadCoarse(Feed) \/ BuildNone(Feed)
    BY <1>2, <2>1 DEF CheckOpen, ReadCoarse, BuildNone, Goto, Idle, ReadsNewest
  <2>2. CASE ReadM15(Feed)
    BY <1>1, <1>2, <2>2 DEF ReadM15, Goto, ReadsNewest, Locals
  <2>3. CASE BuildFound(Feed)
    <3>1. PICK t \in BuildTaps(Feed), n \in local[Feed].m15 :
            /\ IsNewest(n, local[Feed].m15)
            /\ local' = [local EXCEPT ![Feed] = [coarse |-> {}, m15 |-> {}, tap |-> t,
                                                 asof |-> n]]
      BY <2>3 DEF BuildFound
    <3>2. local'[Feed].asof = n /\ pc'[Feed] = "save"
      BY <1>2, <2>3, <3>1 DEF BuildFound, Goto
    <3>3. local[Feed].m15 = Recent(stored, Window) /\ n \in stored
      BY <2>3, RecentIsSubset DEF BuildFound, GradeInv, GradesOK, ReadsNewest
    <3>4. \A s \in stored : s <= n
      <4>1. Len(market) \in Nat /\ stored \in SUBSET (1..Len(market)) /\ Window \in Nat \ {0}
        BY LenProperties, BoundsAssumption DEF GradeInv, PollInv, IInv, TypeOK, CoreTypeOK,
                                               ClosedBars
      <4>2. PICK m \in stored : \A s \in stored : s <= m
        BY <3>3, <4>1, HasNewest
      <4>3. m \in local[Feed].m15
        BY <3>3, <4>1, <4>2, RecentHasNewest
      <4>4. m <= n
        BY <3>1, <4>3 DEF IsNewest
      <4>5. stored \subseteq Nat
        BY <4>1
      <4> QED
        BY <3>3, <4>2, <4>4, <4>5
    <3> QED
      BY <1>1, <3>2, <3>3, <3>4 DEF ReadsNewest
  <2> QED
    BY <2>1, <2>2, <2>3
<1> QED
  BY <1>3, <1>4, <1>5 DEF GradesOK

(* There are no signals to grade at the start.                                *)
LEMMA GradeInvInit == Init => GradeInv
<1> SUFFICES ASSUME Init PROVE GradeInv
  OBVIOUS
<1>1. stored = {} /\ queue = {} /\ tracked = {} /\ pc[Feed] = "idle" /\ signals = <<>>
  BY FeedIsTask DEF Init, CoreInit
<1>2. Ids = {} /\ OpenIds = {}
  BY <1>1 DEF Ids, OpenIds
<1> QED
  BY <1>1, <1>2, PollInvInit
     DEF GradeInv, ColdStart, GradesOK, HandlersOK, ReadsNewest, RowsStored, OpenUntilGraded,
         GradedByFirstStored

(* Without requests, and while no candle is lost, every step of the feed      *)
(* keeps the account of which bars graded which signals.                      *)
LEMMA GradeInvStep ==
    ASSUME Clients = {}
    PROVE  GradeInv /\ [Next]_vars /\ [~CandleLost]_vars => GradeInv'
<1> SUFFICES ASSUME GradeInv, [Next]_vars, [~CandleLost]_vars PROVE GradeInv'
  OBVIOUS
<1>1. PollInv'
  BY PollInvStep DEF GradeInv
<1>2. CASE UNCHANGED vars
  <2>1. RowsStored' /\ OpenUntilGraded' /\ GradedByFirstStored'
    BY <1>2, RowsFrame DEF vars
  <2>2. Seen' = Seen /\ Ids' = Ids
    BY <1>2 DEF vars, Seen, Ids
  <2> QED
    BY <1>1, <1>2, <2>1, <2>2
       DEF vars, GradeInv, ColdStart, GradesOK, HandlersOK, ReadsNewest
<1>3. CASE Next /\ ~CandleLost
  <2>1. MarketStep \/ FeedStep \/ NothingStored
    BY <1>3, FeedActsAlone
  <2>2. ColdStart'
    BY <2>1, ColdStartStep DEF GradeInv, PollInv
  <2>3. GradesOK'
    BY <2>1, OutsideKeepsGrades, BackfillKeepsGrades, PollKeepsGrades, PredictKeepsGrades,
       TrackerReadKeepsGrades, ResolveKeepsGrades, SaveKeepsGrades, BuildKeepsGrades
       DEF FeedStep, HandlerStep, BuildStep
  <2> QED
    BY <1>1, <2>2, <2>3 DEF GradeInv
<1> QED
  BY <1>2, <1>3

(* With the feed task alone, and unless it stops or one of its handlers       *)
(* raises, no open signal is left behind by a candle that would have resolved *)
(* it, whatever the pace of the market, the sizes of the windows, the candles *)
(* a poll missed and the fetches and commits that fail                        *)
(* (docs/signal-method.md:81).                                                *)
THEOREM NoGradeMissed ==
    ASSUME Clients = {}
    PROVE  Spec /\ [][~CandleLost]_vars => []NoMissedGrade
<1>1. GradeInv => NoMissedGrade
  BY DEF GradeInv, GradesOK, HandlersOK, OpenUntilGraded, ToGrade, NoMissedGrade
<1> QED
  BY <1>1, GradeInvInit, GradeInvStep, PTL DEF Spec

(* Failures are counted, and the count never goes back.                       *)
LEMMA FailuresCounted ==
    ASSUME IInv, [Next]_vars, faults' = 0
    PROVE  faults = 0 /\ [~CandleLost]_vars
<1>1. faults \in Nat
  BY BoundsAssumption DEF IInv, TypeOK, CoreTypeOK
<1>2. ~CandleLost
  BY <1>1 DEF CandleLost, Restart, PredictFails, HandlerFails
<1>3. CASE UNCHANGED vars
  BY <1>2, <1>3 DEF vars
<1>4. CASE FaultStep
  BY <1>1, <1>4
     DEF FaultStep, BackfillFails, FetchFails, PersistFails, Restart, PredictFails, HandlerFails
<1>5. CASE MarketStep \/ FeedStep \/ ClientStep
  BY <1>2, <1>5
     DEF MarketStep, CloseBar, FeedStep, BackfillM15, BackfillCoarse, PollCoarse, PollM15,
         HandlerStep, Predict, TrackerRead, TrackerResolve, ClientStep, RestStep, BuildStep,
         CheckOpen, ReadCoarse, ReadM15, BuildNone, BuildFound, Save
<1> QED
  BY <1>3, <1>4, <1>5 DEF Next

(* With the feed task alone, as long as nothing has failed no open signal is  *)
(* left behind by a candle that would have resolved it, however candles are   *)
(* batched and whichever bars were never fetched (docs/signal-method.md:81).  *)
THEOREM NoGradeMissedYet ==
    ASSUME Clients = {}
    PROVE  Spec => []NoMissedGradeYet
<1> DEFINE Yet == faults = 0 => GradeInv
<1>1. Init => Yet
  BY GradeInvInit
<1>2. IInv /\ Yet /\ [Next]_vars => Yet'
  BY FailuresCounted, GradeInvStep
<1>3. Yet => NoMissedGradeYet
  BY DEF NoMissedGradeYet, GradeInv, GradesOK, HandlersOK, OpenUntilGraded, ToGrade, NoMissedGrade
<1> QED
  BY <1>1, <1>2, <1>3, Invariance, PTL DEF Spec

-----------------------------------------------------------------------------
(* The first candle that hits grades, when the table has no gap.              *)

(* The newest bar to be missing is not further behind than all that miss.     *)
LEMMA UnstoredLag ==
    ASSUME IInv, Cardinality(Unstored) < MaxLag, NEW b \in Unstored
    PROVE  Len(market) + 1 < b + MaxLag
<1>1. Len(market) \in Nat /\ b \in 1..Len(market) /\ stored \subseteq 1..Len(market)
  BY LenProperties DEF Unstored, ClosedBars, IInv, TypeOK, CoreTypeOK
<1>2. b..Len(market) \in SUBSET Unstored
  BY <1>1 DEF Unstored, ClosedBars
<1>3. IsFiniteSet(Unstored)
  <2>1. Unstored \in SUBSET (1..Len(market))
    BY DEF Unstored, ClosedBars
  <2>2. IsFiniteSet(1..Len(market))
    BY <1>1, FS_Interval
  <2> QED
    BY <2>1, <2>2, FS_Subset
<1>4. Cardinality(b..Len(market)) <= Cardinality(Unstored)
  BY <1>2, <1>3, FS_Subset
<1>5. Cardinality(b..Len(market)) = Len(market) - b + 1
  BY <1>1, FS_Interval
<1>6. Cardinality(Unstored) \in Nat /\ MaxLag \in Nat
  BY <1>3, FS_CardinalityType, FetchAssumption
<1> QED
  BY <1>1, <1>4, <1>5, <1>6

(* The market closes a bar only within the lag, and no step takes a candle    *)
(* from the table.                                                            *)
LEMMA LagStep ==
    ASSUME IInv, IInv', LagBounded, [Next]_vars
    PROVE  LagBounded'
<1>1. /\ stored \subseteq stored' /\ Len(market) \in Nat /\ Len(market') \in Nat
      /\ MaxLag \in Nat \ {0}
  BY CandlesOnlyGrow, FetchAssumption
<1>2. CASE MarketStep
  <2>1. Len(market') = Len(market) + 1 /\ Cardinality(Unstored) < MaxLag
    BY <1>2 DEF MarketStep, CloseBar, IInv, TypeOK, CoreTypeOK
  <2> SUFFICES ASSUME NEW b \in Unstored' PROVE Len(market) + 1 < b + MaxLag
    BY <2>1 DEF LagBounded
  <2>2. CASE b \in Unstored
    BY <2>1, <2>2, UnstoredLag
  <2>3. CASE b \notin Unstored
    <3>1. b = Len(market) + 1
      BY <1>1, <2>1, <2>3 DEF Unstored, ClosedBars
    <3> QED
      BY <1>1, <3>1
  <2> QED
    BY <2>2, <2>3
<1>3. CASE ~MarketStep
  <2>1. market' = market
    BY <1>3 DEF Next, FeedStep, BackfillM15, BackfillCoarse, PollCoarse, PollM15, HandlerStep,
                Predict, TrackerRead, TrackerResolve, BuildStep, CheckOpen, ReadCoarse, ReadM15,
                BuildNone, BuildFound, Save, FaultStep, BackfillFails, FetchFails, PersistFails,
                Restart, PredictFails, HandlerFails, LoseMemory, ClientStep, RestStep, vars,
                marketVars
  <2>2. Unstored' \subseteq Unstored
    BY <1>1, <2>1 DEF Unstored, ClosedBars
  <2> QED
    BY <2>1, <2>2 DEF LagBounded
<1> QED
  BY <1>2, <1>3

(* A fetch returns a run of bars up to the newest.                            *)
LEMMA FetchedRun ==
    ASSUME IInv, NEW k \in Nat, NEW r \in Fetched(ClosedBars, k), NEW s \in ClosedBars,
           NEW b \in r..s
    PROVE  b \in Fetched(ClosedBars, k)
<1>1. Len(market) \in Nat /\ r \in 1..Len(market) /\ s \in 1..Len(market)
  BY LenProperties, RecentIsSubset DEF Fetched, ClosedBars, IInv, TypeOK, CoreTypeOK
<1>2. Len(market) + 1 < r + k
  BY <1>1, FetchedBars DEF ClosedBars
<1>3. b \in 1..Len(market) /\ Len(market) + 1 < b + k
  BY <1>1, <1>2
<1> QED
  BY <1>1, <1>3, FetchedBars DEF ClosedBars

(* A poll that fetches more than the lag leaves no gap.                       *)
LEMMA NoGapStep ==
    ASSUME MaxLag < PollCount, IInv, ColdStart, LagBounded, NoGap,
           MarketStep \/ FeedStep \/ NothingStored
    PROVE  NoGap'
<1>1. CASE BackfillM15
  <2>1. stored' = {} \/ stored' = Fetched(ClosedBars, BackfillCount)
    BY <1>1 DEF BackfillM15, ColdStart
  <2>2. BackfillCount \in Nat /\ Fetched(ClosedBars, BackfillCount) \subseteq ClosedBars
    BY FetchAssumption, RecentIsSubset DEF Fetched
  <2> QED
    BY <2>1, <2>2, FetchedRun DEF NoGap
<1>2. CASE PollM15
  <2> DEFINE F == Fetched(ClosedBars, PollCount)
  <2>1. stored' = stored \union F /\ stored' \subseteq ClosedBars
    BY <1>2, RecentIsSubset DEF PollM15, Fetched, IInv, TypeOK, CoreTypeOK
  <2> SUFFICES ASSUME NEW r \in stored', NEW s \in stored', NEW b \in r..s
               PROVE  b \in stored'
    BY DEF NoGap
  <2>2. b \in ClosedBars /\ Len(market) \in Nat
    BY <2>1, LenProperties DEF ClosedBars, IInv, TypeOK, CoreTypeOK
  <2>3. CASE r \in F
    BY <2>1, <2>3, FetchedRun, FetchAssumption
  <2>4. CASE r \in stored /\ \E t \in stored : b <= t
    <3>1. PICK t \in stored : b <= t
      BY <2>4
    <3>2. b \in r..t
      BY <2>1, <2>2, <3>1 DEF ClosedBars
    <3> QED
      BY <2>1, <2>4, <3>2 DEF NoGap
  <2>5. CASE ~ \E t \in stored : b <= t
    <3>1. b \in Unstored
      BY <2>1, <2>2, <2>5 DEF Unstored, ClosedBars
    <3>2. Len(market) < b + MaxLag
      BY <3>1 DEF LagBounded
    <3>3. Len(market) + 1 < b + PollCount
      BY <2>2, <3>2, FetchAssumption DEF ClosedBars
    <3> QED
      BY <2>1, <2>2, <3>3, QueuedIsNew
  <2> QED
    BY <2>1, <2>3, <2>4, <2>5
<1>3. CASE ~BackfillM15 /\ ~PollM15
  <2>1. UNCHANGED stored
    BY <1>3 DEF MarketStep, CloseBar, FeedStep, BackfillCoarse, PollCoarse, HandlerStep, Predict,
                TrackerRead, TrackerResolve, BuildStep, CheckOpen, ReadCoarse, ReadM15,
                BuildNone, BuildFound, Save, candleVars, NothingStored, BackfillFails,
                FetchFails, PersistFails
  <2> QED
    BY <2>1 DEF NoGap
<1> QED
  BY <1>1, <1>2, <1>3

(* While a poll fetches more candles than the market can get ahead by, with   *)
(* the feed task alone, and unless it stops or one of its handlers raises, a  *)
(* signal is resolved by the very first bar that reaches one of its levels or *)
(* its age, and with that bar's outcome; fetches and commits may fail.        *)
THEOREM FirstHitGrades ==
    ASSUME Clients = {}, MaxLag < PollCount
    PROVE  Spec /\ [][~CandleLost]_vars => []GradedByFirstHit
<1>1. Init => GapInv
  <2>1. Init => LagBounded /\ NoGap
    BY EmptySeq DEF Init, CoreInit, LagBounded, NoGap, Unstored, ClosedBars
  <2> QED
    BY <2>1, GradeInvInit DEF GapInv
<1>2. GapInv /\ [Next]_vars /\ [~CandleLost]_vars => GapInv'
  <2> SUFFICES ASSUME GapInv, [Next]_vars, [~CandleLost]_vars PROVE GapInv'
    OBVIOUS
  <2>1. GradeInv'
    BY GradeInvStep DEF GapInv
  <2>2. LagBounded'
    BY <2>1, LagStep DEF GapInv, GradeInv, PollInv
  <2>3. NoGap'
    <3>1. CASE Next /\ ~CandleLost
      BY <3>1, FeedActsAlone, NoGapStep DEF GapInv, GradeInv, PollInv
    <3>2. CASE UNCHANGED vars
      BY <3>2 DEF vars, GapInv, NoGap
    <3> QED
      BY <3>1, <3>2
  <2> QED
    BY <2>1, <2>2, <2>3 DEF GapInv
<1>3. GapInv => GradedByFirstHit
  <2> SUFFICES ASSUME GapInv, NEW i \in Ids \ OpenIds
               PROVE  LET row == signals[i]
                          grade(b) == Outcome(market[b], row.opened, b, Expiry)
                      IN /\ grade(row.closed) = row.status
                         /\ \A b \in (row.asof + 1)..(row.closed - 1) : grade(b) = "open"
    BY DEF GradedByFirstHit
  <2>1. signals[i].asof \in stored /\ signals[i].closed \in stored /\ stored \subseteq Nat
    BY StoredBars, BoundsAssumption
       DEF GapInv, GradeInv, GradesOK, RowsStored, PollInv, Bars
  <2>2. ASSUME NEW b \in (signals[i].asof + 1)..(signals[i].closed - 1)
        PROVE  b \in stored /\ signals[i].asof < b /\ b < signals[i].closed
    <3> DEFINE a == signals[i].asof
               c == signals[i].closed
    <3>1. a \in Nat /\ c \in Nat /\ a \in stored /\ c \in stored /\ b \in (a + 1)..(c - 1)
      BY <2>1
    <3> HIDE DEF a, c
    <3>2. b \in a..c /\ a < b /\ b < c
      BY <3>1
    <3> QED
      BY <3>1, <3>2 DEF GapInv, NoGap, a, c
  <2> QED
    BY <2>2 DEF GapInv, GradeInv, GradesOK, GradedByFirstStored
<1> QED
  BY <1>1, <1>2, <1>3, PTL DEF Spec
=============================================================================
