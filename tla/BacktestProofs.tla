----------------------------- MODULE BacktestProofs ----------------------------
(* The live pipeline implements the backtest engine: for every value of the   *)
(* constants, a poll cycle that nothing disturbs does to the signal table     *)
(* what run_signal_backtest does with the same candle.                        *)
EXTENDS LiveAgainstBacktest, FreshnessProofs

-----------------------------------------------------------------------------
(* The inductive invariants.                                                  *)

(* No bar closes before the first poll.                                       *)
StartsEmpty == ~Serving => market = <<>>

(* The handlers have run on every stored candle but those that wait; while    *)
(* they run, or a candle waits, the newest bar is stored.                     *)
HandledAll ==
    /\ stored \ queue = 1..bar
    /\ ~InFeed => Len(market) \in stored

(* A coarse candle is stored no later than the last of its 15-minute candles, *)
(* and what the feed task read of them is what is stored.                     *)
CoarseWhole ==
    /\ coarse \subseteq ClosedCoarse
    /\ \A k \in CoarseBars : k * Ratio \in stored => k \in coarse
    /\ stage = "poll_m15" => ClosedCoarse \subseteq coarse
    /\ pc[Feed] \in {"m15", "build"} => local[Feed].coarse = Recent(coarse, CoarseWindow)

(* What the builder finds in the tables as they are.                          *)
LiveTaps ==
    IF SetupKnown(setup, Recent(coarse, CoarseWindow))
    THEN EntryTaps(Recent(stored, Window), UsedTaps, setup.born * Ratio, market)
    ELSE {}

FoundNewest == pc[Feed] = "save" => IsNewest(local[Feed].tap, LiveTaps)

LastOpen == \A i \in OpenIds : i = Len(signals)

LiveOK == StartsEmpty /\ HandledAll /\ CoarseWhole /\ FoundNewest /\ LastOpen

(* With the invariants of the other theorems.                                 *)
KeepsUp == GradeInv /\ OwnInv /\ OpenBounded /\ TapsIncrease /\ FreshTap

LiveInv == KeepsUp /\ LiveOK

-----------------------------------------------------------------------------
(* What the theorem is about.                                                 *)

(* Nothing disturbs a poll cycle, and it fetches the candle that just closed. *)
Undisturbed == Clients = {} /\ MaxLag = 1 /\ MidCycle = FALSE /\ PollCount >= 2

(* No step leaves a candle out: fetches may fail, and so may the backfill and *)
(* the commit of a 15-minute candle.                                          *)
Complete == ~CandleLost /\ ~CoarseDropped

(* No setup is found before the windows of the backtest are full.             *)
WarmSetups == \A s \in Setups : s.born >= CoarseWindow /\ s.born * Ratio >= Window

-----------------------------------------------------------------------------
(* The invariants hold.                                                       *)

(* Nothing has closed and nothing is read at the start.                       *)
LEMMA KeepsUpInit == ASSUME Clients = {} PROVE Init => KeepsUp
BY GradeInvInit, OwnInvInit, BoundInit, FeedIsTask
   DEF KeepsUp, Init, CoreInit, TapsIncrease, FreshTap, Ids

(* At most the newest bar is unread, and none closes inside a poll cycle.     *)
LEMMA KeepsUpStep ==
    ASSUME Undisturbed
    PROVE  KeepsUp /\ [Next]_vars /\ [Complete]_vars => KeepsUp'
BY GradeInvStep, OwnInvStep, BoundStep, TapsStep, StepInv
   DEF KeepsUp, Undisturbed, OwnInv, Complete

(* What the invariants say of the tables and of the feed task.                *)
LEMMA LiveFacts ==
    ASSUME LiveInv, Clients = {}
    PROVE  /\ Len(market) \in Nat /\ stored \subseteq 1..Len(market)
           /\ 1..(Len(market) - 1) \subseteq stored
           /\ ~InFeed => stored = 1..Len(market) /\ coarse = ClosedCoarse
           /\ pc[Feed] # "idle" => bar = Len(market) /\ bar \in Nat \ {0} /\ queue = {}
           /\ Tasks = {Feed} /\ PastCheck \subseteq {Feed}
           /\ Cardinality(OpenIds) <= 1
           /\ pc[Feed] \in {"coarse", "m15", "build", "save"} => OpenIds = {} /\ PastCheck = {Feed}
<1>1. IInv
  BY DEF LiveInv, KeepsUp, OwnInv
<1>2. Len(market) \in Nat /\ stored \subseteq 1..Len(market)
  BY <1>1, LenProperties DEF IInv, TypeOK, CoreTypeOK, ClosedBars
<1>3. 1..(Len(market) - 1) \subseteq stored
  BY DEF LiveInv, KeepsUp, OwnInv, OwnOK, AllButNewest
<1>4. ~InFeed => stored = 1..Len(market)
  <2>1. ~InFeed => Len(market) \in stored
    BY DEF LiveInv, LiveOK, HandledAll
  <2>2. \A b \in 1..Len(market) : b \in 1..(Len(market) - 1) \/ b = Len(market)
    BY <1>2
  <2> QED
    BY <1>2, <1>3, <2>1, <2>2
<1>5. ~InFeed => coarse = ClosedCoarse
  <2> SUFFICES ASSUME ~InFeed, NEW k \in ClosedCoarse PROVE k \in coarse
    BY DEF LiveInv, LiveOK, CoarseWhole
  <2>1. k \in CoarseBars /\ k * Ratio \in Nat \ {0} /\ k * Ratio <= Len(market)
    BY BoundsAssumption DEF ClosedCoarse, CoarseBars, Bars
  <2>2. k * Ratio \in stored
    BY <1>2, <1>4, <2>1
  <2> QED
    BY <2>1, <2>2 DEF LiveInv, LiveOK, CoarseWhole
<1>6. pc[Feed] # "idle" => bar = Len(market) /\ bar \in Nat \ {0} /\ queue = {}
  <2> SUFFICES ASSUME pc[Feed] # "idle"
               PROVE  bar = Len(market) /\ bar \in Nat \ {0} /\ queue = {}
    OBVIOUS
  <2>1. queue = {} /\ bar \in stored /\ \A s \in stored : s <= bar
    BY DEF LiveInv, KeepsUp, OwnInv, OwnOK, NewestHandled
  <2>2. Len(market) \in stored
    BY DEF LiveInv, LiveOK, HandledAll, InFeed
  <2> QED
    BY <1>2, <2>1, <2>2
<1>7. Tasks = {Feed} /\ PastCheck \subseteq {Feed}
  BY DEF Tasks, PastCheck
<1>8. /\ Cardinality(OpenIds) \in Nat /\ Cardinality(PastCheck) \in Nat
      /\ Cardinality(OpenIds) + Cardinality(PastCheck) <= 1
  <2>1. Cardinality(Clients) = 0
    BY FS_EmptySet
  <2> QED
    BY <1>1, <2>1, FiniteSets, FS_CardinalityType DEF LiveInv, KeepsUp, OpenBounded
<1>9. pc[Feed] \in {"coarse", "m15", "build", "save"} => OpenIds = {} /\ PastCheck = {Feed}
  <2> SUFFICES ASSUME pc[Feed] \in {"coarse", "m15", "build", "save"}
               PROVE  OpenIds = {} /\ PastCheck = {Feed}
    OBVIOUS
  <2>1. PastCheck = {Feed}
    BY <1>7 DEF PastCheck
  <2>2. Cardinality(PastCheck) = 1
    BY <2>1, FS_Singleton
  <2>3. Cardinality(OpenIds) = 0
    BY <1>8, <2>2
  <2> QED
    BY <1>1, <2>1, <2>3, FiniteSets, FS_EmptySet
<1>10. Cardinality(OpenIds) <= 1
  BY <1>8
<1> QED
  BY <1>2, <1>3, <1>4, <1>5, <1>6, <1>7, <1>9, <1>10

(* Before the first poll there is nothing to backfill.                        *)
LEMMA BackfillKeepsLive ==
    ASSUME Clients = {}, LiveInv, BackfillM15 \/ BackfillCoarse
    PROVE  LiveOK'
<1>1. /\ UNCHANGED <<market, setup, signals, queue, bar, pc, local>>
      /\ pc[Feed] = "idle" /\ stage' # "poll_m15"
      /\ stage' # "poll_coarse" => ~Serving
  BY DEF BackfillM15, BackfillCoarse, marketVars, feedVars, taskVars, LiveInv, KeepsUp, OwnInv,
         PollsAlone, InFeed, Serving
<1>2. market = <<>> /\ InFeed /\ stored = {}
  BY LiveFacts
     DEF BackfillM15, BackfillCoarse, LiveInv, LiveOK, StartsEmpty, Serving, KeepsUp, OwnInv,
         PollsAlone
<1>3. stored' = {}
  <2>1. ClosedBars = {}
    BY <1>2 DEF ClosedBars
  <2> QED
    BY <1>2, <2>1, RecentIsSubset DEF BackfillM15, BackfillCoarse, Fetched
<1>4. coarse \subseteq coarse' /\ coarse' \subseteq ClosedCoarse /\ ClosedCoarse' = ClosedCoarse
  BY <1>1, RecentIsSubset
     DEF BackfillM15, BackfillCoarse, Fetched, LiveInv, LiveOK, CoarseWhole, ClosedCoarse
<1>5. OpenIds' = OpenIds
  BY <1>1 DEF OpenIds, Ids
<1> QED
  BY <1>1, <1>2, <1>3, <1>4, <1>5
     DEF LiveInv, LiveOK, StartsEmpty, HandledAll, CoarseWhole, FoundNewest, LastOpen, InFeed

(* A fetch or a commit that fails leaves its candles to the next cycle.       *)
LEMMA FailureKeepsLive ==
    ASSUME LiveInv, NothingStored, ~CoarseDropped
    PROVE  LiveOK'
<1>1. UNCHANGED <<market, setup, stored, coarse, signals, queue, bar, pc, local>>
  BY DEF NothingStored, BackfillFails, FetchFails, PersistFails, marketVars, candleVars, feedVars,
         taskVars
<1>2. ~Serving' => ~Serving
  BY DEF NothingStored, BackfillFails, FetchFails, PersistFails, Serving
<1>3. stage' # "poll_m15"
  BY DEF NothingStored, BackfillFails, FetchFails, PersistFails, CoarseDropped
<1>4. OpenIds' = OpenIds /\ ClosedCoarse' = ClosedCoarse /\ LiveTaps' = LiveTaps
  BY <1>1 DEF OpenIds, Ids, ClosedCoarse, LiveTaps, UsedTaps
<1> QED
  BY <1>1, <1>2, <1>3, <1>4
     DEF LiveInv, LiveOK, StartsEmpty, HandledAll, CoarseWhole, FoundNewest, LastOpen, InFeed

(* A bar closes between two poll cycles.                                      *)
LEMMA MarketKeepsLive ==
    ASSUME MidCycle = FALSE, LiveInv, MarketStep
    PROVE  LiveOK'
<1>1. /\ UNCHANGED <<setup, stored, coarse, signals, queue, bar, pc, local, stage>>
      /\ stage = "poll_coarse" /\ InFeed
      /\ Len(market') = Len(market) + 1 /\ Len(market) \in Nat
  BY LenProperties
     DEF MarketStep, CloseBar, candleVars, feedVars, taskVars, LiveInv, KeepsUp, OwnInv, IInv,
         TypeOK, CoreTypeOK
<1>2. ClosedCoarse \subseteq ClosedCoarse'
  <2>1. \A k \in CoarseBars : k * Ratio \in Nat
    BY BoundsAssumption DEF CoarseBars, Bars
  <2> QED
    BY <1>1, <2>1 DEF ClosedCoarse
<1>3. OpenIds' = OpenIds
  BY <1>1 DEF OpenIds, Ids
<1> QED
  BY <1>1, <1>2, <1>3
     DEF LiveInv, LiveOK, StartsEmpty, Serving, HandledAll, CoarseWhole, FoundNewest, LastOpen,
         InFeed

(* The only coarse candle that may be missing is the newest, and the poll     *)
(* fetches it.                                                                *)
LEMMA PollCoarseKeepsLive ==
    ASSUME PollCount >= 2, Clients = {}, LiveInv, PollCoarse
    PROVE  LiveOK'
<1>1. /\ UNCHANGED <<market, setup, stored, signals, queue, bar, pc, local>>
      /\ InFeed /\ stage' = "poll_m15" /\ stage = "poll_coarse"
      /\ coarse' = coarse \union Fetched(ClosedCoarse, PollCount)
  BY DEF PollCoarse, marketVars, feedVars, taskVars
<1>2. ClosedCoarse' = ClosedCoarse /\ coarse' \subseteq ClosedCoarse
  BY <1>1, RecentIsSubset DEF ClosedCoarse, Fetched, LiveInv, LiveOK, CoarseWhole
<1>3. ASSUME NEW k \in ClosedCoarse, k \notin coarse
      PROVE  k \in Fetched(ClosedCoarse, PollCount)
  <2>1. k \in CoarseBars /\ k * Ratio \in Nat \ {0} /\ k * Ratio <= Len(market)
    BY BoundsAssumption DEF ClosedCoarse, CoarseBars, Bars
  <2>2. k * Ratio \notin stored
    BY <1>3, <2>1 DEF LiveInv, LiveOK, CoarseWhole
  <2>3. k * Ratio = Len(market)
    BY <2>1, <2>2, LiveFacts
  <2>4. \A c \in ClosedCoarse : c <= k
    <3> SUFFICES ASSUME NEW c \in ClosedCoarse, c > k PROVE FALSE
      BY BoundsAssumption DEF ClosedCoarse, CoarseBars, Bars
    <3>1. c \in Nat /\ k \in Nat /\ Ratio \in Nat \ {0} /\ c >= k + 1
      BY BoundsAssumption DEF ClosedCoarse, CoarseBars, Bars
    <3>2. c * Ratio >= k * Ratio + Ratio
      BY <3>1
    <3>3. c * Ratio <= Len(market) /\ k * Ratio \in Nat
      BY <2>1 DEF ClosedCoarse
    <3> QED
      BY <2>3, <3>1, <3>2, <3>3
  <2>5. MaxBar \in Nat /\ ClosedCoarse \in SUBSET (1..MaxBar) /\ PollCount - 1 \in Nat \ {0}
    BY BoundsAssumption, FetchAssumption DEF ClosedCoarse, CoarseBars, Bars
  <2> QED
    BY <2>4, <2>5, RecentHasNewest DEF Fetched
<1>4. ClosedCoarse \subseteq coarse'
  BY <1>1, <1>3
<1>5. OpenIds' = OpenIds
  BY <1>1 DEF OpenIds, Ids
<1> QED
  BY <1>1, <1>2, <1>4, <1>5
     DEF LiveInv, LiveOK, StartsEmpty, Serving, HandledAll, CoarseWhole, FoundNewest, LastOpen,
         InFeed

(* The poll of the 15-minute timeframe stores the newest bar, and what it     *)
(* adds waits for the handlers.                                               *)
LEMMA PollM15KeepsLive ==
    ASSUME PollCount >= 2, Clients = {}, LiveInv, PollM15
    PROVE  LiveOK'
<1>1. /\ UNCHANGED <<market, setup, coarse, signals, bar, pc, local>>
      /\ queue = {} /\ pc[Feed] = "idle" /\ stage = "poll_m15" /\ stage' = "poll_coarse"
      /\ stored' = stored \union Fetched(ClosedBars, PollCount)
      /\ queue' = NewlyClosed
  BY DEF PollM15, marketVars, taskVars, LiveInv, KeepsUp, OwnInv, PollsAlone, InFeed
<1>2. IInv /\ Fetched(ClosedBars, PollCount) \subseteq ClosedBars
  BY RecentIsSubset DEF Fetched, LiveInv, KeepsUp, OwnInv
<1>3. stored' \ queue' = 1..bar
  <2>1. queue' = Fetched(ClosedBars, PollCount) \ stored
    BY <1>1, <1>2, QueuedIsNew
  <2>2. stored = 1..bar
    BY <1>1 DEF LiveInv, LiveOK, HandledAll
  <2> QED
    BY <1>1, <2>1, <2>2
<1>4. ~InFeed' => Len(market) \in stored'
  <2> SUFFICES ASSUME queue' # {} PROVE Len(market) \in Fetched(ClosedBars, PollCount)
    BY <1>1 DEF InFeed
  <2>1. Len(market) \in Nat /\ ClosedBars # {}
    BY <1>1, <1>2, QueuedIsNew
  <2>2. Len(market) \in ClosedBars /\ Len(market) + 1 < Len(market) + PollCount
    BY <2>1, FetchAssumption DEF ClosedBars
  <2> QED
    BY <1>2, <2>2, QueuedIsNew
<1>5. coarse \subseteq ClosedCoarse' /\ \A k \in CoarseBars : k * Ratio \in stored' => k \in coarse
  <2>1. stored' \subseteq 1..Len(market)
    BY <1>1, <1>2, LiveFacts DEF ClosedBars
  <2>2. \A c \in stored' : c <= Len(market)
    BY <2>1, LiveFacts
  <2>3. \A k \in CoarseBars : k * Ratio \in stored' => k \in ClosedCoarse
    BY <2>2 DEF ClosedCoarse
  <2> QED
    BY <1>1, <2>3 DEF LiveInv, LiveOK, CoarseWhole, ClosedCoarse
<1>6. OpenIds' = OpenIds
  BY <1>1 DEF OpenIds, Ids
<1> QED
  BY <1>1, <1>3, <1>4, <1>5, <1>6
     DEF LiveInv, LiveOK, StartsEmpty, Serving, HandledAll, CoarseWhole, FoundNewest, LastOpen

(* The handlers run on the newest bar.                                        *)
LEMMA PredictKeepsLive ==
    ASSUME Clients = {}, LiveInv, KeepsUp', Predict, UNCHANGED stage
    PROVE  LiveOK'
<1>1. /\ UNCHANGED <<market, setup, stored, coarse, signals, local>>
      /\ pc[Feed] = "idle" /\ pc'[Feed] = "track" /\ queue # {}
  BY FeedIsTask DEF Predict, Goto, marketVars, candleVars, LiveInv, KeepsUp, OwnInv, IInv, TypeOK,
                    CoreTypeOK
<1>2. queue' = {} /\ bar' \in stored /\ \A s \in stored : s <= bar'
  BY <1>1 DEF KeepsUp, OwnInv, OwnOK, NewestHandled
<1>3. stored = 1..Len(market) /\ Len(market) \in Nat /\ stored # {}
  BY <1>1, LiveFacts DEF InFeed, LiveInv, KeepsUp, OwnInv, IInv, TypeOK, CoreTypeOK
<1>4. bar' = Len(market) /\ Len(market) \in stored
  BY <1>2, <1>3
<1>5. OpenIds' = OpenIds /\ ClosedCoarse' = ClosedCoarse
  BY <1>1 DEF OpenIds, Ids, ClosedCoarse
<1> QED
  BY <1>1, <1>2, <1>3, <1>4, <1>5
     DEF LiveInv, LiveOK, StartsEmpty, Serving, HandledAll, CoarseWhole, FoundNewest, LastOpen

(* A handler's step leaves the candle tables and the market as they are.      *)
LEMMA HandlerFrame ==
    ASSUME LiveInv, UNCHANGED stage, TrackerRead \/ TrackerResolve \/ BuildStep(Feed)
    PROVE  /\ UNCHANGED <<market, setup, stored, coarse, queue, bar>>
           /\ pc[Feed] # "idle" /\ StartsEmpty' /\ HandledAll'
           /\ pc'[Feed] \in {"m15", "build"} => ReadCoarse(Feed) \/ ReadM15(Feed)
           /\ pc'[Feed] = "save" => BuildFound(Feed)
           /\ pc \in [Tasks -> Steps] /\ local \in [Tasks -> Locals] /\ Feed \in Tasks
<1>1. /\ UNCHANGED <<market, setup, stored, coarse, queue, bar>>
      /\ pc[Feed] # "idle"
  BY DEF TrackerRead, TrackerResolve, BuildStep, CheckOpen, MayCheck, ReadCoarse, ReadM15,
         BuildNone, BuildFound, Save, marketVars, candleVars, feedVars
<1>2. StartsEmpty' /\ HandledAll'
  BY <1>1 DEF LiveInv, LiveOK, StartsEmpty, Serving, HandledAll, InFeed
<1>3. pc \in [Tasks -> Steps] /\ local \in [Tasks -> Locals] /\ Feed \in Tasks
  BY FeedIsTask DEF LiveInv, KeepsUp, OwnInv, IInv, TypeOK, CoreTypeOK
<1>4. /\ pc'[Feed] \in {"m15", "build"} => ReadCoarse(Feed) \/ ReadM15(Feed)
      /\ pc'[Feed] = "save" => BuildFound(Feed)
  BY <1>3 DEF TrackerRead, TrackerResolve, BuildStep, CheckOpen, ReadCoarse, ReadM15, BuildNone,
              BuildFound, Save, Goto, Idle
<1> QED
  BY <1>1, <1>2, <1>3, <1>4

(* What the builder has read is what the tables hold.                         *)
LEMMA BuildsFromTables ==
    ASSUME LiveInv, pc[Feed] = "build"
    PROVE  BuildTaps(Feed) = LiveTaps
BY DEF BuildTaps, LiveTaps, LiveInv, LiveOK, CoarseWhole, KeepsUp, GradeInv, GradesOK, ReadsNewest

(* The steps of SignalTracker and SignalService on the table of one feed      *)
(* task keep the facts about its rows.                                        *)
LEMMA HandlerKeepsLive ==
    ASSUME Clients = {}, LiveInv, UNCHANGED stage,
           TrackerRead \/ TrackerResolve \/ BuildStep(Feed)
    PROVE  LiveOK'
<1>1. ClosedCoarse' = ClosedCoarse
  BY HandlerFrame DEF ClosedCoarse
<1>2. CoarseWhole'
  <2>1. pc'[Feed] \in {"m15", "build"} => local'[Feed].coarse = Recent(coarse, CoarseWindow)
    <3>1. CASE ReadCoarse(Feed)
      BY <3>1, HandlerFrame DEF ReadCoarse, Locals
    <3>2. CASE ReadM15(Feed)
      BY <3>2, HandlerFrame DEF ReadM15, Locals, LiveInv, LiveOK, CoarseWhole
    <3> QED
      BY <3>1, <3>2, HandlerFrame
  <2> QED
    BY <1>1, <2>1, HandlerFrame DEF LiveInv, LiveOK, CoarseWhole
<1>3. FoundNewest'
  <2> SUFFICES ASSUME BuildFound(Feed) PROVE IsNewest(local'[Feed].tap, LiveTaps')
    BY HandlerFrame DEF FoundNewest
  <2>1. UNCHANGED signals /\ pc[Feed] = "build"
    BY DEF BuildFound
  <2>2. LiveTaps' = LiveTaps
    BY <2>1, HandlerFrame DEF LiveTaps, UsedTaps, Ids
  <2>3. PICK t \in BuildTaps(Feed), n \in local[Feed].m15 :
          /\ IsNewest(t, BuildTaps(Feed))
          /\ local' = [local EXCEPT ![Feed] = [coarse |-> {}, m15 |-> {}, tap |-> t, asof |-> n]]
    BY DEF BuildFound
  <2>4. local'[Feed].tap = t
    BY <2>3, HandlerFrame
  <2> QED
    BY <2>1, <2>2, <2>3, <2>4, BuildsFromTables
<1>4. LastOpen'
  <2>1. IInv
    BY DEF LiveInv, KeepsUp, OwnInv
  <2>2. CASE TrackerResolve
    <3>1. OpenIds' \subseteq OpenIds /\ Len(signals') = Len(signals)
      BY <2>1, <2>2, ResolveEffect, RowType, LenProperties DEF Ids
    <3> QED
      BY <3>1 DEF LiveInv, LiveOK, LastOpen
  <2>3. CASE Save(Feed)
    <3>1. OpenIds' = OpenIds \union {Len(signals) + 1} /\ OpenIds = {}
      BY <2>1, <2>3, SaveEffect, FeedIsTask, LiveFacts DEF Save
    <3>2. Len(signals') = Len(signals) + 1
      BY <2>1, <2>3, RowType DEF Save
    <3> QED
      BY <3>1, <3>2 DEF LastOpen
  <2>4. CASE UNCHANGED signals
    BY <2>4 DEF LiveInv, LiveOK, LastOpen, OpenIds, Ids
  <2> QED
    BY <2>2, <2>3, <2>4 DEF TrackerRead, BuildStep, CheckOpen, ReadCoarse, ReadM15, BuildNone,
                            BuildFound
<1> QED
  BY <1>2, <1>3, <1>4, HandlerFrame DEF LiveOK

(* The live invariant holds of the empty tables.                              *)
LEMMA LiveInvInit == ASSUME Clients = {} PROVE Init => LiveInv
<1> SUFFICES ASSUME Init PROVE LiveInv
  OBVIOUS
<1>1. /\ market = <<>> /\ stored = {} /\ coarse = {} /\ queue = {} /\ bar = 0
      /\ signals = <<>> /\ pc[Feed] = "idle" /\ stage = "backfill_m15"
  BY FeedIsTask DEF Init, CoreInit
<1>2. OpenIds = {} /\ InFeed
  BY <1>1 DEF OpenIds, Ids, InFeed
<1> QED
  BY <1>1, <1>2, KeepsUpInit
     DEF LiveInv, LiveOK, StartsEmpty, HandledAll, CoarseWhole, FoundNewest, LastOpen

(* Every step of an undisturbed pipeline keeps the live invariant.            *)
LEMMA LiveInvStep ==
    ASSUME Undisturbed
    PROVE  LiveInv /\ [Next]_vars /\ [Complete]_vars => LiveInv'
<1> SUFFICES ASSUME LiveInv, [Next]_vars, [Complete]_vars PROVE LiveInv'
  OBVIOUS
<1>1. KeepsUp'
  BY KeepsUpStep DEF LiveInv
<1>2. CASE UNCHANGED vars
  <2>1. OpenIds' = OpenIds /\ ClosedCoarse' = ClosedCoarse /\ LiveTaps' = LiveTaps
    BY <1>2 DEF vars, OpenIds, Ids, ClosedCoarse, LiveTaps, UsedTaps
  <2> QED
    BY <1>1, <1>2, <2>1
       DEF vars, LiveInv, LiveOK, StartsEmpty, Serving, HandledAll, CoarseWhole, FoundNewest,
           LastOpen, InFeed
<1>3. CASE Next /\ Complete
  <2>1. MarketStep \/ FeedStep \/ (NothingStored /\ ~CoarseDropped)
    BY <1>3, FeedActsAlone DEF Undisturbed, Complete
  <2> QED
    BY <1>1, <2>1, MarketKeepsLive, BackfillKeepsLive, PollCoarseKeepsLive, PollM15KeepsLive,
       PredictKeepsLive, HandlerKeepsLive, FailureKeepsLive
       DEF Undisturbed, FeedStep, HandlerStep, LiveInv
<1> QED
  BY <1>2, <1>3

-----------------------------------------------------------------------------
(* What the mapping makes of the state.                                       *)

Entries == [opened : Bars, status : Statuses, closed : 0..MaxBar]

(* The rows of the signal table are the entries of the ledger.                *)
LEMMA LedgerRows ==
    ASSUME IInv
    PROVE  /\ LiveLedger \in Seq(Entries) /\ Len(LiveLedger) = Len(signals)
           /\ DOMAIN LiveLedger = Ids
           /\ \A i \in Ids : /\ LiveLedger[i].opened = signals[i].opened
                             /\ LiveLedger[i].status = signals[i].status
<1>1. Len(signals) \in Nat /\ Ids = 1..Len(signals) /\ \A i \in Ids : signals[i] \in Rows
  BY RowType
<1>2. \A i \in Ids : [opened |-> signals[i].opened, status |-> signals[i].status,
                      closed |-> signals[i].closed] \in Entries
  BY <1>1 DEF Rows, Entries
<1>3. LiveLedger \in [1..Len(signals) -> Entries]
  BY <1>1, <1>2 DEF LiveLedger
<1>4. LiveLedger \in Seq(Entries)
  BY <1>1, <1>3, SeqDef
<1> QED
  BY <1>1, <1>3, <1>4, LenProperties DEF LiveLedger

(* The same of the rows as they will be.                                      *)
LEMMA LedgerAfter ==
    ASSUME IInv'
    PROVE  LiveLedger' \in Seq(Entries) /\ Len(LiveLedger') = Len(signals') /\ Ids' = 1..Len(signals')
<1>1. (IInv => /\ LiveLedger \in Seq(Entries) /\ Len(LiveLedger) = Len(signals)
               /\ Ids = 1..Len(signals))'
  BY LedgerRows, RowType, PTL
<1> QED
  BY <1>1

(* The open signal of the backtest is the one of the table.                   *)
LEMMA SameOpen ==
    ASSUME LiveInv
    PROVE  /\ Backtest!HasOpen <=> OpenIds # {}
           /\ OpenIds # {} => Len(signals) \in OpenIds
<1>1. /\ IInv /\ \A i \in OpenIds : i = Len(signals)
  BY DEF LiveInv, LiveOK, LastOpen, KeepsUp, OwnInv
<1>2. /\ LiveLedger \in Seq(Entries) /\ Len(LiveLedger) = Len(signals)
      /\ \A i \in Ids : LiveLedger[i].status = signals[i].status
  BY <1>1, LedgerRows
<1>3. Len(signals) \in Nat /\ Ids = 1..Len(signals)
  BY <1>1, RowType
<1>4. LiveLedger # <<>> <=> Len(signals) \in Ids
  BY <1>2, <1>3, EmptySeq
<1>5. Backtest!HasOpen <=> Len(signals) \in OpenIds
  BY <1>2, <1>4 DEF Backtest!HasOpen, OpenIds
<1> QED
  BY <1>1, <1>5

(* The instance brings a copy of every operator it uses: they agree.          *)
LEMMA SameSize == \A S : Backtest!Cardinality(S) = Cardinality(S)
BY DEF Backtest!Cardinality, Cardinality, Backtest!IsFiniteSet, IsFiniteSet

(* The rules of the two sides are the same.                                   *)
LEMMA SameRules ==
    /\ \A S, n : Backtest!Recent(S, n) = Recent(S, n)
    /\ \A s, c : Backtest!SetupKnown(s, c) <=> SetupKnown(s, c)
    /\ \A w, u, a, m : Backtest!EntryTaps(w, u, a, m) = EntryTaps(w, u, a, m)
    /\ \A b, S : Backtest!IsNewest(b, S) <=> IsNewest(b, S)
    /\ \A x, o, b, e : Backtest!Outcome(x, o, b, e) = Outcome(x, o, b, e)
<1>1. \A S, n : Backtest!Recent(S, n) = Recent(S, n)
  BY SameSize DEF Backtest!Recent, Recent
<1> QED
  BY <1>1 DEF Backtest!SetupKnown, SetupKnown, Backtest!EntryTaps, EntryTaps, Backtest!IsNewest,
              IsNewest, Backtest!Outcome, Outcome

(* The two halves of the loop body.                                           *)
BuildSteps == {"coarse", "m15", "build", "save"}

(* With no request, SignalService is building in its reads, its save, and     *)
(* at a guard that lets it past.                                              *)
LEMMA Phases ==
    ASSUME Clients = {}
    PROVE  /\ Building <=> pc[Feed] \in BuildSteps \/ (pc[Feed] = "check" /\ OpenIds = {})
           /\ Building' <=> pc'[Feed] \in BuildSteps \/ (pc'[Feed] = "check" /\ OpenIds' = {})
<1>1. Tasks = {Feed}
  BY DEF Tasks
<1>2. /\ PastCheck = {Feed} <=> pc[Feed] \in BuildSteps
      /\ PastCheck' = {Feed} <=> pc'[Feed] \in BuildSteps
  BY <1>1 DEF PastCheck, BuildSteps
<1> QED
  BY <1>2 DEF Building

(* A step the backtest does not see.                                          *)
LEMMA Unseen ==
    ASSUME UNCHANGED <<market, setup, signals>>, LiveWalked' = LiveWalked, LivePhase' = LivePhase
    PROVE  UNCHANGED Backtest!bvars
<1>1. LiveLedger' = LiveLedger
  BY DEF LiveLedger, Ids
<1> QED
  BY <1>1 DEF Backtest!bvars

(* A table with enough rows fills the window that is read of it.             *)
LEMMA FullWindow ==
    ASSUME NEW n \in Nat, NEW w \in Nat \ {0}, n >= w
    PROVE  Cardinality(Recent(1..n, w)) >= w
<1> DEFINE W == (n - w + 1)..n
<1>1. IsFiniteSet(W) /\ Cardinality(W) = w
  <2>1. n - w + 1 \in Int /\ n \in Int
    OBVIOUS
  <2>2. IsFiniteSet(W) /\ Cardinality(W) = IF n - w + 1 > n THEN 0 ELSE n - (n - w + 1) + 1
    BY <2>1, FS_Interval
  <2> QED
    BY <2>2
<1>2. ASSUME NEW b \in W PROVE b \in Recent(1..n, w)
  <2>1. b \in 1..n /\ n - b < w
    OBVIOUS
  <2>2. Cardinality({c \in 1..n : c > b}) = n - b
    BY <2>1, NewerBars
  <2> QED
    BY <2>1, <2>2 DEF Recent
<1> HIDE DEF W
<1>3. IsFiniteSet(Recent(1..n, w)) /\ W \in SUBSET Recent(1..n, w)
  <2>1. IsFiniteSet(1..n)
    BY FS_Interval
  <2> QED
    BY <1>2, <2>1, FS_Subset, RecentIsSubset
<1>4. Cardinality(W) <= Cardinality(Recent(1..n, w))
  BY <1>3, FS_Subset
<1> QED
  BY <1>1, <1>4

(* The coarse candles of a market are numbered without a gap.                 *)
LEMMA CoarseIsInterval ==
    ASSUME NEW k \in ClosedCoarse
    PROVE  \E m \in ClosedCoarse : m >= k /\ ClosedCoarse = 1..m
<1>1. /\ ClosedCoarse \in SUBSET (1..MaxBar) /\ MaxBar \in Nat /\ ClosedCoarse # {}
      /\ Ratio \in Nat \ {0}
  BY BoundsAssumption DEF ClosedCoarse, CoarseBars, Bars
<1>2. PICK m \in ClosedCoarse : \A c \in ClosedCoarse : c <= m
  BY <1>1, HasNewest
<1>3. ASSUME NEW c \in 1..m PROVE c \in ClosedCoarse
  <2>1. c \in Nat \ {0} /\ m \in Nat /\ c <= m /\ c \in Bars
    BY <1>1 DEF Bars
  <2>2. c * Ratio <= m * Ratio
    BY <1>1, <2>1
  <2>3. m * Ratio <= MaxBar /\ m * Ratio <= Len(market) /\ m * Ratio \in Nat /\ c * Ratio \in Nat
    BY <1>1, <2>1 DEF ClosedCoarse, CoarseBars
  <2>4. c * Ratio <= MaxBar
    BY <1>1, <2>2, <2>3
  <2> QED
    BY <2>1, <2>2, <2>3, <2>4 DEF ClosedCoarse, CoarseBars
<1>4. m \in Nat /\ m >= k /\ \A c \in ClosedCoarse : c \in 1..m
  BY <1>1, <1>2
<1> QED
  BY <1>3, <1>4

(* While a signal is under construction, both choose between the same taps.   *)
LEMMA TapsOfBacktest ==
    ASSUME Clients = {}, WarmSetups, LiveInv, pc[Feed] \in {"build", "save"}
    PROVE  LiveTaps = Backtest!Taps /\ Backtest!Candle = bar
<1>1. /\ bar = Len(market) /\ bar \in Nat \ {0}
      /\ stored = 1..bar /\ coarse = ClosedCoarse /\ OpenIds = {}
  BY LiveFacts DEF InFeed
<1>2. IInv /\ TapsIncrease
  BY DEF LiveInv, KeepsUp, OwnInv
<1>3. LiveWalked = bar - 1
  BY Phases DEF LiveWalked, BuildSteps
<1>4. Backtest!Candle = bar
  BY <1>1, <1>3 DEF Backtest!Candle
<1> DEFINE C == {k \in 1..bar : k * Ratio <= bar}
<1>5. C = ClosedCoarse
  <2>1. bar <= MaxBar /\ MaxBar \in Nat /\ Ratio \in Nat \ {0}
    BY <1>1, <1>2, BoundsAssumption DEF IInv, TypeOK, CoreTypeOK
  <2>2. \A k \in Nat \ {0} : k * Ratio <= bar => k \in 1..bar /\ k * Ratio <= MaxBar /\ k \in Bars
    <3> SUFFICES ASSUME NEW k \in Nat \ {0}, k * Ratio <= bar
                 PROVE  k \in 1..bar /\ k * Ratio <= MaxBar /\ k \in Bars
      OBVIOUS
    <3>1. k <= k * Ratio /\ k * Ratio \in Nat
      BY <2>1
    <3> QED
      BY <1>1, <2>1, <3>1 DEF Bars
  <2> QED
    BY <1>1, <2>1, <2>2 DEF ClosedCoarse, CoarseBars, Bars
<1> HIDE DEF C
<1>6. Backtest!CoarseSeen = Recent(coarse, CoarseWindow) /\ Backtest!Seen = Recent(stored, Window)
  <2>1. {k \in 1..Backtest!Candle : k * Ratio <= Backtest!Candle} = coarse
    BY <1>1, <1>4, <1>5 DEF C
  <2> QED
    BY <1>1, <1>4, <2>1, SameRules DEF Backtest!CoarseSeen, Backtest!Seen
<1>7. \A t \in Bars : (\A u \in UsedTaps : t > u) <=> (\A u \in Backtest!LastTap : t > u)
  <2>1. /\ Len(signals) \in Nat /\ Ids = 1..Len(signals)
        /\ \A i \in Ids : signals[i].opened \in Bars
    BY <1>2, RowType DEF Rows
  <2>2. /\ Len(LiveLedger) = Len(signals)
        /\ \A i \in Ids : LiveLedger[i].opened = signals[i].opened
        /\ LiveLedger = <<>> <=> Len(signals) = 0
    BY <1>2, <2>1, LedgerRows, EmptySeq
  <2>3. CASE Len(signals) = 0
    BY <2>1, <2>2, <2>3 DEF UsedTaps, Backtest!LastTap
  <2>4. CASE Len(signals) # 0
    <3> DEFINE n == Len(signals)
    <3>1. n \in Ids /\ Backtest!LastTap = {signals[n].opened}
      BY <2>1, <2>2, <2>4 DEF Backtest!LastTap
    <3>2. \A i \in Ids : signals[i].opened <= signals[n].opened
      BY <1>2, <2>1, <3>1, BoundsAssumption DEF TapsIncrease, Bars
    <3>3. Bars \subseteq Nat
      BY BoundsAssumption DEF Bars
    <3> HIDE DEF n
    <3> SUFFICES ASSUME NEW t \in Bars
                 PROVE  (\A i \in Ids : t > signals[i].opened) <=> t > signals[n].opened
      BY <3>1 DEF UsedTaps
    <3>4. ASSUME t > signals[n].opened, NEW i \in Ids PROVE t > signals[i].opened
      <4>1. signals[i].opened \in Nat /\ signals[n].opened \in Nat /\ t \in Nat
        BY <2>1, <3>1, <3>3, <3>4
      <4>2. signals[i].opened <= signals[n].opened
        BY <3>2, <3>4
      <4> QED
        BY <3>4, <4>1, <4>2
    <3> QED
      BY <3>1, <3>4
  <2> QED
    BY <2>3, <2>4
<1>8. SetupKnown(setup, Backtest!CoarseSeen) => Backtest!HasWarmup
  <2> SUFFICES ASSUME NEW k \in Recent(coarse, CoarseWindow), k >= setup.born
               PROVE  Backtest!HasWarmup
    BY <1>6 DEF SetupKnown
  <2>1. /\ setup \in Setups /\ setup.born \in Nat /\ setup.born * Ratio \in Nat
        /\ setup.born >= CoarseWindow /\ setup.born * Ratio >= Window
        /\ CoarseWindow \in Nat \ {0} /\ Window \in Nat \ {0} /\ Ratio \in Nat \ {0}
    BY <1>2, SetupsAssumption, BoundsAssumption DEF WarmSetups, IInv, TypeOK, CoreTypeOK
  <2>2. k \in ClosedCoarse /\ k \in Nat /\ k * Ratio \in Nat /\ k * Ratio <= bar
    BY <1>1, RecentIsSubset, BoundsAssumption DEF ClosedCoarse, CoarseBars, Bars
  <2>3. k * Ratio >= setup.born * Ratio
    BY <2>1, <2>2
  <2>4. PICK m \in ClosedCoarse : m >= k /\ ClosedCoarse = 1..m
    BY <2>2, CoarseIsInterval
  <2>5. m \in Nat /\ m >= CoarseWindow /\ bar >= Window
    <3>1. m \in Nat
      BY BoundsAssumption DEF ClosedCoarse, CoarseBars, Bars
    <3> QED
      BY <1>1, <2>1, <2>2, <2>3, <2>4, <3>1
  <2>6. Cardinality(Backtest!CoarseSeen) >= CoarseWindow
    BY <1>1, <1>6, <2>1, <2>4, <2>5, FullWindow
  <2>7. Cardinality(Backtest!Seen) >= Window
    BY <1>1, <1>6, <2>1, <2>5, FullWindow
  <2> QED
    BY <2>6, <2>7, SameSize DEF Backtest!HasWarmup
<1>9. EntryTaps(Recent(stored, Window), UsedTaps, setup.born * Ratio, market)
        = EntryTaps(Recent(stored, Window), Backtest!LastTap, setup.born * Ratio, market)
  <2>1. Recent(stored, Window) \subseteq Bars
    <3>1. stored \subseteq Bars
      BY <1>1, <1>2, BoundsAssumption DEF IInv, TypeOK, CoreTypeOK, Bars
    <3> QED
      BY <3>1, RecentIsSubset
  <2> QED
    BY <1>7, <2>1 DEF EntryTaps
<1> QED
  BY <1>4, <1>6, <1>8, <1>9, SameRules DEF LiveTaps, Backtest!Taps

-----------------------------------------------------------------------------
(* Every step of the pipeline is a step of the backtest, or none.             *)

(* A bar closes: one more bar of the history is revealed.                     *)
LEMMA MarketReveals ==
    ASSUME Clients = {}, LiveInv, MarketStep
    PROVE  Backtest!Reveal
<1>1. UNCHANGED <<setup, signals, bar, pc>>
  BY DEF MarketStep, CloseBar, feedVars, taskVars
<1>2. LiveLedger' = LiveLedger /\ OpenIds' = OpenIds
  BY <1>1 DEF LiveLedger, OpenIds, Ids
<1>3. LivePhase' = LivePhase /\ LiveWalked' = LiveWalked
  BY <1>1, <1>2, Phases DEF LivePhase, LiveWalked
<1> QED
  BY <1>1, <1>2, <1>3 DEF MarketStep, CloseBar, Backtest!Reveal

(* Fetching and storing candles, or failing to.                               *)
LEMMA FetchUnseen ==
    ASSUME Clients = {}, LiveInv,
           BackfillM15 \/ BackfillCoarse \/ PollCoarse \/ PollM15 \/ NothingStored
    PROVE  UNCHANGED Backtest!bvars
<1>1. UNCHANGED <<market, setup, signals, bar, pc>>
  BY DEF BackfillM15, BackfillCoarse, PollCoarse, PollM15, NothingStored, BackfillFails,
         FetchFails, PersistFails, marketVars, feedVars, taskVars
<1>2. OpenIds' = OpenIds
  BY <1>1 DEF OpenIds, Ids
<1>3. LivePhase' = LivePhase /\ LiveWalked' = LiveWalked
  BY <1>1, <1>2, Phases DEF LivePhase, LiveWalked
<1> QED
  BY <1>1, <1>3, Unseen

(* The handlers enter: the backtest stands on the same candle already.        *)
LEMMA PredictUnseen ==
    ASSUME Clients = {}, LiveInv, LiveInv', Predict
    PROVE  UNCHANGED Backtest!bvars
<1>1. /\ UNCHANGED <<market, setup, stored, signals>>
      /\ pc[Feed] = "idle" /\ pc'[Feed] = "track" /\ bar \in Nat
  BY FeedIsTask, LiveFacts
     DEF Predict, Goto, marketVars, candleVars, LiveInv, KeepsUp, OwnInv, IInv, TypeOK, CoreTypeOK
<1>2. PICK b \in queue : bar' = b /\ queue' = queue \ {b}
  BY DEF Predict
<1>3. queue' = {} /\ bar' = Len(market) /\ bar' \in Nat \ {0}
  <2>1. /\ queue' = {} /\ bar' \in stored /\ \A s \in stored : s <= bar'
        /\ Len(market) \in stored
    BY <1>1 DEF LiveInv, LiveOK, HandledAll, InFeed, KeepsUp, OwnInv, OwnOK,
                   NewestHandled
  <2>2. Len(market) \in Nat /\ stored \subseteq 1..Len(market)
    BY LiveFacts
  <2> QED
    BY <2>1, <2>2
<1>4. stored = 1..Len(market) /\ stored \ queue = 1..bar
  BY <1>2, LiveFacts DEF LiveInv, LiveOK, HandledAll, InFeed
<1>5. 1..bar = 1..(bar' - 1)
  <2>1. queue = {bar'}
    BY <1>2, <1>3
  <2>2. \A c \in Nat : c \in 1..bar <=> c \in 1..bar' /\ c # bar'
    BY <1>3, <1>4, <2>1
  <2> QED
    BY <1>1, <1>3, <2>2
<1>6. bar = bar' - 1
  BY <1>1, <1>3, <1>5
<1>7. LiveWalked = bar /\ LiveWalked' = bar' - 1 /\ LivePhase = "grade" /\ LivePhase' = "grade"
  BY <1>1, Phases DEF LiveWalked, LivePhase, BuildSteps
<1> QED
  BY <1>1, <1>6, <1>7, Unseen

(* SignalTracker finds nothing to write: the candle leaves the open signal    *)
(* open, or there is none.                                                    *)
LEMMA NothingToGrade ==
    ASSUME Clients = {}, LiveInv, TrackerRead, Graded(bar) = {}
    PROVE  Backtest!GradeOpen
<1>1. /\ UNCHANGED <<market, setup, signals, bar>>
      /\ pc[Feed] = "track" /\ pc'[Feed] = "check"
      /\ bar = Len(market) /\ bar \in Nat \ {0}
  BY FeedIsTask, LiveFacts
     DEF TrackerRead, Goto, marketVars, LiveInv, KeepsUp, OwnInv, IInv, TypeOK, CoreTypeOK
<1>2. LiveLedger' = LiveLedger /\ OpenIds' = OpenIds
  BY <1>1 DEF LiveLedger, OpenIds, Ids
<1>3. LiveWalked = bar - 1 /\ LivePhase = "grade" /\ Backtest!Candle = bar
  BY <1>1, Phases DEF LiveWalked, LivePhase, BuildSteps, Backtest!Candle
<1>4. /\ LivePhase' = IF OpenIds = {} THEN "build" ELSE "grade"
      /\ LiveWalked' = IF OpenIds = {} THEN bar - 1 ELSE bar
  BY <1>1, <1>2, Phases DEF LiveWalked, LivePhase, BuildSteps
<1>5. CASE OpenIds = {}
  BY <1>1, <1>2, <1>3, <1>4, <1>5, SameOpen DEF Backtest!GradeOpen
<1>6. CASE OpenIds # {}
  <2> DEFINE n == Len(signals)
  <2>1. /\ n \in OpenIds /\ Backtest!HasOpen
        /\ Len(LiveLedger) = n /\ LiveLedger[n].opened = signals[n].opened
    BY <1>6, SameOpen, LedgerRows DEF LiveInv, KeepsUp, OwnInv, OpenIds
  <2>2. Outcome(market[bar], signals[n].opened, bar, Expiry) = "open"
    BY <1>1, <2>1 DEF Graded
  <2>3. Backtest!Outcome(market[Backtest!Candle], LiveLedger[Len(LiveLedger)].opened,
                         Backtest!Candle, Expiry) = "open"
    BY <1>3, <2>1, <2>2, SameRules
  <2> QED
    BY <1>1, <1>2, <1>3, <1>4, <1>6, <2>1, <2>3 DEF Backtest!GradeOpen
<1> QED
  BY <1>5, <1>6

(* What SignalTracker has yet to write is not yet seen.                       *)
LEMMA TrackerReadUnseen ==
    ASSUME Clients = {}, LiveInv, TrackerRead, Graded(bar) # {}
    PROVE  UNCHANGED Backtest!bvars
<1>1. /\ UNCHANGED <<market, setup, signals, bar>>
      /\ pc[Feed] = "track" /\ pc'[Feed] = "resolve"
  BY FeedIsTask
     DEF TrackerRead, Goto, marketVars, LiveInv, KeepsUp, OwnInv, IInv, TypeOK, CoreTypeOK
<1>2. LivePhase' = LivePhase /\ LiveWalked' = LiveWalked
  BY <1>1, Phases DEF LivePhase, LiveWalked, BuildSteps
<1> QED
  BY <1>1, <1>2, Unseen

(* What two updates of one entry make of it.                                  *)
LEMMA EntryGraded ==
    ASSUME NEW S, NEW f \in [S -> Entries], NEW n \in S, NEW a, NEW b, NEW g,
           DOMAIN g = S, g = [j \in DOMAIN g |-> g[j]],
           \A j \in S \ {n} : g[j] = f[j],
           g[n] = [opened |-> f[n].opened, status |-> a, closed |-> b]
    PROVE  g = [f EXCEPT ![n].status = a, ![n].closed = b]
<1> DEFINE r == [[f[n] EXCEPT !.status = a] EXCEPT !.closed = b]
<1>1. f[n] = [opened |-> f[n].opened, status |-> f[n].status, closed |-> f[n].closed]
  BY DEF Entries
<1>2. r = [opened |-> f[n].opened, status |-> a, closed |-> b]
  <2> DEFINE q == [f[n] EXCEPT !.status = a]
  <2>1. q = [opened |-> f[n].opened, status |-> a, closed |-> f[n].closed]
    BY <1>1
  <2> HIDE DEF q
  <2>2. [q EXCEPT !.closed = b] = [opened |-> f[n].opened, status |-> a, closed |-> b]
    BY <2>1
  <2> QED
    BY <2>2 DEF q
<1>3. [f EXCEPT ![n].status = a, ![n].closed = b] = [f EXCEPT ![n] = r]
  OBVIOUS
<1> HIDE DEF r
<1>4. g = [f EXCEPT ![n] = r]
  BY <1>2
<1> QED
  BY <1>3, <1>4

(* SignalTracker writes the outcome of the one open signal.                   *)
LEMMA ResolveGrades ==
    ASSUME Clients = {}, LiveInv, TrackerResolve
    PROVE  Backtest!GradeOpen
<1> DEFINE n == Len(signals)
           outcome == Outcome(market[bar], signals[n].opened, bar, Expiry)
<1>1. /\ UNCHANGED <<market, setup, bar>> /\ IInv
      /\ pc[Feed] = "resolve" /\ bar = Len(market) /\ bar \in Nat \ {0}
  BY LiveFacts DEF TrackerResolve, marketVars, LiveInv, KeepsUp, OwnInv
<1>2. PICK i \in tracked :
        /\ i \in Ids /\ Ids' = Ids /\ tracked' = tracked \ {i}
        /\ signals'[i].status = Outcome(market[bar], signals[i].opened, bar, Expiry)
        /\ signals'[i].closed = bar
        /\ signals'[i].opened = signals[i].opened /\ signals'[i].asof = signals[i].asof
        /\ \A j \in Ids \ {i} : signals'[j] = signals[j]
        /\ pc'[Feed] = IF tracked = {i} THEN "check" ELSE "resolve"
  BY <1>1, ResolveRow
<1>3. tracked = {n} /\ i = n /\ OpenIds = {n} /\ outcome # "open"
  <2>1. /\ tracked \subseteq OpenIds /\ \A j \in OpenIds : j = n
        /\ \A j \in tracked : Outcome(market[bar], signals[j].opened, bar, Expiry) # "open"
    BY DEF LiveInv, LiveOK, LastOpen, KeepsUp, OwnInv, IInv, CarriedOK, GradeInv, GradesOK,
           HandlersOK
  <2> QED
    BY <1>2, <2>1
<1>4. OpenIds' = {} /\ pc'[Feed] = "check"
  <2>1. OpenIds' \subseteq OpenIds
    BY <1>1, ResolveEffect
  <2>2. n \notin OpenIds'
    BY <1>2, <1>3 DEF OpenIds
  <2> QED
    BY <1>2, <1>3, <2>1, <2>2
<1>5. LiveWalked = bar - 1 /\ LivePhase = "grade" /\ Backtest!Candle = bar
  BY <1>1, Phases DEF LiveWalked, LivePhase, BuildSteps, Backtest!Candle
<1>6. LiveWalked' = bar - 1 /\ LivePhase' = "build"
  BY <1>1, <1>4, Phases DEF LiveWalked, LivePhase
<1>7. /\ Backtest!HasOpen /\ Len(LiveLedger) = n /\ n \in Ids
      /\ LiveLedger[n].opened = signals[n].opened
      /\ DOMAIN LiveLedger = Ids
  BY <1>1, <1>2, <1>3, SameOpen, LedgerRows
<1>8. Backtest!Outcome(market[Backtest!Candle], LiveLedger[Len(LiveLedger)].opened,
                       Backtest!Candle, Expiry) = outcome
  BY <1>5, <1>7, SameRules
<1>9. outcome # "none"
  BY OutcomeType DEF Statuses
<1>10. LiveLedger' = [LiveLedger EXCEPT ![n].status = outcome, ![n].closed = bar]
  <2>1. LiveLedger' = [j \in Ids |-> [opened |-> signals'[j].opened,
                          status |-> signals'[j].status, closed |-> signals'[j].closed]]
    BY <1>2 DEF LiveLedger
  <2>2. LiveLedger = [j \in Ids |-> [opened |-> signals[j].opened,
                          status |-> signals[j].status, closed |-> signals[j].closed]]
    BY DEF LiveLedger
  <2>3. /\ signals'[n].opened = signals[n].opened /\ signals'[n].status = outcome
        /\ signals'[n].closed = bar /\ \A j \in Ids \ {n} : signals'[j] = signals[j]
    BY <1>2, <1>3
  <2> HIDE DEF outcome, n
  <2> QED
    <3>1. LiveLedger \in [Ids -> Entries]
      BY <1>1, <1>7, LedgerRows, LenProperties, RowType
    <3>2. /\ DOMAIN LiveLedger' = Ids /\ LiveLedger' = [j \in DOMAIN LiveLedger' |-> LiveLedger'[j]]
          /\ \A j \in Ids \ {n} : LiveLedger'[j] = LiveLedger[j]
          /\ LiveLedger'[n] = [opened |-> LiveLedger[n].opened, status |-> outcome, closed |-> bar]
      BY <1>7, <2>1, <2>2, <2>3
    <3> DEFINE old == LiveLedger
               new == LiveLedger'
    <3>3. /\ old \in [Ids -> Entries] /\ n \in Ids
          /\ DOMAIN new = Ids /\ new = [j \in DOMAIN new |-> new[j]]
          /\ \A j \in Ids \ {n} : new[j] = old[j]
          /\ new[n] = [opened |-> old[n].opened, status |-> outcome, closed |-> bar]
      BY <1>7, <3>1, <3>2
    <3> HIDE DEF old, new
    <3>4. new = [old EXCEPT ![n].status = outcome, ![n].closed = bar]
      BY <3>3, EntryGraded
    <3> QED
      BY <3>4 DEF old, new
<1> HIDE DEF outcome, n
<1> QED
  <2> DEFINE o == IF Backtest!HasOpen
                  THEN Backtest!Outcome(market[Backtest!Candle],
                                        LiveLedger[Len(LiveLedger)].opened,
                                        Backtest!Candle, Expiry)
                  ELSE "none"
  <2>1. o = outcome
    BY <1>7, <1>8
  <2> HIDE DEF o
  <2>2. LiveLedger' = [LiveLedger EXCEPT ![Len(LiveLedger)].status = o,
                                         ![Len(LiveLedger)].closed = Backtest!Candle]
    BY <1>5, <1>7, <1>10, <2>1
  <2>3. o # "open" /\ o # "none"
    BY <1>3, <1>9, <2>1
  <2>4. LiveWalked < Len(market) /\ UNCHANGED LiveWalked
    BY <1>1, <1>5, <1>6
  <2> QED
    BY <1>1, <1>5, <1>6, <2>2, <2>3, <2>4 DEF Backtest!GradeOpen, o

(* The signal table is looked at, and read into the builder.                  *)
LEMMA CheckUnseen ==
    ASSUME Clients = {}, LiveInv,
           CheckOpen(Feed) \/ ReadCoarse(Feed) \/ ReadM15(Feed) \/ BuildFound(Feed)
    PROVE  UNCHANGED Backtest!bvars
<1>1. /\ UNCHANGED <<market, setup, signals, bar>> /\ pc \in [Tasks -> Steps] /\ Feed \in Tasks
  BY FeedIsTask
     DEF CheckOpen, ReadCoarse, ReadM15, BuildFound, marketVars, feedVars, LiveInv, KeepsUp,
         OwnInv, IInv, TypeOK, CoreTypeOK
<1>2. OpenIds' = OpenIds
  BY <1>1 DEF OpenIds, Ids
<1>3. CASE CheckOpen(Feed)
  <2>1. pc[Feed] = "check" /\ pc'[Feed] = IF OpenIds = {} THEN "coarse" ELSE "idle"
    BY <1>1, <1>3 DEF CheckOpen, MayCheck, Goto
  <2>2. LivePhase' = LivePhase /\ LiveWalked' = LiveWalked
    BY <1>1, <1>2, <2>1, Phases DEF LivePhase, LiveWalked, BuildSteps
  <2> QED
    BY <1>1, <2>2, Unseen
<1>4. CASE ReadCoarse(Feed) \/ ReadM15(Feed) \/ BuildFound(Feed)
  <2>1. pc[Feed] \in BuildSteps /\ pc'[Feed] \in BuildSteps
    BY <1>1, <1>4 DEF ReadCoarse, ReadM15, BuildFound, Goto, BuildSteps
  <2>2. LivePhase' = LivePhase /\ LiveWalked' = LiveWalked
    BY <1>1, <2>1, Phases DEF LivePhase, LiveWalked
  <2> QED
    BY <1>1, <2>2, Unseen
<1> QED
  BY <1>3, <1>4

(* build_signal finds nothing.                                                *)
LEMMA NoneBuilds ==
    ASSUME Clients = {}, WarmSetups, LiveInv, BuildNone(Feed)
    PROVE  Backtest!Build
<1>1. /\ UNCHANGED <<market, setup, signals, bar>>
      /\ pc[Feed] = "build" /\ pc'[Feed] = "idle" /\ BuildTaps(Feed) = {}
  BY FeedIsTask
     DEF BuildNone, Idle, marketVars, feedVars, LiveInv, KeepsUp, OwnInv, IInv, TypeOK, CoreTypeOK
<1>2. LivePhase = "build" /\ LivePhase' = "grade" /\ LiveWalked' = bar
  BY <1>1, Phases DEF LivePhase, LiveWalked, BuildSteps
<1>3. Backtest!Taps = {} /\ Backtest!Candle = bar
  BY <1>1, TapsOfBacktest, BuildsFromTables
<1>4. LiveLedger' = LiveLedger
  BY <1>1 DEF LiveLedger, Ids
<1> QED
  BY <1>1, <1>2, <1>3, <1>4 DEF Backtest!Build

(* A signal is saved.                                                         *)
LEMMA SaveBuilds ==
    ASSUME Clients = {}, WarmSetups, LiveInv, LiveInv', Save(Feed)
    PROVE  Backtest!Build
<1> DEFINE t == local[Feed].tap
           entry == [opened |-> t, status |-> "open", closed |-> 0]
<1>1. /\ UNCHANGED <<market, setup, bar>> /\ IInv
      /\ pc[Feed] = "save" /\ pc'[Feed] = "idle"
  BY FeedIsTask
     DEF Save, Idle, marketVars, feedVars, LiveInv, KeepsUp, OwnInv, IInv, TypeOK, CoreTypeOK
<1>2. LivePhase = "build" /\ LivePhase' = "grade" /\ LiveWalked' = bar
  BY <1>1, Phases DEF LivePhase, LiveWalked, BuildSteps
<1>3. IsNewest(t, Backtest!Taps) /\ Backtest!Candle = bar
  BY <1>1, TapsOfBacktest DEF LiveInv, LiveOK, FoundNewest
<1>4. t \in Backtest!Taps /\ Backtest!IsNewest(t, Backtest!Taps)
  BY <1>3, SameRules DEF IsNewest
<1>5. LiveLedger' = Append(LiveLedger, entry)
  <2> DEFINE n == Len(signals)
             row == [opened |-> t, asof |-> local[Feed].asof, status |-> "open", closed |-> 0]
  <2>1. row \in Rows /\ entry \in Entries
    <3>1. t \in Bars /\ local[Feed].asof \in Bars
      BY <1>1, FeedIsTask DEF IInv, CarriedOK
    <3>2. "open" \in Statuses /\ 0 \in 0..MaxBar
      BY BoundsAssumption DEF Statuses
    <3> QED
      BY <3>1, <3>2 DEF Rows, Entries
  <2>2. /\ signals' = Append(signals, row) /\ signals \in Seq(Rows)
        /\ n \in Nat /\ Ids = 1..n
    BY <1>1, RowType DEF Save
  <2> HIDE DEF row, entry
  <2>3. /\ Len(signals') = n + 1 /\ signals'[n + 1] = row
        /\ \A i \in 1..n : signals'[i] = signals[i]
    BY <2>1, <2>2, AppendProperties
  <2>4. LiveLedger \in Seq(Entries) /\ Len(LiveLedger) = n /\ DOMAIN LiveLedger = Ids
    BY <1>1, LedgerRows
  <2>5. IInv'
    BY DEF LiveInv, KeepsUp, OwnInv
  <2>6. LiveLedger' \in Seq(Entries) /\ Len(LiveLedger') = n + 1
    BY <2>3, <2>5, LedgerAfter
  <2>7. /\ Append(LiveLedger, entry) \in Seq(Entries)
        /\ Len(Append(LiveLedger, entry)) = n + 1
        /\ \A i \in 1..n : Append(LiveLedger, entry)[i] = LiveLedger[i]
        /\ Append(LiveLedger, entry)[n + 1] = entry
    BY <2>1, <2>4, AppendProperties
  <2>8. \A i \in 1..(n + 1) : LiveLedger'[i] = Append(LiveLedger, entry)[i]
    <3>1. Ids' = 1..(n + 1)
      BY <2>3, <2>5, LedgerAfter
    <3>2. ASSUME NEW i \in 1..n PROVE LiveLedger'[i] = LiveLedger[i]
      BY <2>2, <2>3, <3>1 DEF LiveLedger
    <3>3. LiveLedger'[n + 1] = entry
      BY <2>2, <2>3, <3>1 DEF LiveLedger, row, entry
    <3>4. \A i \in 1..(n + 1) : i \in 1..n \/ i = n + 1
      BY <2>2
    <3> QED
      BY <2>7, <3>2, <3>3, <3>4
  <2> QED
    BY <2>6, <2>7, <2>8, SeqEqual
<1> QED
  BY <1>1, <1>2, <1>3, <1>4, <1>5 DEF Backtest!Build

-----------------------------------------------------------------------------
(* For every history, the live pipeline that no request disturbs, that keeps  *)
(* up with the market and leaves no candle out grades and builds as           *)
(* run_signal_backtest does, candle by candle: its signal table is the        *)
(* backtest's ledger, through failed fetches, backfills and commits of        *)
(* 15-minute candles (signal_tracker.py:7-9).                                 *)
THEOREM LiveImplementsBacktest ==
    ASSUME Undisturbed, WarmSetups
    PROVE  Spec /\ [][Complete]_vars => LiveMatchesBacktest
<1>1. Init => LiveInv /\ Backtest!Init
  <2> SUFFICES ASSUME Init PROVE LiveInv /\ Backtest!Init
    OBVIOUS
  <2>1. /\ market = <<>> /\ setup \in Setups /\ bar = 0 /\ signals = <<>>
        /\ pc[Feed] = "idle"
    BY FeedIsTask DEF Init, CoreInit
  <2>2. LiveLedger = <<>>
    BY <2>1 DEF LiveLedger, Ids
  <2>3. LiveWalked = 0 /\ LivePhase = "grade"
    BY <2>1, Phases DEF Undisturbed, LiveWalked, LivePhase, BuildSteps
  <2> QED
    BY <2>1, <2>2, <2>3, LiveInvInit DEF Undisturbed, Backtest!Init
<1>2. LiveInv /\ LiveInv' /\ [Next]_vars /\ [Complete]_vars => [Backtest!Next]_(Backtest!bvars)
  <2> SUFFICES ASSUME LiveInv, LiveInv', [Next]_vars, [Complete]_vars
               PROVE  Backtest!Next \/ UNCHANGED Backtest!bvars
    BY DEF Backtest!bvars
  <2>1. CASE UNCHANGED vars
    <3>1. UNCHANGED <<market, setup, signals, bar, pc>>
      BY <2>1 DEF vars
    <3>2. OpenIds' = OpenIds
      BY <3>1 DEF OpenIds, Ids
    <3>3. LivePhase' = LivePhase /\ LiveWalked' = LiveWalked
      BY <3>1, <3>2, Phases DEF Undisturbed, LivePhase, LiveWalked
    <3> QED
      BY <3>1, <3>3, Unseen
  <2>2. CASE Next /\ Complete
    <3>1. MarketStep \/ FeedStep \/ NothingStored
      BY <2>2, FeedActsAlone DEF Undisturbed, Complete
    <3> QED
      BY <3>1, MarketReveals, FetchUnseen, PredictUnseen, NothingToGrade, TrackerReadUnseen,
         ResolveGrades, CheckUnseen, NoneBuilds, SaveBuilds
         DEF Undisturbed, FeedStep, HandlerStep, BuildStep, Backtest!Next
  <2> QED
    BY <2>1, <2>2
<1> QED
  BY <1>1, <1>2, LiveInvStep, PTL DEF Spec, LiveMatchesBacktest, Backtest!Spec
=============================================================================
