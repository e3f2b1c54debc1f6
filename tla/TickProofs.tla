------------------------------ MODULE TickProofs ------------------------------
(* Theorems about TickPipeline, for every value of its constants.             *)
EXTENDS TickPipeline, SequenceTheorems, TLAPS

-----------------------------------------------------------------------------
(* The inductive invariants.                                                  *)

(* What TypeOK leaves open: where backfill is, and that nothing is in         *)
(* progress before the stream begins.                                         *)
ControlOK ==
    /\ fetches \in Seq(Nat \ {0})
    /\ step = "backfill" => pending = {} /\ \A f \in Timeframes : open[f].ticks = {}

TypeInv == TypeOK /\ ControlOK

(* A candle in progress goes on to the last tick; without one, the process    *)
(* has just started.                                                          *)
Growing(c) == \E first \in 1..Len(ticks) : InARow(c, first, Len(ticks))

OpenOK ==
    \A f \in Timeframes :
        /\ open[f].tf = f
        /\ IF open[f].ticks = {} THEN Len(ticks) + 1 \in starts ELSE Growing(open[f])

(* A closed candle waits alone for its timeframe, and the candle in progress  *)
(* has none of its ticks.                                                     *)
PendingOK ==
    \A c \in pending :
        /\ Unbroken(c) /\ Earlier(c, open[c.tf])
        /\ \A d \in pending : d.tf = c.tf => d = c

(* The ticks of a row came before those of what is still to come of its       *)
(* timeframe, but for the candle whose handlers run.                          *)
RowsOK ==
    \A r \in stored :
        /\ r.ticks = {} \/ Unbroken(r)
        /\ Earlier(r, open[r.tf])
        /\ \A c \in pending : c.tf = r.tf =>
              Earlier(r, c) \/ (step = "handle" /\ Turn(c) /\ r = c)

(* A candle whose handlers ran came before all that is still to come.         *)
HandledOK ==
    \A i \in DOMAIN handled :
        /\ Unbroken(handled[i]) /\ Earlier(handled[i], open[handled[i].tf])
        /\ \A c \in pending : c.tf = handled[i].tf => Earlier(handled[i], c)

HandledAsMade ==
    \A i, j \in DOMAIN handled :
        i < j /\ handled[i].tf = handled[j].tf => Earlier(handled[i], handled[j])

IInv ==
    /\ TypeInv
    /\ OpenOK /\ PendingOK /\ RowsOK /\ HandledOK /\ HandledAsMade
    /\ HandledAsStored

-----------------------------------------------------------------------------
(* Lemmas on the operators.                                                   *)

(* The timeframes are numbered, and each has a length.                        *)
LEMMA LengthType ==
    /\ Timeframes = 1..Len(Lengths) /\ Len(Lengths) \in Nat
    /\ \A f \in Timeframes : f \in Nat /\ Lengths[f] \in Nat \ {0}
BY LengthsAssumption, LenProperties DEF Timeframes

(* Division keeps the order.                                                  *)
LEMMA DivMonotonic ==
    ASSUME NEW a \in Nat, NEW b \in Nat, NEW k \in Nat \ {0}, a <= b
    PROVE  a \div k <= b \div k
BY SMT

(* A quotient is no greater than what is divided.                             *)
LEMMA DivBounded ==
    ASSUME NEW a \in Nat, NEW k \in Nat \ {0}
    PROVE  a \div k \in 0..a
BY SMT

(* bucket_start is a bucket of the model, and later times have later buckets. *)
LEMMA BucketType ==
    ASSUME NEW t \in 0..MaxTime, NEW f \in Timeframes
    PROVE  Bucket(t, f) \in 0..MaxTime
BY DivBounded, LengthType, LimitsAssumption DEF Bucket

(* Boundaries follow one another as times do.                                 *)
LEMMA BucketMonotonic ==
    ASSUME NEW t \in 0..MaxTime, NEW u \in 0..MaxTime, t <= u, NEW f \in Timeframes
    PROVE  Bucket(t, f) <= Bucket(u, f)
BY DivMonotonic, LengthType, LimitsAssumption DEF Bucket

(* The candle of no tick, and the candles in progress, are candles.           *)
LEMMA NotOpenType == \A f \in Timeframes : NotOpen(f) \in Candles
BY LimitsAssumption DEF NotOpen, Candles

(* The provider's history holds candles of its timeframe, made of no tick.    *)
LEMMA HistoryType ==
    ASSUME NEW t \in 0..MaxTime, NEW f \in Timeframes
    PROVE  \A history \in Histories(t, f) : \A c \in history :
               c \in Candles /\ c.tf = f /\ c.ticks = {}
BY LimitsAssumption DEF Histories, NotOpen, Candles

(* ingest makes a candle of the timeframe that ends with the new tick.        *)
LEMMA ReopenedType ==
    ASSUME TypeInv, Len(ticks) < MaxTicks, NEW t \in 0..MaxTime, NEW f \in Timeframes
    PROVE  /\ Reopened(t, f) \in Candles
           /\ Reopened(t, f).tf = f
           /\ Reopened(t, f).bucket = Bucket(t, f)
           /\ Reopened(t, f).ticks = IF Closes(t, f) THEN {Len(ticks) + 1}
                                     ELSE open[f].ticks \union {Len(ticks) + 1}
<1>1. Len(ticks) \in Nat /\ Len(ticks) + 1 \in 1..MaxTicks
  BY LenProperties, LimitsAssumption DEF TypeInv, TypeOK
<1>2. open[f].ticks \subseteq 1..MaxTicks
  BY DEF TypeInv, TypeOK, Candles
<1> QED
  BY <1>1, <1>2, BucketType DEF Reopened, Candles

-----------------------------------------------------------------------------
(* Types, for every value of the constants.                                   *)

(* The initial state is well typed.                                           *)
LEMMA TypeInit == Init => TypeInv
<1> SUFFICES ASSUME Init PROVE TypeInv
  OBVIOUS
<1>1. ticks \in Seq(0..MaxTime) /\ handled \in Seq(Candles) /\ Len(ticks) = 0
  BY EmptySeq DEF Init
<1>2. open \in [Timeframes -> Candles] /\ \A f \in Timeframes : open[f].ticks = {}
  BY NotOpenType DEF Init, NotOpen
<1>3. fetches \in Seq(Nat \ {0}) /\ Len(fetches) <= Len(Lengths)
  BY LengthsAssumption, LengthType DEF Init
<1>4. starts \subseteq 1..(Len(ticks) + 1) /\ present \in 0..MaxTime /\ Len(ticks) <= MaxTicks
  BY <1>1, LimitsAssumption DEF Init
<1>5. delay \in 1..MaxDelay /\ faults \in 0..MaxFaults
  BY LimitsAssumption DEF Init
<1> QED
  BY <1>1, <1>2, <1>3, <1>4, <1>5 DEF Init, TypeInv, TypeOK, ControlOK

(* The backfill keeps the types.                                              *)
LEMMA BackfillType ==
    ASSUME TypeInv, Backfill \/ BackfillFails
    PROVE  TypeInv'
<1>1. /\ fetches' \in Seq(Nat \ {0}) /\ Len(fetches') <= Len(Lengths)
      /\ Filling \in Timeframes
  <2>1. fetches \in Seq(Nat \ {0}) /\ fetches # <<>> /\ fetches' = Tail(fetches)
        /\ Len(fetches) <= Len(Lengths)
    BY DEF TypeInv, TypeOK, ControlOK, Backfill, BackfillFails
  <2>2. /\ fetches' \in Seq(Nat \ {0}) /\ Len(fetches') = Len(fetches) - 1
        /\ Len(fetches) \in Nat \ {0}
    BY <2>1, HeadTailProperties, EmptySeq
  <2> QED
    BY <2>1, <2>2, LengthType DEF Filling
<1>2. present' \in 0..MaxTime /\ stored' \subseteq Candles
  <2>1. CASE Backfill
    <3>1. PICK t \in present..MaxTime :
            IF Cardinality(Rows(Filling)) >= BackfillCount
            THEN UNCHANGED <<present, stored>>
            ELSE /\ present' = t
                 /\ \E history \in Histories(t, Filling) : stored' \subseteq stored \union history
      BY <2>1 DEF Backfill
    <3>2. t \in 0..MaxTime
      BY LimitsAssumption DEF TypeInv, TypeOK
    <3> QED
      BY <1>1, <3>1, <3>2, HistoryType DEF TypeInv, TypeOK
  <2>2. CASE BackfillFails
    BY <2>2 DEF BackfillFails, tableVars, TypeInv, TypeOK
  <2> QED
    BY <2>1, <2>2
<1>3. faults' \in 0..MaxFaults
  BY LimitsAssumption DEF Backfill, BackfillFails, CanFail, TypeInv, TypeOK
<1> QED
  BY <1>1, <1>2, <1>3 DEF Backfill, BackfillFails, tableVars, loopVars, TypeInv, TypeOK, ControlOK

(* So does the start of the stream.                                           *)
LEMMA StartType == TypeInv /\ Start => TypeInv'
BY DEF Start, backfillVars, tableVars, loopVars, TypeInv, TypeOK, ControlOK

(* So does a tick.                                                            *)
LEMMA ReceiveType == TypeInv /\ Receive => TypeInv'
<1> SUFFICES ASSUME TypeInv, Receive PROVE TypeInv'
  OBVIOUS
<1>1. PICK t \in 0..MaxTime :
        /\ ticks' = Append(ticks, t) /\ present' = t
        /\ open' = [f \in Timeframes |-> Reopened(t, f)]
        /\ pending' = {open[f] : f \in {g \in Timeframes : Closes(t, g)}}
  BY DEF Receive
<1>2. /\ ticks' \in Seq(0..MaxTime) /\ Len(ticks') = Len(ticks) + 1
      /\ Len(ticks) \in Nat /\ Len(ticks') <= MaxTicks
  BY <1>1, LenProperties, AppendProperties, LimitsAssumption DEF Receive, TypeInv, TypeOK
<1>3. open' \in [Timeframes -> Candles]
  BY <1>1, ReopenedType DEF Receive
<1>4. pending' \subseteq Candles
  BY <1>1 DEF TypeInv, TypeOK
<1>5. delay' \in 1..MaxDelay
  BY LimitsAssumption DEF Receive, TypeInv, TypeOK
<1>6. starts' \subseteq 1..(Len(ticks') + 1)
  BY <1>2 DEF Receive, TypeInv, TypeOK
<1> QED
  BY <1>1, <1>2, <1>3, <1>4, <1>5, <1>6 DEF Receive, tableVars, TypeInv, TypeOK, ControlOK

(* So do the save of a closed candle, its failure and the handlers.           *)
LEMMA HandleType ==
    ASSUME TypeInv, Persist \/ PersistFails \/ Handle
    PROVE  TypeInv'
<1>1. pending' \subseteq pending /\ (step' = "handle" => pending' # {})
  BY DEF Persist, PersistFails, Handle, TypeInv, TypeOK
<1>2. stored' \subseteq stored \union pending
  BY DEF Persist, PersistFails, Handle, Saved, tableVars
<1>3. handled' \in Seq(Candles)
  <2>1. handled \in Seq(Candles) /\ pending \subseteq Candles
    BY DEF TypeInv, TypeOK
  <2>2. CASE Handle
    BY <2>1, <2>2, AppendProperties DEF Handle
  <2> QED
    BY <2>1, <2>2 DEF Persist, PersistFails, tableVars
<1>4. faults' \in 0..MaxFaults
  BY LimitsAssumption DEF Persist, PersistFails, Handle, CanFail, TypeInv, TypeOK
<1>5. step' \in {"stream", "handle"} /\ step # "backfill"
  BY DEF Persist, PersistFails, Handle
<1> QED
  BY <1>1, <1>2, <1>3, <1>4, <1>5
     DEF Persist, PersistFails, Handle, backfillVars, loopVars, TypeInv, TypeOK, ControlOK

(* So do the loss of the stream and the reconnect.                            *)
LEMMA ReconnectType ==
    ASSUME TypeInv, StreamFails \/ Reconnect
    PROVE  TypeInv'
<1>1. delay' \in 1..MaxDelay /\ faults' \in 0..MaxFaults
  BY LimitsAssumption DEF StreamFails, Reconnect, CanFail, TypeInv, TypeOK
<1> QED
  BY <1>1
     DEF StreamFails, Reconnect, backfillVars, tableVars, TypeInv, TypeOK, ControlOK

(* So does a restart of the process.                                          *)
LEMMA RestartType == TypeInv /\ Restart => TypeInv'
<1> SUFFICES ASSUME TypeInv, Restart PROVE TypeInv'
  OBVIOUS
<1>1. Len(ticks) \in Nat /\ starts' \subseteq 1..(Len(ticks') + 1)
  <2>1. ticks \in Seq(0..MaxTime) /\ starts \subseteq 1..(Len(ticks) + 1)
    BY DEF TypeInv, TypeOK
  <2>2. Len(ticks) \in Nat /\ ticks' = ticks /\ starts' = starts \union {Len(ticks) + 1}
    BY <2>1, LenProperties DEF Restart
  <2>3. 1..(Len(ticks) + 1) = 1..(Len(ticks') + 1) /\ Len(ticks) + 1 \in 1..(Len(ticks) + 1)
    BY <2>2
  <2> QED
    BY <2>1, <2>2, <2>3
<1>2. faults' \in 0..MaxFaults
  BY LimitsAssumption DEF Restart, CanFail, TypeInv, TypeOK
<1>3. open' \in [Timeframes -> Candles] /\ \A f \in Timeframes : open'[f].ticks = {}
  BY NotOpenType DEF Restart, NotOpen
<1>4. fetches' \in Seq(Nat \ {0}) /\ Len(fetches') <= Len(Lengths)
  BY LengthsAssumption, LengthType DEF Restart
<1>5. /\ ticks' = ticks /\ pending' = {} /\ step' = "backfill" /\ reconnecting' = FALSE
      /\ delay' \in 1..MaxDelay /\ status' = "nominal"
      /\ UNCHANGED <<present, stored, handled>>
  BY LimitsAssumption DEF Restart, tableVars
<1> QED
  BY <1>1, <1>2, <1>3, <1>4, <1>5 DEF TypeInv, TypeOK, ControlOK

(* Every step keeps the types.                                                *)
LEMMA TypeStep == TypeInv /\ [Next]_vars => TypeInv'
<1>1. TypeInv /\ UNCHANGED vars => TypeInv'
  BY DEF vars, TypeInv, TypeOK, ControlOK
<1> QED
  BY <1>1, BackfillType, StartType, ReceiveType, HandleType, ReconnectType, RestartType DEF Next

(* The variables of the tick-driven feed have their types, whatever fails and *)
(* in whatever order ticks come.                                              *)
THEOREM TickTypeCorrect == Spec => []TypeOK
<1>1. TypeInv => TypeOK
  BY DEF TypeInv
<1> QED
  BY <1>1, TypeInit, TypeStep, PTL DEF Spec

(* The service counts as healthy again, and forgets its backoff, only with a  *)
(* tick or with a new start, for every timestamp and every backoff limit      *)
(* (feed_service.py:139-144).                                                 *)
THEOREM HealthyAgainOnlyByTick == Spec => HealthyOnlyByTick
<1>1. TypeInv /\ [Next]_vars =>
        [(status' # status /\ status' = "nominal") \/ delay' < delay =>
             Len(ticks') > Len(ticks) \/ Restart]_vars
  <2> SUFFICES ASSUME TypeInv, Next
               PROVE  \/ status' = status /\ ~(delay' < delay)
                      \/ status' # "nominal" /\ ~(delay' < delay)
                      \/ Len(ticks') > Len(ticks) \/ Restart
    OBVIOUS
  <2>1. delay \in Nat /\ MaxDelay \in Nat /\ delay <= MaxDelay
    BY LimitsAssumption DEF TypeInv, TypeOK
  <2>2. CASE Receive
    BY <2>2, AppendProperties, LenProperties DEF Receive, TypeInv, TypeOK
  <2>3. CASE Reconnect
    BY <2>1, <2>3 DEF Reconnect
  <2>4. CASE StreamFails
    BY <2>1, <2>4 DEF StreamFails
  <2>5. CASE Backfill \/ BackfillFails \/ Start \/ Persist \/ PersistFails \/ Handle
    BY <2>1, <2>5 DEF Backfill, BackfillFails, Start, Persist, PersistFails, Handle, loopVars
  <2> QED
    BY <2>2, <2>3, <2>4, <2>5 DEF Next
<1> QED
  BY <1>1, TypeInit, TypeStep, PTL DEF Spec, HealthyOnlyByTick

-----------------------------------------------------------------------------
(* The ticks received have their numbers and their times.                     *)
LEMMA TickFacts ==
    ASSUME TypeInv
    PROVE  /\ Len(ticks) \in Nat /\ present \in 0..MaxTime
           /\ \A n \in 1..Len(ticks) : ticks[n] \in 0..MaxTime
           /\ starts \subseteq 1..(Len(ticks) + 1)
           /\ pending \subseteq Candles /\ stored \subseteq Candles
           /\ \A f \in Timeframes : open[f] \in Candles
           /\ \A i \in DOMAIN handled : handled[i] \in Candles
BY LenProperties, ElementOfSeq DEF TypeInv, TypeOK

(* The fields of a candle.                                                    *)
LEMMA CandleFacts ==
    ASSUME NEW c \in Candles
    PROVE  /\ c.tf \in Timeframes /\ c.bucket \in 0..MaxTime /\ c.bucket \in Int
           /\ c.ticks \subseteq Nat
BY LimitsAssumption DEF Candles

(* What a tick appends.                                                       *)
LEMMA TickAppended ==
    ASSUME TypeInv, NEW t \in 0..MaxTime, ticks' = Append(ticks, t)
    PROVE  /\ Len(ticks) \in Nat /\ Len(ticks') = Len(ticks) + 1
           /\ \A n \in 1..Len(ticks) : ticks'[n] = ticks[n]
           /\ ticks'[Len(ticks) + 1] = t
BY LenProperties, AppendProperties DEF TypeInv, TypeOK

(* A closed candle's ticks were received.                                     *)
LEMMA UnbrokenPast ==
    ASSUME NEW c, Unbroken(c), Len(ticks) \in Nat
    PROVE  c.ticks # {} /\ c.ticks \subseteq 1..Len(ticks)
<1>1. PICK first \in 1..Len(ticks), last \in 1..Len(ticks) : InARow(c, first, last)
  BY DEF Unbroken
<1>2. first <= last /\ c.ticks = first..last
  BY <1>1 DEF InARow
<1> QED
  BY <1>2

(* What came in a row did so whatever comes later.                            *)
LEMMA InARowKept ==
    ASSUME NEW c, NEW first \in 1..Len(ticks), NEW last \in 1..Len(ticks),
           InARow(c, first, last), Len(ticks) \in Nat,
           \A n \in 1..Len(ticks) : ticks'[n] = ticks[n],
           starts' \intersect (first + 1)..(last + 1) = {}, starts \subseteq starts'
    PROVE  InARow(c, first, last)'
<1>1. \A n \in first..last : n \in 1..Len(ticks)
  OBVIOUS
<1>2. first > 1 => first - 1 \in 1..Len(ticks)
  OBVIOUS
<1>3. \A n \in first..last : Bucket(ticks'[n], c.tf) = c.bucket
  BY <1>1 DEF InARow
<1>4. first > 1 => ticks'[first - 1] = ticks[first - 1]
  BY <1>2
<1> QED
  BY <1>3, <1>4 DEF InARow, Bucket

(* A closed candle stays as it is, whatever ticks and starts follow.          *)
LEMMA UnbrokenKept ==
    ASSUME NEW c, Unbroken(c), Len(ticks) \in Nat, Len(ticks') \in Nat, Len(ticks) <= Len(ticks'),
           \A n \in 1..Len(ticks) : ticks'[n] = ticks[n],
           starts \subseteq starts', starts' \subseteq starts \union {Len(ticks) + 1}
    PROVE  Unbroken(c)'
<1>1. PICK first \in 1..Len(ticks), last \in 1..Len(ticks) :
        InARow(c, first, last) /\ last < Len(ticks) /\ Bucket(ticks[last + 1], c.tf) # c.bucket
  BY DEF Unbroken
<1>2. starts' \intersect (first + 1)..(last + 1) = {}
  BY <1>1 DEF InARow
<1>3. InARow(c, first, last)'
  BY <1>1, <1>2, InARowKept
<1>4. /\ first \in 1..Len(ticks') /\ last \in 1..Len(ticks') /\ last < Len(ticks')
      /\ ticks'[last + 1] = ticks[last + 1]
  BY <1>1
<1> QED
  BY <1>1, <1>3, <1>4 DEF Unbroken, Bucket

(* Every step leaves the ticks received so far as they are, and marks at most *)
(* that the process starts now.                                               *)
LEMMA HistoryGrows ==
    ASSUME TypeInv, [Next]_vars
    PROVE  /\ Len(ticks) \in Nat /\ Len(ticks') \in Nat /\ Len(ticks) <= Len(ticks')
           /\ \A n \in 1..Len(ticks) : ticks'[n] = ticks[n]
           /\ starts \subseteq starts' /\ starts' \subseteq starts \union {Len(ticks) + 1}
<1>1. Len(ticks) \in Nat
  BY TickFacts
<1>2. CASE Receive
  BY <1>2, TickAppended DEF Receive
<1>3. CASE ~Receive
  <2>1. ticks' = ticks /\ starts \subseteq starts' /\ starts' \subseteq starts \union {Len(ticks) + 1}
    BY <1>3 DEF Next, vars, Backfill, BackfillFails, Start, Persist, PersistFails, Handle,
                StreamFails, Reconnect, Restart
  <2> QED
    BY <1>1, <2>1
<1> QED
  BY <1>2, <1>3

(* The candle in progress stays as it is while no tick comes.                 *)
LEMMA GrowingKept ==
    ASSUME NEW c, Growing(c), ticks' = ticks, starts' = starts
    PROVE  Growing(c)'
BY DEF Growing, InARow, Bucket

(* The invariant holds of empty tables.                                       *)
LEMMA InitInv == Init => IInv
<1> SUFFICES ASSUME Init PROVE IInv
  OBVIOUS
<1>1. TypeInv
  BY TypeInit
<1>2. Len(ticks) = 0 /\ DOMAIN handled = {}
  BY DEF Init
<1>3. OpenOK
  BY <1>2 DEF Init, OpenOK, NotOpen
<1> QED
  BY <1>1, <1>2, <1>3 DEF Init, IInv, PendingOK, RowsOK, HandledOK, HandledAsMade, HandledAsStored

(* The backfill adds rows of no tick.                                         *)
LEMMA BackfillInv ==
    ASSUME IInv, Backfill \/ BackfillFails \/ Start
    PROVE  IInv'
<1>1. TypeInv /\ TypeInv'
  BY BackfillType, StartType DEF IInv
<1>2. pending = {} /\ \A f \in Timeframes : open[f].ticks = {}
  BY <1>1 DEF TypeInv, ControlOK, Backfill, BackfillFails, Start
<1>3. UNCHANGED <<ticks, starts, open, pending, handled>> /\ step' # "handle"
  BY DEF Backfill, BackfillFails, Start, tableVars
<1>4. \A r \in stored' \ stored : r \in Candles /\ r.ticks = {}
  <2>1. CASE Backfill
    <3>1. PICK t \in present..MaxTime :
            IF Cardinality(Rows(Filling)) >= BackfillCount
            THEN UNCHANGED <<present, stored>>
            ELSE \E history \in Histories(t, Filling) : stored' \subseteq stored \union history
      BY <2>1 DEF Backfill
    <3>2. t \in 0..MaxTime
      BY <1>1, TickFacts, LimitsAssumption
    <3>3. Filling \in Timeframes
      BY <1>1, <2>1, LengthType, HeadTailProperties, EmptySeq
         DEF TypeInv, TypeOK, ControlOK, Backfill, Filling
    <3> QED
      BY <3>1, <3>2, <3>3, HistoryType
  <2>2. CASE BackfillFails \/ Start
    BY <2>2 DEF BackfillFails, Start, tableVars
  <2> QED
    BY <2>1, <2>2
<1>5. \A d : Unbroken(d) => Unbroken(d)'
  BY <1>1, <1>3, UnbrokenKept, TickFacts
<1>6. RowsOK'
  BY <1>2, <1>3, <1>4, <1>5 DEF IInv, RowsOK, Earlier
<1>7. OpenOK' /\ HandledOK'
  BY <1>2, <1>3, <1>5 DEF IInv, OpenOK, HandledOK, Earlier
<1> QED
  BY <1>1, <1>2, <1>3, <1>6, <1>7 DEF IInv, PendingOK, HandledAsMade, HandledAsStored, Earlier

(* A tick that does not close the candle in progress goes on with its row;    *)
(* one that does begins a row of its own.                                     *)
LEMMA ReopenedGrows ==
    ASSUME IInv, NEW t \in 0..MaxTime, ticks' = Append(ticks, t), starts' = starts,
           NEW f \in Timeframes, NEW c, c.tf = f, c.bucket = Bucket(t, f),
           c.ticks = IF Closes(t, f) THEN {Len(ticks) + 1} ELSE open[f].ticks \union {Len(ticks) + 1}
    PROVE  Growing(c)'
<1>0. PICK now \in Nat : now = Len(ticks) + 1
  BY TickFacts DEF IInv
<1>1. /\ Len(ticks) \in Nat /\ Len(ticks') = now /\ now = Len(ticks) + 1
      /\ \A n \in 1..Len(ticks) : ticks'[n] = ticks[n]
      /\ ticks'[now] = t
  BY <1>0, TickAppended DEF IInv
<1>2. starts \subseteq 1..now
  BY <1>1, TickFacts DEF IInv
<1>3. Bucket(ticks'[now], f) = Bucket(t, f)
  BY <1>1
<1>4. CASE open[f].ticks = {}
  <2>1. now \in starts /\ c.ticks = now..now
    BY <1>1, <1>4 DEF IInv, OpenOK, Closes
  <2>2. InARow(c, now, now)'
    <3>1. \A n \in now..now : Bucket(ticks'[n], c.tf) = c.bucket
      BY <1>1, <1>3
    <3>2. starts' \intersect (now + 1)..(now + 1) = {} /\ now \in starts'
      BY <1>1, <1>2, <2>1
    <3>3. now <= now /\ c.ticks = now..now
      BY <2>1
    <3> QED
      BY <3>1, <3>2, <3>3, Zenon DEF InARow, Bucket
  <2>3. now \in 1..Len(ticks')
    BY <1>1
  <2> QED
    BY <1>1, <2>2, <2>3 DEF Growing
<1>5. CASE open[f].ticks # {}
  <2>1. PICK first \in 1..Len(ticks) : InARow(open[f], first, Len(ticks)) /\ open[f].tf = f
    BY <1>5 DEF IInv, OpenOK, Growing
  <2>2. Bucket(ticks[Len(ticks)], f) = open[f].bucket
    BY <1>1, <2>1 DEF InARow
  <2>3. CASE Closes(t, f)
    <3>1. now > 1 /\ now - 1 = Len(ticks) /\ Len(ticks) \in 1..Len(ticks)
      BY <1>1, <2>1
    <3>2. ticks'[now - 1] = ticks[Len(ticks)]
      BY <1>1, <3>1
    <3>3. Bucket(ticks'[now - 1], f) # c.bucket
      BY <2>2, <2>3, <3>2 DEF Closes
    <3>4. InARow(c, now, now)'
      <4>1. c.ticks = now..now
        BY <1>1, <2>3
      <4>2. starts \intersect (now + 1)..(now + 1) = {}
        BY <1>1, <1>2
      <4>3. \A n \in now..now : Bucket(ticks'[n], c.tf) = c.bucket
        BY <1>1, <1>3
      <4> QED
        BY <3>1, <3>3, <4>1, <4>2, <4>3 DEF InARow, Bucket
    <3>5. now \in 1..Len(ticks')
      BY <1>1
    <3> QED
      BY <1>1, <3>4, <3>5 DEF Growing
  <2>4. CASE ~Closes(t, f)
    <3>1. open[f].bucket = Bucket(t, f)
      BY <1>5, <2>4 DEF Closes
    <3>2. c.ticks = first..now /\ first <= now
      <4>1. open[f].ticks = first..Len(ticks) /\ c.ticks = open[f].ticks \union {now}
        BY <1>1, <2>1, <2>4 DEF InARow
      <4>2. first..now = first..Len(ticks) \union {now} /\ first <= now
        BY <1>1
      <4> QED
        BY <4>1, <4>2
    <3>3. \A n \in first..now : Bucket(ticks'[n], f) = Bucket(t, f)
      <4> SUFFICES ASSUME NEW n \in first..now PROVE Bucket(ticks'[n], f) = Bucket(t, f)
        OBVIOUS
      <4>1. CASE n = now
        BY <1>3, <4>1
      <4>2. CASE n # now
        <5>1. n \in first..Len(ticks) /\ n \in 1..Len(ticks)
          BY <1>1, <4>2
        <5> QED
          BY <1>1, <2>1, <3>1, <5>1 DEF InARow
      <4> QED
        BY <4>1, <4>2
    <3>4. starts \intersect (first + 1)..(now + 1) = {}
      BY <1>1, <1>2, <2>1 DEF InARow
    <3>5. first \in starts \/ (first > 1 /\ Bucket(ticks'[first - 1], f) # Bucket(t, f))
      <4>1. first > 1 => ticks'[first - 1] = ticks[first - 1]
        BY <1>1
      <4> QED
        BY <2>1, <3>1, <4>1 DEF InARow
    <3>6. InARow(c, first, now)'
      BY <1>1, <3>2, <3>3, <3>4, <3>5 DEF InARow, Bucket
    <3>7. first \in 1..Len(ticks')
      BY <1>1
    <3> QED
      BY <1>1, <3>6, <3>7 DEF Growing
  <2> QED
    BY <2>3, <2>4
<1> QED
  BY <1>4, <1>5

(* The candle that a tick closes ends before it.                              *)
LEMMA ClosedUnbroken ==
    ASSUME IInv, NEW t \in 0..MaxTime, ticks' = Append(ticks, t), starts' = starts,
           NEW f \in Timeframes, Closes(t, f), NEW c, c = open[f]
    PROVE  c.tf = f /\ Unbroken(c)' /\ c.ticks \subseteq 1..Len(ticks)
<1>1. PICK last \in Nat : last = Len(ticks)
  BY TickFacts DEF IInv
<1>2. /\ Len(ticks') = last + 1 /\ ticks'[last + 1] = t
      /\ \A n \in 1..Len(ticks) : ticks'[n] = ticks[n]
  BY <1>1, TickAppended DEF IInv
<1>3. PICK first \in 1..Len(ticks) : InARow(c, first, last) /\ c.tf = f
  BY <1>1 DEF IInv, OpenOK, Growing, Closes
<1>4. starts' \intersect (first + 1)..(last + 1) = {}
  BY <1>3 DEF InARow
<1>5. InARow(c, first, last)'
  <2>1. last \in 1..Len(ticks) /\ Len(ticks) \in Nat
    BY <1>1, <1>3
  <2> QED
    BY <1>2, <1>3, <1>4, <2>1, InARowKept
<1>6. Bucket(ticks'[last + 1], f) # c.bucket
  BY <1>2 DEF Closes
<1>7. c.ticks \subseteq 1..Len(ticks)
  <2>1. c.ticks = first..last
    BY <1>3 DEF InARow
  <2> QED
    BY <1>1, <2>1
<1>8. first \in 1..Len(ticks') /\ last \in 1..Len(ticks') /\ last < Len(ticks')
  BY <1>1, <1>2
<1>9. Unbroken(c)'
  BY <1>3, <1>5, <1>6, <1>8 DEF Unbroken, Bucket
<1> QED
  BY <1>3, <1>7, <1>9

(* A tick closes a candle whole, and is counted into the next one.            *)
LEMMA ReceiveInv ==
    ASSUME IInv, Receive
    PROVE  IInv'
<1>1. TypeInv /\ TypeInv'
  BY ReceiveType DEF IInv
<1>2. PICK t \in 0..MaxTime :
        /\ ticks' = Append(ticks, t)
        /\ open' = [f \in Timeframes |-> Reopened(t, f)]
        /\ pending' = {open[f] : f \in {g \in Timeframes : Closes(t, g)}}
  BY DEF Receive
<1>3. /\ pending = {} /\ step = "stream" /\ Len(ticks) < MaxTicks
      /\ UNCHANGED <<starts, step, stored, handled>>
  BY DEF Receive, tableVars
<1>4. Len(ticks) \in Nat
  BY <1>1, TickFacts
<1>5. \A f \in Timeframes :
        /\ open'[f].tf = f /\ open'[f].bucket = Bucket(t, f)
        /\ open'[f].ticks = IF Closes(t, f) THEN {Len(ticks) + 1}
                           ELSE open[f].ticks \union {Len(ticks) + 1}
  BY <1>1, <1>2, <1>3, ReopenedType
<1>6. OpenOK'
  <2> SUFFICES ASSUME NEW f \in Timeframes PROVE open'[f].ticks # {} /\ Growing(open[f])'
    BY <1>5 DEF OpenOK
  <2> DEFINE c == open'[f]
  <2>1. c.ticks # {}
    BY <1>5
  <2>2. ASSUME NEW d, d = open'[f] PROVE Growing(d)'
    <3>1. /\ d.tf = f /\ d.bucket = Bucket(t, f)
          /\ d.ticks = IF Closes(t, f) THEN {Len(ticks) + 1} ELSE open[f].ticks \union {Len(ticks) + 1}
      BY <1>5, <2>2
    <3> QED
      BY <1>2, <1>3, <3>1, ReopenedGrows
  <2> QED
    BY <2>1, <2>2 DEF Growing, InARow
<1>7. \A d : Unbroken(d) => Unbroken(d)' /\ d.ticks \subseteq 1..Len(ticks)
  <2>1. [Next]_vars
    BY DEF Next
  <2>2. ASSUME NEW d, Unbroken(d) PROVE Unbroken(d)'
    BY <1>1, <2>1, <2>2, HistoryGrows, UnbrokenKept
  <2> QED
    BY <1>4, <2>2, UnbrokenPast
<1>8. \A c \in pending' :
        /\ c.tf \in Timeframes /\ c = open[c.tf] /\ Closes(t, c.tf)
        /\ Unbroken(c)' /\ c.ticks \subseteq 1..Len(ticks)
  <2> SUFFICES ASSUME NEW f \in Timeframes, Closes(t, f), NEW c, c = open[f]
               PROVE  c.tf = f /\ Unbroken(c)' /\ c.ticks \subseteq 1..Len(ticks)
    BY <1>2
  <2> QED
    BY <1>2, <1>3, ClosedUnbroken
\* what came before the candle in progress comes before the tick too
<1>9. \A d : \A f \in Timeframes :
        d.ticks \subseteq 1..Len(ticks) /\ Earlier(d, open[f]) => Earlier(d, open'[f])
  <2> SUFFICES ASSUME NEW d, NEW f \in Timeframes, d.ticks \subseteq 1..Len(ticks),
                      Earlier(d, open[f]), NEW m \in d.ticks, NEW n \in open'[f].ticks
               PROVE  m < n
    BY DEF Earlier
  <2>1. n \in open[f].ticks \/ n = Len(ticks) + 1
    <3>1. CASE Closes(t, f)
      <4>1. open'[f].ticks = {Len(ticks) + 1}
        BY <1>5, <3>1, Zenon
      <4> QED
        BY <4>1
    <3>2. CASE ~Closes(t, f)
      <4>1. open'[f].ticks = open[f].ticks \union {Len(ticks) + 1}
        BY <1>5, <3>2, Zenon
      <4> QED
        BY <4>1
    <3> QED
      BY <3>1, <3>2
  <2>2. m \in 1..Len(ticks)
    OBVIOUS
  <2> QED
    BY <1>4, <2>1, <2>2 DEF Earlier
<1>10. PendingOK'
  <2> SUFFICES ASSUME NEW c \in pending'
               PROVE  /\ Unbroken(c)' /\ Earlier(c, open'[c.tf])
                      /\ \A d \in pending' : d.tf = c.tf => d = c
    BY DEF PendingOK, Earlier
  <2>1. /\ c.tf \in Timeframes /\ Unbroken(c)'
        /\ Closes(t, c.tf) /\ c.ticks \subseteq 1..Len(ticks)
    BY <1>8
  <2>2. open'[c.tf].ticks = {Len(ticks) + 1}
    BY <1>5, <2>1
  <2>3. Earlier(c, open'[c.tf])
    <3>1. \A m \in c.ticks : m < Len(ticks) + 1
      BY <1>4, <2>1
    <3> QED
      BY <2>2, <3>1 DEF Earlier
  <2> QED
    BY <1>8, <2>1, <2>3
<1>11. RowsOK'
  <2> SUFFICES ASSUME NEW r \in stored
               PROVE  /\ r.ticks = {} \/ Unbroken(r)'
                      /\ Earlier(r, open'[r.tf])
                      /\ \A c \in pending' : c.tf = r.tf => Earlier(r, c)
    BY <1>3 DEF RowsOK, Earlier
  <2>1. r.tf \in Timeframes /\ (r.ticks = {} \/ Unbroken(r)) /\ Earlier(r, open[r.tf])
    BY <1>1, TickFacts, CandleFacts DEF IInv, RowsOK
  <2>2. r.ticks \subseteq 1..Len(ticks)
    BY <1>7, <2>1
  <2> QED
    BY <1>7, <1>8, <1>9, <2>1, <2>2
<1>12. HandledOK'
  <2> SUFFICES ASSUME NEW i \in DOMAIN handled
               PROVE  /\ Unbroken(handled[i])' /\ Earlier(handled[i], open'[handled[i].tf])
                      /\ \A c \in pending' : c.tf = handled[i].tf => Earlier(handled[i], c)
    BY <1>3 DEF HandledOK, Earlier, Unbroken, InARow, Bucket
  <2>1. /\ handled[i].tf \in Timeframes /\ Unbroken(handled[i])
        /\ Earlier(handled[i], open[handled[i].tf])
    BY <1>1, TickFacts, CandleFacts DEF IInv, HandledOK
  <2>2. handled[i].ticks \subseteq 1..Len(ticks) /\ Unbroken(handled[i])'
    <3>1. ASSUME NEW d, d = handled[i] PROVE Unbroken(d)' /\ d.ticks \subseteq 1..Len(ticks)
      BY <1>7, <2>1, <3>1
    <3> QED
      BY <1>3, <3>1 DEF Unbroken, InARow
  <2>3. Earlier(handled[i], open'[handled[i].tf])
    BY <1>9, <2>1, <2>2
  <2>4. ASSUME NEW c \in pending', c.tf = handled[i].tf PROVE Earlier(handled[i], c)
    BY <1>8, <2>1, <2>4
  <2> QED
    BY <2>2, <2>3, <2>4
<1>13. HandledAsMade' /\ HandledAsStored'
  BY <1>3 DEF IInv, HandledAsMade, HandledAsStored, Earlier
<1> QED
  BY <1>1, <1>6, <1>10, <1>11, <1>12, <1>13 DEF IInv

(* Among the closed candles that wait there is one whose turn it is at most.  *)
LEMMA TurnUnique ==
    ASSUME IInv, NEW c, NEW d, Turn(c), Turn(d)
    PROVE  c = d
<1>1. c \in pending /\ d \in pending /\ c.tf <= d.tf /\ d.tf <= c.tf
  BY DEF Turn
<1>2. c.tf \in Nat /\ d.tf \in Nat
  BY <1>1, TickFacts, CandleFacts, LengthType DEF IInv
<1>3. c.tf = d.tf
  BY <1>1, <1>2
<1> QED
  BY <1>1, <1>3 DEF IInv, PendingOK

(* What is saved came after the rows of its timeframe; what is refused finds  *)
(* one of them in its place.                                                  *)
LEMMA PersistInv ==
    ASSUME IInv, Persist
    PROVE  IInv'
<1>1. TypeInv /\ TypeInv'
  BY HandleType DEF IInv
<1>2. PICK c \in pending : Turn(c) /\ stored' = Saved(c)
  BY DEF Persist
<1>3. /\ step = "stream" /\ step' = "handle"
      /\ UNCHANGED <<ticks, starts, open, pending, handled>>
  BY DEF Persist, backfillVars
<1>4. \A r \in stored : r.tf = c.tf => Earlier(r, c)
  BY <1>2, <1>3 DEF IInv, RowsOK
<1>5. stored \subseteq stored' /\ stored' \subseteq stored \union {c}
  BY <1>2 DEF Saved
<1>6. \A d : Turn(d)' => d = c
  BY <1>2, <1>3, TurnUnique DEF Turn
<1>7. \A d : Unbroken(d) => Unbroken(d)'
  BY <1>3 DEF Unbroken, InARow, Bucket
<1>8. RowsOK'
  <2> SUFFICES ASSUME NEW r \in stored'
               PROVE  /\ r.ticks = {} \/ Unbroken(r)
                      /\ Earlier(r, open[r.tf])
                      /\ \A d \in pending : d.tf = r.tf => Earlier(r, d) \/ (r = c /\ d = c)
    BY <1>2, <1>3, <1>7 DEF RowsOK, Turn, Earlier
  <2>1. CASE r \in stored
    <3>1. RowsOK /\ step # "handle"
      BY <1>3 DEF IInv
    <3> QED
      BY <2>1, <3>1 DEF RowsOK
  <2>2. CASE r = c
    BY <1>2, <2>2 DEF IInv, PendingOK
  <2> QED
    BY <1>5, <2>1, <2>2
<1>9. HandledAsStored'
  <2>1. \E r \in stored' : r.tf = c.tf /\ r.bucket = c.bucket /\ (r = c \/ Earlier(r, c))
    <3>1. CASE \E r \in stored : r.tf = c.tf /\ r.bucket = c.bucket
      BY <1>4, <1>5, <3>1
    <3>2. CASE c \in stored'
      BY <3>2
    <3> QED
      BY <1>2, <3>1, <3>2 DEF Saved
  <2> QED
    BY <1>6, <2>1 DEF HandledAsStored, Earlier
<1>10. OpenOK' /\ PendingOK' /\ HandledOK' /\ HandledAsMade'
  BY <1>3, <1>7, GrowingKept DEF IInv, OpenOK, PendingOK, HandledOK, HandledAsMade, Earlier
<1> QED
  BY <1>1, <1>8, <1>9, <1>10 DEF IInv

(* The candle handled came after those handled before.                        *)
LEMMA HandleInv ==
    ASSUME IInv, Handle
    PROVE  IInv'
<1>1. TypeInv /\ TypeInv'
  BY HandleType DEF IInv
<1>2. PICK c \in pending :
        Turn(c) /\ handled' = Append(handled, c) /\ pending' = pending \ {c}
  BY DEF Handle
<1>3. /\ step = "handle" /\ step' = "stream"
      /\ UNCHANGED <<ticks, starts, open, stored>>
  BY DEF Handle, backfillVars
<1>4. \A d \in pending' : d.tf # c.tf
  BY <1>2 DEF IInv, PendingOK
<1>5. /\ handled \in Seq(Candles) /\ c \in Candles /\ Len(handled) \in Nat
      /\ DOMAIN handled = 1..Len(handled) /\ DOMAIN handled' = 1..(Len(handled) + 1)
      /\ handled'[Len(handled) + 1] = c
      /\ \A i \in DOMAIN handled : handled'[i] = handled[i]
  BY <1>1, <1>2, AppendProperties, LenProperties, SMTT(20) DEF TypeInv, TypeOK
<1>6. \A d : Unbroken(d) => Unbroken(d)'
  BY <1>3 DEF Unbroken, InARow, Bucket
<1>7. RowsOK'
  <2> SUFFICES ASSUME NEW r \in stored
               PROVE  /\ r.ticks = {} \/ Unbroken(r)
                      /\ Earlier(r, open[r.tf])
                      /\ \A d \in pending' : d.tf = r.tf => Earlier(r, d)
    BY <1>3, <1>6 DEF RowsOK, Earlier
  <2>1. \A d \in pending' : d \in pending /\ d # c
    BY <1>2
  <2>2. \A d \in pending' : ~Turn(d)
    BY <1>2, <2>1, TurnUnique
  <2> QED
    BY <2>1, <2>2 DEF IInv, RowsOK
<1>8. HandledOK'
  <2> SUFFICES ASSUME NEW i \in DOMAIN handled'
               PROVE  /\ Unbroken(handled'[i]) /\ Earlier(handled'[i], open[handled'[i].tf])
                      /\ \A d \in pending' : d.tf = handled'[i].tf => Earlier(handled'[i], d)
    <3>1. \A j \in DOMAIN handled' : Unbroken(handled'[j]) => Unbroken(handled[j])'
      BY <1>3 DEF Unbroken, InARow, Bucket
    <3> QED
      BY <1>3, <3>1 DEF HandledOK, Earlier
  <2>1. CASE i \in DOMAIN handled
    BY <1>2, <1>5, <2>1 DEF IInv, HandledOK
  <2>2. CASE i = Len(handled) + 1
    BY <1>2, <1>4, <1>5, <2>2 DEF IInv, PendingOK
  <2> QED
    BY <1>5, <2>1, <2>2
<1>9. HandledAsMade'
  <2> SUFFICES ASSUME NEW i \in DOMAIN handled', NEW j \in DOMAIN handled', i < j,
                      handled'[i].tf = handled'[j].tf
               PROVE  Earlier(handled'[i], handled'[j])
    BY DEF HandledAsMade, Earlier
  <2>1. i \in DOMAIN handled
    BY <1>5
  <2>2. CASE j \in DOMAIN handled
    BY <1>5, <2>1, <2>2 DEF IInv, HandledAsMade
  <2>3. CASE j = Len(handled) + 1
    BY <1>2, <1>5, <2>1, <2>3 DEF IInv, HandledOK
  <2> QED
    BY <1>5, <2>2, <2>3
<1>10. OpenOK' /\ PendingOK' /\ HandledAsStored'
  BY <1>2, <1>3, <1>6, GrowingKept DEF IInv, OpenOK, PendingOK, HandledAsStored, Earlier
<1> QED
  BY <1>1, <1>7, <1>8, <1>9, <1>10 DEF IInv

(* A failure of the store or of the stream drops a candle at most.            *)
LEMMA FaultInv ==
    ASSUME IInv, PersistFails \/ StreamFails \/ Reconnect
    PROVE  IInv'
<1>1. TypeInv'
  BY HandleType, ReconnectType DEF IInv
<1>2. /\ pending' \subseteq pending /\ step # "handle" /\ step' # "handle"
      /\ UNCHANGED <<ticks, starts, open, stored, handled>>
  BY DEF PersistFails, StreamFails, Reconnect, backfillVars, tableVars
<1>3. \A d : Unbroken(d) => Unbroken(d)'
  BY <1>2 DEF Unbroken, InARow, Bucket
<1>4. OpenOK' /\ HandledAsMade' /\ HandledAsStored'
  BY <1>2, GrowingKept DEF IInv, OpenOK, HandledAsMade, HandledAsStored, Earlier
<1>5. PendingOK' /\ RowsOK' /\ HandledOK'
  BY <1>2, <1>3 DEF IInv, PendingOK, RowsOK, HandledOK, Earlier
<1> QED
  BY <1>1, <1>4, <1>5 DEF IInv

(* A new start forgets the candles in progress, and marks where it begins.    *)
LEMMA RestartInv ==
    ASSUME IInv, Restart
    PROVE  IInv'
<1>1. TypeInv /\ TypeInv'
  BY RestartType DEF IInv
<1>2. /\ pending' = {} /\ step' = "backfill" /\ starts' = starts \union {Len(ticks) + 1}
      /\ \A f \in Timeframes : open'[f].tf = f /\ open'[f].ticks = {}
      /\ UNCHANGED <<ticks, stored, handled>>
  BY DEF Restart, tableVars, NotOpen
<1>3. \A d : Unbroken(d) => Unbroken(d)'
  BY <1>1, <1>2, UnbrokenKept, TickFacts
<1>4. OpenOK'
  BY <1>2 DEF OpenOK
<1>5. RowsOK'
  <2>1. \A r \in stored : r.tf \in Timeframes
    BY <1>1, TickFacts, CandleFacts
  <2> QED
    BY <1>2, <1>3, <2>1 DEF IInv, RowsOK, Earlier
<1>6. HandledOK'
  <2>1. \A i \in DOMAIN handled : handled[i].tf \in Timeframes
    BY <1>1, TickFacts, CandleFacts
  <2> QED
    BY <1>2, <1>3, <2>1 DEF IInv, HandledOK, Earlier
<1> QED
  BY <1>1, <1>2, <1>4, <1>5, <1>6
     DEF IInv, PendingOK, HandledAsMade, HandledAsStored, Earlier

(* Every step keeps the invariant.                                            *)
LEMMA StepInv == ASSUME IInv, [Next]_vars PROVE IInv'
<1>1. CASE UNCHANGED vars
  <2>1. TypeInv'
    BY <1>1, TypeStep DEF IInv
  <2>2. UNCHANGED <<ticks, starts, open, pending, step, stored, handled>>
    BY <1>1 DEF vars
  <2>3. \A d : Unbroken(d) => Unbroken(d)'
    BY <2>2 DEF Unbroken, InARow, Bucket
  <2> QED
    BY <2>1, <2>2, <2>3, GrowingKept
       DEF IInv, OpenOK, PendingOK, RowsOK, HandledOK, HandledAsMade, HandledAsStored, Turn, Earlier
<1> QED
  BY <1>1, BackfillInv, ReceiveInv, PersistInv, HandleInv, FaultInv, RestartInv DEF Next

(* Whatever fails, however ticks are stamped and whatever the provider's      *)
(* history holds: IInv holds in every state.                                  *)
THEOREM TickInvariance == Spec => []IInv
<1>1. IInv /\ [Next]_vars => IInv'
  BY StepInv
<1> QED
  BY <1>1, InitInv, PTL DEF Spec

-----------------------------------------------------------------------------
(* A candle of a boundary no newer than that of an older candle: the tick     *)
(* that closed the older one, or the first of the newer, was stamped before   *)
(* one that preceded it.                                                      *)
LEMMA SameBoundaryAgain ==
    ASSUME TypeInv, NEW c \in Candles, NEW d \in Candles, c.tf = d.tf,
           Unbroken(c), Unbroken(d), Earlier(c, d), d.bucket <= c.bucket
    PROVE  WentBack(c, d)
<1> DEFINE f == c.tf
           now == Len(ticks)
<1>1. /\ now \in Nat /\ f \in Timeframes /\ c.bucket \in Int /\ d.bucket \in Int
      /\ \A n \in 1..now : ticks[n] \in 0..MaxTime /\ ticks[n] \in Int /\ Bucket(ticks[n], f) \in Int
  <2>1. now \in Nat /\ f \in Timeframes /\ c.bucket \in Int /\ d.bucket \in Int
    BY TickFacts, CandleFacts
  <2>2. \A n \in 1..now : ticks[n] \in 0..MaxTime
    BY TickFacts
  <2> QED
    BY <2>1, <2>2, BucketType, LimitsAssumption
<1>2. \A m, n \in 1..now : Bucket(ticks[n], f) < Bucket(ticks[m], f) => ticks[n] < ticks[m]
  <2> SUFFICES ASSUME NEW m \in 1..now, NEW n \in 1..now, ~(ticks[n] < ticks[m])
               PROVE  ~(Bucket(ticks[n], f) < Bucket(ticks[m], f))
    OBVIOUS
  <2>1. ticks[m] <= ticks[n]
    BY <1>1
  <2> QED
    BY <1>1, <2>1, BucketMonotonic
<1>3. PICK start, last \in 1..now :
        /\ start <= last /\ c.ticks = start..last /\ Bucket(ticks[last], f) = c.bucket
        /\ last < now /\ Bucket(ticks[last + 1], f) # c.bucket
  BY <1>1 DEF Unbroken, InARow
<1>4. PICK first, end \in 1..now :
        first <= end /\ d.ticks = first..end /\ Bucket(ticks[first], f) = d.bucket
  BY <1>1 DEF Unbroken, InARow
<1>5. last < first /\ last + 1 \in 1..now
  <2>1. last \in c.ticks /\ first \in d.ticks
    BY <1>3, <1>4
  <2>2. last < first
    BY <2>1 DEF Earlier
  <2>3. now \in Nat
    BY <1>1
  <2> QED
    BY <2>2, <2>3
<1>6. last \in c.ticks /\ first \in d.ticks /\ last <= last /\ last <= last + 1
      /\ first <= first /\ last + 1 <= first
  BY <1>1, <1>3, <1>4, <1>5
<1>7. CASE d.bucket < c.bucket
  <2>1. ticks[first] < ticks[last]
    BY <1>2, <1>3, <1>4, <1>7
  <2> QED
    BY <1>5, <1>6, <2>1 DEF WentBack
<1>8. CASE d.bucket = c.bucket /\ Bucket(ticks[last + 1], f) < c.bucket
  <2>1. ticks[last + 1] < ticks[last] /\ last < last + 1
    BY <1>1, <1>2, <1>3, <1>5, <1>8
  <2> QED
    BY <1>5, <1>6, <2>1 DEF WentBack
<1>9. CASE d.bucket = c.bucket /\ c.bucket < Bucket(ticks[last + 1], f)
  <2>1. ticks[first] < ticks[last + 1]
    BY <1>2, <1>4, <1>5, <1>9
  <2>2. last + 1 < first
    BY <1>1, <1>4, <1>5, <1>9
  <2> QED
    BY <1>5, <1>6, <2>1, <2>2 DEF WentBack
<1> QED
  BY <1>1, <1>3, <1>5, <1>7, <1>8, <1>9

(* No candle is torn, short or mixed, for every number and length of the      *)
(* timeframes, every order of the ticks and every failure                     *)
(* (candle_aggregator.py:51).                                                 *)
THEOREM CandlesComplete == Spec => []RowsComplete
<1>1. IInv => RowsComplete
  BY DEF IInv, RowsOK, RowsComplete
<1> QED
  BY <1>1, TickInvariance, PTL

(* The handlers find the candle they are handed in the table, or the one that *)
(* had its boundary first (candle_repository.py:30-39).                       *)
THEOREM HandlersSeeTheirBoundary == Spec => []HandledAsStored
<1>1. IInv => HandledAsStored
  BY DEF IInv
<1> QED
  BY <1>1, TickInvariance, PTL

(* The handlers see each timeframe's candles in the order they were made, and *)
(* a boundary again only after the provider's time went back.                 *)
THEOREM CandlesHandledInOrder == Spec => []HandledInOrder
<1>1. IInv => HandledInOrder
  <2> SUFFICES ASSUME IInv, NEW i \in DOMAIN handled, NEW j \in DOMAIN handled, i < j,
                      handled[i].tf = handled[j].tf
               PROVE  /\ Earlier(handled[i], handled[j])
                      /\ handled[j].bucket <= handled[i].bucket => WentBack(handled[i], handled[j])
    BY DEF HandledInOrder
  <2>1. handled[i] \in Candles /\ handled[j] \in Candles
    BY TickFacts DEF IInv
  <2>2. Unbroken(handled[i]) /\ Unbroken(handled[j]) /\ Earlier(handled[i], handled[j])
    BY DEF IInv, HandledOK, HandledAsMade
  <2> QED
    BY <2>1, <2>2, SameBoundaryAgain DEF IInv
<1> QED
  BY <1>1, TickInvariance, PTL
=============================================================================
