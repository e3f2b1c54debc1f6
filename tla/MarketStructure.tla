--------------------------- MODULE MarketStructure ---------------------------
(* What the code reads out of a window of closed candles: swing points,       *)
(* sweeps, structure breaks (features/structure.py), order blocks and gaps    *)
(* (features/poi.py), the entry zone of a leg (features/fibonacci.py).        *)
(*                                                                            *)
(* A window is a sequence of candles, oldest first; prices are integers.      *)
(* The code's lists are ordered by the swing point they belong to; here they  *)
(* are sets, and Walked gives that order where it matters.                    *)
EXTENDS Integers, Sequences, FiniteSetsExt, Functions

CONSTANTS
    Lookback,   \* DEFAULT_SWING_LOOKBACK
    AtrPeriod   \* DEFAULT_ATR_PERIOD

ASSUME PeriodsAssumption == Lookback \in Nat \ {0} /\ AtrPeriod \in Nat \ {0}

(* SwingKind; a direction is named by the kind of point that it breaks.       *)
Other(kind) == IF kind = "high" THEN "low" ELSE "high"

Level(c, kind) == IF kind = "high" THEN c.high ELSE c.low
Beyond(kind, a, b) == IF kind = "high" THEN a > b ELSE a < b

(* The swing point of a candle number and a kind, and what makes it one.      *)
Point(w, x) == [index |-> x[1], kind |-> x[2], price |-> Level(w[x[1]], x[2])]
IsExtreme(w, x, others) == \A j \in others : Beyond(x[2], Level(w[x[1]], x[2]), Level(w[j], x[2]))

(* Variant: the newest candles count as extremes before others confirm them.  *)
SwingPoints_Early(w) ==
    LET around(i) == ((i - Lookback)..(i + Lookback)) \intersect (DOMAIN w \ {i})
        found == {x \in ((1 + Lookback)..Len(w)) \X {"high", "low"} : IsExtreme(w, x, around(x[1]))}
    IN  {Point(w, x) : x \in found}

(* The strict extremes among Lookback candles on each side.                   *)
SwingPoints(w) ==
    LET around(i) == ((i - Lookback)..(i + Lookback)) \ {i}
        found == {x \in ((1 + Lookback)..(Len(w) - Lookback)) \X {"high", "low"} :
                      IsExtreme(w, x, around(x[1]))}
    IN  {Point(w, x) : x \in found}

(* The order in which the points are found and walked.                        *)
Walked(p, q) == p.index < q.index \/ (p.index = q.index /\ p.kind = "high" /\ q.kind = "low")
LastWalked(points) == CHOOSE p \in points : \A q \in points : q = p \/ Walked(q, p)

After(p, w) == (p.index + 1)..Len(w)

(* A sweep: the first candle that passes the level does not close beyond it.  *)
Sweeps(points, w) ==
    LET touches(p) == {i \in After(p, w) : \/ Beyond(p.kind, w[i].close, p.price)
                                           \/ Beyond(p.kind, Level(w[i], p.kind), p.price)}
        swept(p) == touches(p) # {} /\ ~Beyond(p.kind, w[Min(touches(p))].close, p.price)
    IN  {[point |-> p, at |-> Min(touches(p))] : p \in {q \in points : swept(q)}}

(* A break: the first close beyond the level.  It is a BOS when the break     *)
(* before it in the walk over the points went the same way.                   *)
StructureBreaks(points, w) ==
    LET through(p) == {i \in After(p, w) : Beyond(p.kind, w[i].close, p.price)}
        broken == {p \in points : through(p) # {}}
        earlier(p) == {q \in broken : Walked(q, p)}
        event(p) == IF earlier(p) # {} /\ LastWalked(earlier(p)).kind = p.kind THEN "bos" ELSE "choch"
    IN  {[event |-> event(p), point |-> p, at |-> Min(through(p))] : p \in broken}

(* Variant: a sweep leaves its point untested.                                *)
WeakPoints_Swept(points, sweeps, breaks) ==
    {p \in points : p.index \notin {b.point.index : b \in breaks}}

(* weak_points: tested is a set of candle numbers, not of points.             *)
WeakPoints(points, sweeps, breaks) ==
    {p \in points : p.index \notin {s.point.index : s \in sweeps} \union {b.point.index : b \in breaks}}

(* The simple rule of the predictions: the close against the newest extremes. *)
BreakOfStructure(points, close) ==
    LET of(kind) == {p \in points : p.kind = kind}
        passed(kind) == of(kind) # {} /\ Beyond(kind, close, LastWalked(of(kind)).price)
    IN  IF passed("high") THEN "bullish" ELSE IF passed("low") THEN "bearish" ELSE "neutral"

-----------------------------------------------------------------------------
Distance(a, b) == IF a > b THEN a - b ELSE b - a

TrueRange(w, i) ==
    LET own == w[i].high - w[i].low
    IN  IF i = 1 THEN own
        ELSE Max({own, Distance(w[i].high, w[i - 1].close), Distance(w[i].low, w[i - 1].close)})

(* AtrPeriod times the average true range; there is none before AtrPeriod.    *)
HasAtr(i) == i >= AtrPeriod
AtrSum(w, i) == SumFunctionOnSet([j \in DOMAIN w |-> TrueRange(w, j)], (i - AtrPeriod + 1)..i)

Closes(c, kind) == Beyond(kind, c.close, c.open)

(* Range at least 1.5 times the average.                                      *)
Impulsive(w, i) == HasAtr(i) /\ 2 * AtrPeriod * (w[i].high - w[i].low) >= 3 * AtrSum(w, i)

(* detect_order_blocks: the last candle of the other color before an          *)
(* impulsive one; found is where the code's list has it.                      *)
OrderBlocks(w, kind) ==
    LET opposing(i) == {j \in 1..(i - 1) : Closes(w[j], Other(kind))}
    IN  {[index |-> Max(opposing(i)), low |-> w[Max(opposing(i))].low,
          high |-> w[Max(opposing(i))].high, poi |-> "order_block", found |-> i] :
            i \in {i \in 2..Len(w) : Closes(w[i], kind) /\ opposing(i) # {} /\ Impulsive(w, i)}}

(* detect_fair_value_gaps: the first candle and the third do not overlap.     *)
FairValueGaps(w, kind) ==
    LET first(i) == Level(w[i - 2], kind)
        third(i) == Level(w[i], Other(kind))
    IN  {[index |-> i, low |-> Min({first(i), third(i)}), high |-> Max({first(i), third(i)}),
          poi |-> "fair_value_gap", found |-> Len(w) + i] :
            i \in {i \in 3..Len(w) : Beyond(kind, third(i), first(i))}}

-----------------------------------------------------------------------------
(* Prices behind this line are counted in the part Unit of a price, of which  *)
(* the ratios below and the averages are whole multiples.                     *)
Unit == 2000 * AtrPeriod

(* Variant: the deep bound is the usual 61.8 percent.                         *)
OteZone_Wide(start, end, kind) ==
    LET back(ratio) == (Unit \div 1000) * ratio * Distance(start, end)
        price(ratio) == IF kind = "high" THEN Unit * end - back(ratio) ELSE Unit * end + back(ratio)
    IN  [low |-> Min({price(618), price(705)}), high |-> Max({price(618), price(705)})]

(* compute_ote_zone: 70.5 to 79 percent back from the end of the leg.         *)
OteZone(start, end, kind) ==
    LET back(ratio) == (Unit \div 1000) * ratio * Distance(start, end)
        price(ratio) == IF kind = "high" THEN Unit * end - back(ratio) ELSE Unit * end + back(ratio)
    IN  [low |-> Min({price(705), price(790)}), high |-> Max({price(705), price(790)})]
=============================================================================
