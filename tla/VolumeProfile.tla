---------------------------- MODULE VolumeProfile ----------------------------
(* features/volume_profile.py: the volume of a leg by price.  The range of    *)
(* the leg is cut into BinCount bins, numbered from 0 as in the code, and     *)
(* every candle shares its volume equally among the bins it spans.  Volumes   *)
(* are counted in the part Shares of a unit, so that every share is whole.    *)
EXTENDS Integers, Sequences, FiniteSets, FiniteSetsExt, Functions

CONSTANTS
    BinCount,   \* DEFAULT_BIN_COUNT
    Shares      \* any common multiple of the numbers up to it

ASSUME BinsAssumption ==
    /\ BinCount \in Nat \ {0} /\ Shares \in Nat \ {0}
    /\ \A n \in 1..BinCount : \E part \in 1..Shares : n * part = Shares

Bins == 0..(BinCount - 1)

RangeLow(leg) == Min({leg[i].low : i \in DOMAIN leg})
RangeHigh(leg) == Max({leg[i].high : i \in DOMAIN leg})

(* No usable range: nothing, one price, or a feed without volume.             *)
HasProfile(leg) ==
    /\ leg # <<>>
    /\ RangeLow(leg) # RangeHigh(leg)
    /\ SumFunction([i \in DOMAIN leg |-> leg[i].volume]) > 0

(* Variant: the top bin is cut off at the top, not included.                  *)
Span_OpenTop(c, low, range) ==
    {b \in Bins : ((c.low - low) * BinCount) \div range <= b /\ b < ((c.high - low) * BinCount) \div range}

(* The bins of one candle.  A flat candle at the very top has none.           *)
Span(c, low, range) ==
    {b \in Bins : ((c.low - low) * BinCount) \div range <= b /\ b <= ((c.high - low) * BinCount) \div range}

(* _distribute_volume *)
Profile(leg) ==
    LET low == RangeLow(leg)
        range == RangeHigh(leg) - low
        share(c, b, span) == IF b \in span THEN (Shares \div Cardinality(span)) * c.volume ELSE 0
    IN  [b \in Bins |-> SumFunction([i \in DOMAIN leg |-> share(leg[i], b, Span(leg[i], low, range))])]

VolumeIn(bins, from, to) == SumFunctionOnSet(bins, from..to)

(* The lowest of the fullest bins; its middle, in 2 * BinCount parts.         *)
PocBin(bins) == Min({b \in Bins : \A c \in Bins : bins[c] <= bins[b]})
PocPrice(leg) ==
    2 * BinCount * RangeLow(leg) + (2 * PocBin(Profile(leg)) + 1) * (RangeHigh(leg) - RangeLow(leg))

(* Variant: the area stops one bin early.                                     *)
Enough_Half(bins, from, to) == 2 * VolumeIn(bins, from, to) >= VolumeIn(bins, 0, BinCount - 1)

Enough(bins, from, to) == 10 * VolumeIn(bins, from, to) >= 7 * VolumeIn(bins, 0, BinCount - 1)

(* _expand_value_area: from the fullest bin outward, the fuller neighbor      *)
(* first and the upper one of equals, to 70 percent of the volume.            *)
ValueArea(bins) ==
    LET at(b) == IF b \in Bins THEN bins[b] ELSE -1
        grow[ends \in Bins \X Bins] ==
            LET from == ends[1]
                to == ends[2]
            IN  IF Enough(bins, from, to) \/ (from = 0 /\ to = BinCount - 1) THEN <<from, to>>
                ELSE IF to + 1 \in Bins /\ at(to + 1) >= at(from - 1) THEN grow[<<from, to + 1>>]
                ELSE grow[<<from - 1, to>>]
    IN  grow[<<PocBin(bins), PocBin(bins)>>]
=============================================================================
