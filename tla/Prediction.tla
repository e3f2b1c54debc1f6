----------------------------- MODULE Prediction -----------------------------
(* The predictions: the features of a window of closed candles                *)
(* (features/indicators.py, features/feature_builder.py), the vote of the     *)
(* rule-based strategy (prediction/rule_based.py) and what the ML strategy    *)
(* makes of a probability (prediction/ml_strategy.py).                        *)
(* A missing indicator is an empty set, an indicator a set of one value.      *)
EXTENDS MarketStructure

CONSTANTS FastPeriod, SlowPeriod, RsiPeriod, MomentumPeriod, VolatilityPeriod

ASSUME IndicatorsAssumption ==
    {FastPeriod, SlowPeriod, RsiPeriod, MomentumPeriod, VolatilityPeriod} \subseteq Nat \ {0}

Given(known, x) == IF known THEN {x} ELSE {}

Sign(n) == IF n > 0 THEN 1 ELSE IF n < 0 THEN -1 ELSE 0

(* The newest closes of a window, and their changes.                          *)
Newest(w, n) == (Len(w) - n + 1)..Len(w)
CloseSum(w, n) == MapThenSumSet(LAMBDA i : w[i].close, Newest(w, n))
Change(w, i) == w[i].close - w[i - 1].close

(* simple_moving_average, the fast against the slow.                          *)
Trend(w) == Given(Len(w) >= FastPeriod /\ Len(w) >= SlowPeriod,
                  Sign(SlowPeriod * CloseSum(w, FastPeriod) - FastPeriod * CloseSum(w, SlowPeriod)))

(* relative_strength_index against 60 and 40: the gains' share of all         *)
(* changes; a flat window scores 50.                                          *)
Rsi(w) ==
    LET sum(sign) == MapThenSumSet(LAMBDA i : IF Sign(Change(w, i)) = sign THEN sign * Change(w, i) ELSE 0,
                                   Newest(w, RsiPeriod))
        all == sum(1) + sum(-1)
    IN  Given(Len(w) > RsiPeriod,
              IF all = 0 THEN 0
              ELSE IF 5 * sum(1) >= 3 * all THEN 1
              ELSE IF 5 * sum(1) <= 2 * all THEN -1
              ELSE 0)

Momentum(w) == Given(Len(w) > MomentumPeriod, Sign(w[Len(w)].close - w[Len(w) - MomentumPeriod].close))

(* build_feature_set: the votes, whether atr and volatility are there, and    *)
(* what the vector divides by.                                                *)
FeatureSet(w) ==
    [structure |-> BreakOfStructure(SwingPoints(w), w[Len(w)].close),
     trend |-> Trend(w), rsi |-> Rsi(w), momentum |-> Momentum(w),
     ranges |-> HasAtr(Len(w)) /\ Len(w) >= VolatilityPeriod,
     close |-> w[Len(w)].close,
     slow |-> Given(Len(w) >= SlowPeriod, CloseSum(w, SlowPeriod))]

-----------------------------------------------------------------------------
StructureVote(f) == IF f.structure = "bullish" THEN 2 ELSE IF f.structure = "bearish" THEN -2 ELSE 0

(* The vote of an indicator; a missing one abstains.                          *)
Vote(known) == IF 1 \in known THEN 1 ELSE IF -1 \in known THEN -1 ELSE 0

Score(f) == StructureVote(f) + Vote(f.trend) + Vote(f.rsi) + Vote(f.momentum)

Call(direction, confidence) == [direction |-> direction, confidence |-> confidence]

CallOf(score, confidence) ==
    Call(IF score > 0 THEN "bullish" ELSE IF score < 0 THEN "bearish" ELSE "neutral", confidence)

(* Variant: confidence relative to the weight of the votes that take a side.  *)
RuleBased_CastWeight(f) ==
    LET cast == Distance(StructureVote(f), 0)
                + Cardinality({x \in {"trend", "rsi", "momentum"} : Vote(f[x]) # 0})
    IN  CallOf(Score(f), IF cast = 0 THEN 0 ELSE (100 * Distance(Score(f), 0)) \div cast)

(* RuleBasedStrategy.evaluate and _combine: the score out of 5, the weight of *)
(* every vote there could be.                                                 *)
RuleBased(f) == CallOf(Score(f), 20 * Distance(Score(f), 0))

(* feature_vector: all indicators or nothing, and nothing to divide by zero.  *)
HasVector(f) ==
    f.trend # {} /\ f.rsi # {} /\ f.momentum # {} /\ f.ranges /\ f.close # 0 /\ 0 \notin f.slow

(* _signal_from_probability, in percent of "up".  The edges of the neutral    *)
(* band, where the floats decide, are left out of the probabilities.          *)
FromProbability(up) ==
    IF Distance(up, 50) <= 5 THEN Call("neutral", 0) ELSE CallOf(up - 50, 2 * Distance(up, 50))
=============================================================================
