---------------------------- MODULE SignalBuilder ----------------------------
(* prediction/signal_builder.py: a 4H bias, a 1H setup of sweep, break, point *)
(* of interest and OTE zone, a 15m tap.  Every answer is a set: empty where   *)
(* the code returns None, else of one element.  Prices of a setup and of a    *)
(* signal are in the part Unit of a price (MarketStructure).                  *)
EXTENDS MarketStructure, VolumeProfile

Some(S, x) == IF S = {} THEN {} ELSE {x}

(* _determine_bias: the kind of the last broken point in walk order, which    *)
(* need not be the point that was broken last.                                *)
Bias(w) ==
    LET broken == {b.point : b \in StructureBreaks(SwingPoints(w), w)}
    IN  Some(broken, LastWalked(broken).kind)

(* Of sweeps or breaks, the one whose point was walked last.                  *)
Latest(S) == CHOOSE x \in S : x.point = LastWalked({y.point : y \in S})

(* _find_setup up to the leg: the last walked break in the direction of the   *)
(* bias, and before its candle the last walked sweep of the other kind.       *)
Leg(bias, w, sweeps, breaks) ==
    LET broken == {b \in breaks : b.point.kind = bias}
        break == Latest(broken)
        swept == {s \in sweeps : s.point.kind = Other(bias) /\ s.at < break.at}
        sweep == Latest(swept)
        \* _find_leg_end: the first of the most extreme candles since the break
        tail == break.at..Len(w)
        end == Min({i \in tail : \A j \in tail : ~Beyond(bias, Level(w[j], bias), Level(w[i], bias))})
    IN  IF broken = {} \/ swept = {} THEN {}
        ELSE {[event |-> break.event, from |-> sweep.at, to |-> end,
               start |-> Level(w[sweep.at], Other(bias)), end |-> Level(w[end], bias)]}

(* _poi_candidates and _intersect: the parts of the order blocks and gaps of  *)
(* the leg that lie in its OTE zone.                                          *)
Zones(bias, w, leg) ==
    LET ote == OteZone(leg.start, leg.end, bias)
        candidates == {z \in OrderBlocks(w, bias) \union FairValueGaps(w, bias) :
                           leg.from <= z.index /\ z.index <= leg.to}
        cut(z) == [z EXCEPT !.low = Max({Unit * z.low, ote.low}), !.high = Min({Unit * z.high, ote.high})]
    IN  {z \in {cut(c) : c \in candidates} : z.low < z.high}

(* _pick_best_zone: the one nearest to the fullest price, else the first.     *)
BestZone(zones, traded) ==
    LET away(z) == Distance(BinCount * (z.low + z.high), Unit * PocPrice(traded))
        better(z, y) == \/ z = y
                        \/ HasProfile(traded) /\ away(z) < away(y)
                        \/ (HasProfile(traded) => away(z) = away(y)) /\ z.found < y.found
    IN  CHOOSE z \in zones : \A y \in zones : better(z, y)

(* _compute_stop: a quarter of the ATR behind the swept candle, or a          *)
(* thousandth of its price.                                                   *)
Stop(bias, w, leg) ==
    LET buffer == IF HasAtr(leg.from) THEN (Unit \div (4 * AtrPeriod)) * AtrSum(w, leg.from)
                  ELSE (Unit \div 1000) * Distance(leg.start, 0)
    IN  IF bias = "high" THEN Unit * leg.start - buffer ELSE Unit * leg.start + buffer

(* _find_target: the nearest untested point of the bias's own kind that lies  *)
(* beyond the zone.                                                           *)
Targets(bias, weak, zone) ==
    LET edge == IF bias = "high" THEN zone.high ELSE zone.low
        beyond == {p.price : p \in {q \in weak : q.kind = bias /\ Beyond(bias, Unit * q.price, edge)}}
    IN  Some(beyond, IF bias = "high" THEN Min(beyond) ELSE Max(beyond))

(* _find_setup *)
Setup(bias, w) ==
    LET points == SwingPoints(w)
        sweeps == Sweeps(points, w)
        breaks == StructureBreaks(points, w)
        best(leg, zones) == Some(zones, BestZone(zones, SubSeq(w, leg.from, leg.to)))
        with(leg, zone) ==
            {[bias |-> bias, leg |-> leg, low |-> zone.low, high |-> zone.high,
              stop |-> Stop(bias, w, leg), target |-> Unit * price, after |-> w[leg.to].at] :
                price \in Targets(bias, WeakPoints(points, sweeps, breaks), zone)}
    IN  UNION {UNION {with(leg, zone) : zone \in best(leg, Zones(bias, w, leg))} :
                  leg \in Leg(bias, w, sweeps, breaks)}

(* _check_entry: of the eligible candles since the leg ended, those that      *)
(* touch the zone; the newest one is the tap.                                 *)
Taps(setup, w, eligible) ==
    {i \in eligible : /\ w[i].at > setup.after
                      /\ Unit * w[i].low <= setup.high
                      /\ Unit * w[i].high >= setup.low}

(* Twice the distances of _assemble_signal.  The risk has no sign.            *)
Middle(setup) == setup.low + setup.high
Risk(setup) == Distance(Middle(setup), 2 * setup.stop)
Reward(setup) ==
    IF setup.bias = "high" THEN 2 * setup.target - Middle(setup) ELSE Middle(setup) - 2 * setup.target

(* MIN_RISK_REWARD is 1.8.                                                    *)
WorthIt(setup) == Risk(setup) > 0 /\ Reward(setup) > 0 /\ 5 * Reward(setup) >= 9 * Risk(setup)

(* build_signal *)
BuildSignal(w4h, w1h, w15, eligible) ==
    {[setup |-> s, opened |-> w15[Max(Taps(s, w15, eligible))].at, status |-> "open", closed |-> 0] :
        s \in {t \in UNION {Setup(bias, w1h) : bias \in Bias(w4h)} :
                  WorthIt(t) /\ Taps(t, w15, eligible) # {}}}

(* Variant: any tap of the window will do, again and again.                   *)
Eligible_Again(w15, used) == DOMAIN w15

(* eligible_entry_candles: the numbers of the candles that it keeps.          *)
Eligible(w15, used) == {i \in DOMAIN w15 : \A t \in used : w15[i].at > t}

(* resolve_signal on real prices: the stop first, then the target, then age.  *)
Grade(signal, c, expiry) ==
    LET s == signal.setup
        reached(kind, price) == ~Beyond(kind, price, Unit * Level(c, kind))
    IN  IF reached(Other(s.bias), s.stop) THEN "loss"
        ELSE IF reached(s.bias, s.target) THEN "win"
        ELSE IF c.at - signal.opened > expiry THEN "expired"
        ELSE "open"
=============================================================================
