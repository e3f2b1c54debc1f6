------------------------------ MODULE MCHistory ------------------------------
(* The histories that the two programs are checked on.                        *)
EXTENDS Programs

Bar(o, h, l, c, v, t) == [open |-> o, high |-> h, low |-> l, close |-> c, volume |-> v, at |-> t]

(* Hourly candles: a leg up that sweeps a low and breaks a high, and a leg    *)
(* down; each with any one candle flat, or running up or down instead.        *)
OneSymbol == <<"XAUUSD">>
OneTimeframe == <<"15m">>
HourBars == 2
BaseUp == <<<<9, 10, 9, 10>>, <<10, 12, 7, 9>>, <<9, 11, 5, 7>>, <<7, 9, 6, 8>>, <<8, 10, 5, 7>>,
            <<7, 7, 4, 6>>, <<6, 13, 4, 11>>, <<11, 12, 11, 12>>, <<12, 13, 10, 10>>>>
BaseDown == <<<<9, 10, 6, 7>>, <<7, 11, 6, 11>>, <<11, 13, 6, 7>>, <<7, 12, 5, 12>>, <<12, 14, 12, 13>>,
              <<13, 14, 9, 9>>, <<9, 10, 2, 4>>, <<4, 8, 3, 8>>, <<8, 9, 8, 8>>>>
Hours(base) == [i \in DOMAIN base |-> Bar(base[i][1], base[i][2], base[i][3], base[i][4], i, HourBars * (i - 8))]
Changed(h) ==
    {h} \union {[h EXCEPT ![x[1]].open = x[2][1], ![x[1]].high = x[2][2], ![x[1]].low = x[2][3],
                          ![x[1]].close = x[2][4]] :
                   x \in (3..9) \X {<<11, 11, 11, 11>>, <<4, 14, 4, 13>>}}
SomeHistories1h == Changed(Hours(BaseUp)) \union Changed(Hours(BaseDown))

FourHourBars == 4
Zigzag(closes) == [i \in DOMAIN closes |-> Bar(closes[i], closes[i], closes[i], closes[i], 1, FourHourBars * (i - 5))]
SomeHistories4h == {Zigzag(<<5, 5, 7, 6, 9, 9>>), Zigzag(<<5, 5, 7, 6, 9, 4>>), Zigzag(<<9, 9, 7, 8, 5, 5>>)}

Flat(low, high) == Bar(low, high, low, high, 1, 0)
SomeCandles15 == {Flat(8, 8), Flat(6, 11), Flat(12, 16), Flat(1, 5)}

TwoPairs == <<[symbol |-> "XAUUSD", timeframe |-> "15m"], [symbol |-> "XAUUSD", timeframe |-> "1h"]>>
Path(closes) == [i \in DOMAIN closes |-> Flat(closes[i], closes[i])]
SomeHistories ==
    {Path(x \o x) : x \in [1..4 -> 1..3]} \union {Path(<<1, 2>>), Path(<<>>)}
SomeTrainingHistories ==
    {Path(<<1, 2, 3, 4, 5, 6, 7, 8, 9, 10>>), Path(<<2, 3, 2, 4, 3, 3, 4, 2, 3, 2>>),
     Path(<<9, 8, 7, 6, 5, 4, 3, 2, 1, 1>>), Path(<<1, 2, 3, 4, 5, 6>>)}
SomeLiveWindows ==
    {Path(<<2>>), Path(<<2, 3, 1, 4>>), Path(<<1, 2, 3, 2, 4>>), Path(<<4, 3, 1, 2, 1>>), Path(<<3, 3, 3, 3, 3>>)}
SomeProbabilities == {0, 40, 50, 60, 100}

(* An hourly history in which the low swept before the break lies above the   *)
(* high that follows it: a leg up that runs down.                             *)
FourteenHours ==
    Hours(<<<<8, 24, 6, 24>>, <<24, 29, 22, 25>>, <<25, 27, 23, 24>>, <<24, 24, 16, 18>>, <<18, 28, 18, 23>>,
            <<23, 25, 19, 24>>, <<24, 27, 15, 17>>, <<17, 22, 2, 4>>, <<4, 7, 4, 5>>, <<5, 10, 5, 5>>,
            <<5, 11, 1, 1>>, <<1, 4, 1, 3>>, <<3, 10, 1, 10>>, <<10, 12, 10, 12>>>>)
InvertedHistories1h == {[i \in 1..14 |-> [FourteenHours[i] EXCEPT !.at = HourBars * (i - 14)]]}
InvertedHistories4h == {Zigzag(<<5, 6, 8, 6, 5, 9>>)}
=============================================================================
