---------------------------- MODULE SignalBacktest ----------------------------
(* run_signal_backtest: the walk over a history of closed candles that opens  *)
(* and grades signals with the rules of SignalRules, one candle at a time and *)
(* with nothing running beside it.  It is the specification the live pipeline *)
(* is measured against.  The history is revealed one bar at a time: the walk  *)
(* never looks at a bar later than the one it stands on.                      *)
EXTENDS SignalRules, Sequences

CONSTANTS MaxBar, Ratio, Window, CoarseWindow, Expiry, Shapes, Setups

VARIABLES
    market,   \* candles_15m, as far as the history is revealed
    setup,    \* the setup in candles_1h and candles_4h
    walked,   \* candles the loop has finished with
    phase,    \* "grade": at the top of the loop body; "build": past its `continue`
    ledger    \* resolved_signals and, last, open_signal if there is one

bvars == <<market, setup, walked, phase, ledger>>

Init ==
    /\ market = <<>> /\ setup \in Setups
    /\ walked = 0 /\ phase = "grade" /\ ledger = <<>>

Reveal ==
    /\ Len(market) < MaxBar
    /\ \E shape \in Shapes : market' = Append(market, shape)
    /\ UNCHANGED <<setup, walked, phase, ledger>>

Candle == walked + 1
HasOpen == ledger # <<>> /\ ledger[Len(ledger)].status = "open"
LastTap == IF ledger = <<>> THEN {} ELSE {ledger[Len(ledger)].opened}

(* The first half of the loop body: resolve_signal on the open signal. *)
GradeOpen ==
    LET outcome == IF HasOpen
                   THEN Outcome(market[Candle], ledger[Len(ledger)].opened, Candle, Expiry)
                   ELSE "none"
    IN  /\ phase = "grade" /\ walked < Len(market)
        /\ IF outcome = "open"
           THEN walked' = Candle /\ UNCHANGED <<phase, ledger>>
           ELSE /\ phase' = "build"
                /\ ledger' = IF outcome = "none" THEN ledger
                             ELSE [ledger EXCEPT ![Len(ledger)].status = outcome,
                                                 ![Len(ledger)].closed = Candle]
                /\ UNCHANGED walked
        /\ UNCHANGED <<market, setup>>

CoarseSeen == Recent({k \in 1..Candle : k * Ratio <= Candle}, CoarseWindow)
Seen == Recent(1..Candle, Window)

HasWarmup == Cardinality(CoarseSeen) >= CoarseWindow /\ Cardinality(Seen) >= Window

Taps == IF HasWarmup /\ SetupKnown(setup, CoarseSeen)
        THEN EntryTaps(Seen, LastTap, setup.born * Ratio, market)
        ELSE {}

(* The second half: warm-up, eligible_entry_candles, build_signal. *)
Build ==
    /\ phase = "build"
    /\ phase' = "grade" /\ walked' = Candle
    /\ \/ Taps = {} /\ UNCHANGED ledger
       \/ \E t \in Taps :
             /\ IsNewest(t, Taps)
             /\ ledger' = Append(ledger, [opened |-> t, status |-> "open", closed |-> 0])
    /\ UNCHANGED <<market, setup>>

Next == Reveal \/ GradeOpen \/ Build

Spec == Init /\ [][Next]_bvars
=============================================================================
