------------------------- MODULE LiveAgainstBacktest -------------------------
(* The live pipeline against the backtest engine.  The feed task is in the   *)
(* second half of the backtest's loop body from the end of SignalTracker on, *)
(* when no signal is open.                                                   *)
EXTENDS TradingViewPipeline

Building == PastCheck = {Feed} \/ (pc[Feed] = "check" /\ OpenIds = {})

LivePhase == IF Building THEN "build" ELSE "grade"

LiveWalked == IF Building \/ pc[Feed] \in {"track", "resolve"} THEN bar - 1 ELSE bar

LiveLedger ==
    [i \in Ids |-> [opened |-> signals[i].opened, status |-> signals[i].status,
                    closed |-> signals[i].closed]]

Backtest == INSTANCE SignalBacktest
    WITH walked <- LiveWalked, phase <- LivePhase, ledger <- LiveLedger

(* When the pipeline keeps up with the market, nothing fails and no HTTP     *)
(* request builds a signal, the signal table is what the backtest engine     *)
(* computes from the same candles (signal_tracker.py:7-9).                   *)
LiveMatchesBacktest == Backtest!Spec
=============================================================================
