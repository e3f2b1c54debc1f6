------------------------------ MODULE PollCycle ------------------------------
(* TradingViewFeedService._run over all its symbols: one poll of every symbol *)
(* at once, the status and the backoff, with the request of TradingViewClient *)
(* and what the handlers of a closed candle tell the dashboards.              *)
(*                                                                            *)
(* The candles are left to the module TradingViewPipeline; what reaches the   *)
(* dashboards is a price per answer with bars and the life of the signals.    *)
EXTENDS Connections, SequencesExt

CONSTANTS
    Symbols,     \* Settings.symbols
    Timeframes,  \* how many timeframes a poll goes through
    SignalTimeframe,  \* the one whose candles SignalTracker and SignalService act on
    MaxDelay,    \* _MAX_BACKOFF_DELAY_SECONDS
    Budgets      \* bounds: how often each kind of event may happen in a behaviour

ASSUME PollAssumption ==
    /\ Timeframes \in Nat \ {0} /\ SignalTimeframe \in 1..Timeframes
    /\ MaxDelay \in Nat \ {0}
    /\ Tasks = Symbols \union {"_run"} /\ "_run" \notin Symbols
ASSUME BudgetsAssumption ==
    Budgets \subseteq [faults : Nat, prices : [Symbols -> Nat], signals : Nat, boots : Nat,
                      quotes : Nat, joins : Nat, cuts : Nat, restarts : Nat]

VARIABLES
    polls,       \* each symbol's _poll_symbol
    loop,        \* where _run is
    backingOff,  \* local of _run
    delay,       \* local of _run
    status,      \* TradingViewFeedService.status
    clock,       \* the time, as the number of prices observed so far
    latest,      \* time of each symbol's entry of _latest_prices, 0 before the first
    signals,     \* signal table
    left         \* what is left of the budget of events

loopVars == <<loop, backingOff, delay, status>>
pollVars == <<polls, loopVars, clock, latest, signals, left>>

May(event) == left[event] > 0
Spend(event) == left' = [left EXCEPT ![event] = @ - 1]

Begun == [tf |-> 1, at |-> "fetch", bars |-> FALSE, news |-> <<>>]

StatusMessage(x) == <<"feed_status", x>>
PriceMessage(s, t) == <<"price", s, t>>
SignalMessage(i, x) == <<"signal", i, x>>

PollInit ==
    /\ polls = [s \in Symbols |-> Begun]
    /\ loop = "gather" /\ backingOff = FALSE /\ delay = 1 /\ status = "live"
    /\ clock = 0 /\ latest = [s \in Symbols |-> 0]
    /\ signals = <<>>
    /\ left \in Budgets

OpenIds(s) == {i \in DOMAIN signals : signals[i].symbol = s /\ signals[i].status = "open"}

-----------------------------------------------------------------------------
(* One timeframe of _poll_symbol. *)

At(s, place) == polls[s].at = place /\ Idle(s)

Goto(s, place) == polls' = [polls EXCEPT ![s].at = place]

(* The next timeframe, or the end of this symbol's poll. *)
Advance(s) ==
    polls' = [polls EXCEPT ![s] =
        IF @.tf < Timeframes
        THEN [Begun EXCEPT !.tf = polls[s].tf + 1]
        ELSE [Begun EXCEPT !.tf = Timeframes, !.at = "done"]]

(* fetch_candles: connected, and _read has got a frame with bars that is not  *)
(* the last one.                                                             *)
Frame(s) ==
    /\ At(s, "fetch") /\ ~polls[s].bars
    /\ left.prices[s] > 0 /\ left' = [left EXCEPT !.prices[s] = @ - 1]
    /\ polls' = [polls EXCEPT ![s].bars = TRUE]
    /\ UNCHANGED <<connectionVars, loopVars, clock, latest, signals>>

(* Connecting fails, or series_completed does not come in time. *)
FetchFails(s) ==
    /\ At(s, "fetch")
    /\ May("faults") /\ Spend("faults")
    /\ polls' = [polls EXCEPT ![s] = [Begun EXCEPT !.tf = polls[s].tf, !.at = "failed"]]
    /\ UNCHANGED <<connectionVars, loopVars, clock, latest, signals>>

(* The series is complete, or the stream ended before it was: both count as  *)
(* an answer, and one without bars ends the timeframe's turn.                *)
AnswerEmpty(s) ==
    /\ At(s, "fetch") /\ ~polls[s].bars
    /\ Advance(s)
    /\ UNCHANGED <<connectionVars, loopVars, clock, latest, signals, left>>

(* The price of the answer's last bar, stamped with the present. *)
AnswerBars(s) ==
    /\ At(s, "fetch") /\ polls[s].bars
    /\ clock' = clock + 1
    /\ latest' = [latest EXCEPT ![s] = clock']
    /\ Broadcast(s, PriceMessage(s, clock'))
    /\ Goto(s, "store")
    /\ UNCHANGED <<link, endpoint, registered, inbox, loopVars, signals, left>>

(* No bar closed, the store refused, or the handlers leave the candle alone. *)
NothingClosed(s) ==
    /\ At(s, "store")
    /\ Advance(s)
    /\ UNCHANGED <<connectionVars, loopVars, clock, latest, signals, left>>

(* Variant: the dashboards are not told. *)
Resolve_Untold(s) ==
    /\ At(s, "store") /\ polls[s].tf = SignalTimeframe
    /\ \E i \in OpenIds(s) :
        /\ signals' = [signals EXCEPT ![i].status = "resolved"]
        /\ Goto(s, "tracked")
    /\ UNCHANGED <<connectionVars, loopVars, clock, latest, left>>

(* SignalTracker: the closed candle resolves the open signal (the guard is      *)
(* atomic here, so there is one at most), or it does not.                    *)
Resolve(s) ==
    /\ At(s, "store") /\ polls[s].tf = SignalTimeframe
    /\ \E i \in OpenIds(s) :
        /\ signals' = [signals EXCEPT ![i].status = "resolved"]
        /\ polls' = [polls EXCEPT ![s].at = "tracked", ![s].news = SignalMessage(i, "resolved")]
    /\ UNCHANGED <<connectionVars, loopVars, clock, latest, left>>

ResolveNone(s) ==
    /\ At(s, "store") /\ polls[s].tf = SignalTimeframe
    /\ Goto(s, "tracked")
    /\ UNCHANGED <<connectionVars, loopVars, clock, latest, signals, left>>

(* SignalService: with none open, a setup is saved, or there is none. *)
Open(s) ==
    /\ At(s, "tracked") /\ polls[s].news = <<>>
    /\ OpenIds(s) = {}
    /\ May("signals") /\ Spend("signals")
    /\ signals' = Append(signals, [symbol |-> s, status |-> "open", by |-> "feed"])
    /\ polls' = [polls EXCEPT ![s].at = "served", ![s].news = SignalMessage(Len(signals) + 1, "open")]
    /\ UNCHANGED <<connectionVars, loopVars, clock, latest>>

OpenNone(s) ==
    /\ At(s, "tracked") \/ At(s, "served")
    /\ polls[s].news = <<>>
    /\ Advance(s)
    /\ UNCHANGED <<connectionVars, loopVars, clock, latest, signals, left>>

(* broadcast_signal, once the commit has come back. *)
Tell(s) ==
    /\ Idle(s) /\ polls[s].news # <<>>
    /\ Broadcast(s, polls[s].news)
    /\ polls' = [polls EXCEPT ![s].news = <<>>]
    /\ UNCHANGED <<link, endpoint, registered, inbox, loopVars, clock, latest, signals, left>>

PollSymbol(s) ==
    \/ Frame(s) \/ FetchFails(s) \/ AnswerEmpty(s) \/ AnswerBars(s)
    \/ NothingClosed(s) \/ Resolve(s) \/ ResolveNone(s) \/ Open(s) \/ OpenNone(s) \/ Tell(s)

-----------------------------------------------------------------------------
(* _run *)

(* _set_status: told only when it changed. *)
SetStatus(x) ==
    /\ status' = x
    /\ IF x = status THEN UNCHANGED sending ELSE Broadcast("_run", StatusMessage(x))

Failed == {s \in Symbols : polls[s].at = "failed"}

(* Variant: gather passes the first failure on while other polls go on. *)
Gathered_FirstFailure == Failed # {} \/ \A s \in Symbols : Idle(s) /\ polls[s].at = "done"

(* gather with return_exceptions: every symbol's poll has ended. *)
Gathered == \A s \in Symbols : Idle(s) /\ polls[s].at \in {"done", "failed"}

CycleFails ==
    /\ loop = "gather" /\ Gathered /\ Failed # {}
    /\ backingOff' = TRUE
    /\ SetStatus("disconnected")
    /\ loop' = "backoff"
    /\ UNCHANGED <<link, endpoint, registered, inbox, polls, delay, clock, latest, signals, left>>

(* Variant: the status is set back only when no backoff was needed. *)
CycleSucceeds_StaysDown ==
    /\ loop = "gather" /\ Gathered /\ Failed = {}
    /\ backingOff' = FALSE
    /\ delay' = IF backingOff THEN 1 ELSE delay
    /\ loop' = "sleep"
    /\ UNCHANGED <<connectionVars, polls, status, clock, latest, signals, left>>

CycleSucceeds ==
    /\ loop = "gather" /\ Gathered /\ Failed = {}
    /\ backingOff' = FALSE
    /\ IF backingOff THEN delay' = 1 /\ SetStatus("live") ELSE UNCHANGED <<delay, status, sending>>
    /\ loop' = "sleep"
    /\ UNCHANGED <<link, endpoint, registered, inbox, polls, clock, latest, signals, left>>

(* Variant: the backoff grows without its limit. *)
Wake_NoCap ==
    /\ loop \in {"sleep", "backoff"} /\ Idle("_run")
    /\ delay' = IF loop = "backoff" THEN 2 * delay ELSE delay
    /\ loop' = "gather"
    /\ polls' = [s \in Symbols |-> Begun]
    /\ UNCHANGED <<connectionVars, backingOff, status, clock, latest, signals, left>>

(* The sleep is over and the next cycle starts. *)
Wake ==
    /\ loop \in {"sleep", "backoff"} /\ Idle("_run")
    /\ delay' = IF loop = "backoff" THEN Min({2 * delay, MaxDelay}) ELSE delay
    /\ loop' = "gather"
    /\ polls' = [s \in Symbols |-> Begun]
    /\ UNCHANGED <<connectionVars, backingOff, status, clock, latest, signals, left>>

Run == CycleFails \/ CycleSucceeds \/ Wake

(* The server stops at any await and starts again. *)
Restart ==
    /\ May("restarts") /\ Spend("restarts")
    /\ CutAll
    /\ polls' = [s \in Symbols |-> Begun]
    /\ loop' = "gather" /\ backingOff' = FALSE /\ delay' = 1 /\ status' = "live"
    /\ latest' = [s \in Symbols |-> 0]
    /\ UNCHANGED <<clock, signals>>
=============================================================================
