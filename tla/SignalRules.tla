---------------------------- MODULE SignalRules ----------------------------
(* The pure rules that the live services and the backtest engine share:     *)
(* which candles a window read returns, which of them may be the entry tap  *)
(* of a new signal, and how one candle grades an open signal.               *)
(*                                                                          *)
(* Time is counted in 15-minute bars: bar b is the candle that closes at    *)
(* time b.  Prices are abstracted to the levels of the setup that a bar     *)
(* touches: its entry zone, its stop and its target.                        *)
(*                                                                          *)
(* A definition named Rule_Variant, here and in the modules below, is the   *)
(* rule with a plausible bug in it; no specification uses it.  It is there  *)
(* to show that the properties notice the bug.                              *)
EXTENDS Naturals, FiniteSets

Touches == {"entry", "stop", "target"}

Statuses == {"open", "win", "loss", "expired"}

(* A setup is what build_signal derives from the 4H and 1H windows: it      *)
(* exists while the newest coarse candle read is at least `born` (whose     *)
(* close also is earliest_entry_time; 0: in the past) and before `dead`     *)
(* (the bias flips).                                                        *)
SetupKnown(setup, coarse) ==
    /\ \E k \in coarse : k >= setup.born
    /\ \A k \in coarse : k < setup.dead

(* CandleRepository.get_recent: the n newest rows of a table. *)
Recent(rows, n) == {b \in rows : Cardinality({c \in rows : c > b}) < n}

(* Variant: the rule without eligible_entry_candles. *)
EntryTaps_AnyTap(window, used, after, market) ==
    {b \in window : b > after /\ "entry" \in market[b]}

(* eligible_entry_candles, then _check_entry without its choice of the      *)
(* newest: the bars of the window that are after every tap already used,    *)
(* after the setup's leg has ended, and inside the entry zone.              *)
EntryTaps(window, used, after, market) ==
    {b \in window : /\ \A t \in used : b > t
                    /\ b > after
                    /\ "entry" \in market[b]}

IsNewest(b, S) == b \in S /\ \A c \in S : c <= b

IsOldest(b, S) == b \in S /\ \A c \in S : b <= c

(* Variant: a signal never grows too old. *)
Outcome_NoExpiry(touched, opened, b, expiry) ==
    IF "stop" \in touched THEN "loss" ELSE IF "target" \in touched THEN "win" ELSE "open"

(* resolve_signal: the stop is looked at before the target, both before the *)
(* age of the signal.                                                       *)
Outcome(touched, opened, b, expiry) ==
    IF "stop" \in touched THEN "loss"
    ELSE IF "target" \in touched THEN "win"
    ELSE IF b > opened + expiry THEN "expired"
    ELSE "open"
=============================================================================
