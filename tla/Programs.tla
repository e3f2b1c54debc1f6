------------------------------- MODULE Programs -------------------------------
(* The two programs that a person starts by hand beside the server.  They     *)
(* share nothing: a behavior runs one of them.                                *)
EXTENDS BacktestCli, ModelTraining

VARIABLE program

vars == <<program, cvars, tvars>>

Init ==
    /\ program \in {"backtest", "train"}
    /\ CliInit /\ TrainInit

Next ==
    /\ \/ program = "backtest" /\ CliNext /\ UNCHANGED tvars
       \/ program = "train" /\ TrainNext /\ UNCHANGED cvars
    /\ UNCHANGED program

Spec == Init /\ [][Next]_vars
=============================================================================
