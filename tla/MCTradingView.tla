---------------------------- MODULE MCTradingView ----------------------------
(* Small instances of TradingViewPipeline. *)
EXTENDS LiveAgainstBacktest, TLC

CONSTANTS c1, c2

(* A bar in the entry zone, one that reaches each level, one that spans      *)
(* target and stop, and one that touches nothing.                            *)
AllShapes == {{}, {"entry"}, {"stop"}, {"target"}, {"entry", "target"}, {"stop", "target"}}
FewShapes == {{}, {"entry"}, {"stop"}}

(* Setups known from the start, found in a later coarse bar, and lost again. *)
SomeSetups == {[born |-> 0, dead |-> 9], [born |-> 1, dead |-> 2], [born |-> 1, dead |-> 9]}
OneSetup == {[born |-> 0, dead |-> 9]}
LaterSetups == {[born |-> 1, dead |-> 2], [born |-> 1, dead |-> 9], [born |-> 2, dead |-> 9]}

Symmetry == Permutations(Clients)
=============================================================================
