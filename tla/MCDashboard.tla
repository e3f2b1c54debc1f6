---------------------------- MODULE MCDashboard ----------------------------
(* A small instance of Dashboard.  Each behaviour has a budget of its own, so *)
(* that every hazard is met without all of them at once.                      *)
EXTENDS Dashboard

NoEvents == [faults |-> 0, prices |-> [s \in Symbols |-> 0], signals |-> 0,
             boots |-> 0, quotes |-> 0, joins |-> 0, cuts |-> 0, restarts |-> 0]

(* Two failing cycles; a failing cycle while dashboards come and go; a server *)
(* that restarts; prices against GET /prices; a signal that is opened and     *)
(* resolved, by the feed or by a request, against the bootstrap.              *)
Scenarios ==
    {[NoEvents EXCEPT !.faults = 2, !.joins = 1],
     [NoEvents EXCEPT !.faults = 1, !.joins = 2, !.cuts = 1],
     [NoEvents EXCEPT !.faults = 1, !.joins = 2, !.restarts = 1],
     [NoEvents EXCEPT !.prices["xau"] = 2, !.joins = 1, !.quotes = 1],
     [NoEvents EXCEPT !.prices["xau"] = 2, !.signals = 1, !.joins = 1, !.boots = 1]}
=============================================================================
