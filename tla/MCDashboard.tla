---------------------------- MODULE MCDashboard ----------------------------
(* An instance of Dashboard for TLC: a run whose graph can be drawn, which   *)
(* this server or the command line started, and a run whose graph cannot.    *)
EXTENDS Dashboard, TLC

CONSTANTS good, bad, r1, r2

Graphs == r1 :> good @@ r2 :> bad
=============================================================================
