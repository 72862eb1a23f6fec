------------------------------ MODULE MCTickTime ------------------------------
(* Instances of TickTime for TLC: a counter of four values, so that eight    *)
(* ticks wrap it twice.                                                      *)
EXTENDS TickTime
=============================================================================
