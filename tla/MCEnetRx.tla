------------------------------- MODULE MCEnetRx -------------------------------
(* Instances of EnetRx for TLC: its constants are numbers.                  *)
EXTENDS EnetRx
=============================================================================
