------------------------------- MODULE MCEnetTx -------------------------------
(* Instances of EnetTx for TLC: its constants are numbers.                  *)
EXTENDS EnetTx
=============================================================================
