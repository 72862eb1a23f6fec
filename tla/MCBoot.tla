-------------------------------- MODULE MCBoot --------------------------------
(* Boot with the firmware's transmit ring.                                   *)
EXTENDS Boot
=============================================================================
