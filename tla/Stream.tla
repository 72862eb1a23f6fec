--------------------------------- MODULE Stream ---------------------------------
(***************************************************************************)
(* What one direction of a TCP connection promises: the receiver gets the  *)
(* bytes in the order they were written, none missing and none twice, and  *)
(* is told of the end of the stream only when the sender has shut it and   *)
(* everything has been handed over.  Nothing has to arrive: either side    *)
(* may fail.                                                               *)
(***************************************************************************)
EXTENDS Naturals, Sequences

VARIABLES
    written,    \* how many bytes the sender has written
    shut,       \* the sender will write no more
    got,        \* the bytes the receiver was given, each by its place
    ended       \* the receiver was told that the stream ends here

vars == <<written, shut, got, ended>>

Init == written = 0 /\ shut = FALSE /\ got = <<>> /\ ended = FALSE

Write ==
    /\ ~shut
    /\ written' \in Nat /\ written' > written
    /\ UNCHANGED <<shut, got, ended>>

Shut ==
    /\ shut' = TRUE
    /\ UNCHANGED <<written, got, ended>>

\* Some of the bytes that were written, perhaps with the end of the stream.
Deliver ==
    /\ ~ended
    /\ \E n \in Len(got) .. written : got' = [i \in 1 .. n |-> i]
    /\ ended' \in {FALSE, shut /\ Len(got') = written}
    /\ UNCHANGED <<written, shut>>

Next == Write \/ Shut \/ Deliver

Spec == Init /\ [][Next]_vars
=================================================================================
