-------------------------------- MODULE MCTcp --------------------------------
(* Instances of Tcp for TLC: the client's sequence numbers wrap behind its SYN. *)
EXTENDS Tcp

CONSTANTS client, server

VARIABLE split      \* history: the hosts that have split a segment with their FIN

MCIss == [e \in {client, server} |-> IF e = client THEN 30 ELSE 3]

\* Three bytes for a window of two, and one byte more than two full segments: only
\* the client writes.
MCWrite == [e \in {client, server} |-> IF e = client THEN 3 ELSE 0]
MCWrite5 == [e \in {client, server} |-> IF e = client THEN 5 ELSE 0]

\* Its queues hold the two halves, or the first is on its way already: the pcb may
\* be freed by the same tick (tcp_slowtmr).
SplitsFin(e) ==
    \/ ~OneFin(e)
    \/ \E s \in Range(net[Peer(e)]) :
           s.fin /\ s.data # <<>> /\ s.data[Len(s.data)] < app[e].wrote

MCInit == Init /\ split = {}
MCNext == Next /\ split' = split \cup {e \in Ends : SplitsFin(e)'}
MCSpec == MCInit /\ [][MCNext]_<<vars, split>>

\* What either application writes reaches the other as one stream, in order and
\* whole when it ends: whatever tcp_receive cuts, drops and acknowledges of
\* segments that come twice, late or in part, and whatever the reader refuses.
\* Once the writer's host has split its FIN (tcp_split_unsent_seg) the end may come
\* early, but what was read is still in order.
Streams ==
    /\ ToServer!Init /\ ToClient!Init
    /\ [][/\ Client \notin split' => [ToServer!Next]_(ToServer!vars)
          /\ Server \notin split' => [ToClient!Next]_(ToClient!vars)]_<<vars, split>>
    /\ [](\A e \in Ends : app[e].got = [i \in 1 .. Len(app[e].got) |-> i])
===============================================================================
