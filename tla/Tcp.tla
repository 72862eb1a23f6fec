---------------------------------- MODULE Tcp ----------------------------------
(***************************************************************************)
(* A connection of lwIP's TCP between two hosts that both run this code:   *)
(* core/tcp.c, tcp_in.c and tcp_out.c.  The client connects, the server    *)
(* listens.  Each host holds at most one pcb of the connection; the stack  *)
(* of a host runs one call, one segment or one timer at a time (the core   *)
(* lock of this build), so each is an action.                              *)
(*                                                                         *)
(* A byte is its place in the stream of the end that wrote it and travels  *)
(* in the segments, sequence numbers are counted modulo SeqSpace, a        *)
(* segment holds Mss bytes and the window is TcpWnd: the build's 1460 and  *)
(* 2 * 1460 scaled down.  The network is a queue in each direction that    *)
(* may lose, copy or delay what is in it.  The build keeps no segments     *)
(* that come out of order (TCP_QUEUE_OOSEQ 0), and no options but the      *)
(* segment size.                                                           *)
(*                                                                         *)
(* A handler is an operator from a context to a context: the pcb, the      *)
(* segments it sent, the application above it, the listener's count and    *)
(* what the segment in hand has brought so far.                            *)
(***************************************************************************)
EXTENDS Integers, Sequences, SequencesExt

CONSTANTS
    Client, Server,
    Mss,                \* TCP_MSS
    TcpWnd,             \* TCP_WND
    SeqSpace,           \* 2^32 in the code
    Iss,                \* each host's first initial sequence number,
    IssStep,            \* and how far apart two are (tcp_ticks)
    MaxRtx, SynMaxRtx,  \* TCP_MAXRTX, TCP_SYNMAXRTX
    DupAckThreshold,    \* 3 in the code
    NetMax,             \* bound: segments under way to a host
    MaxFaults,          \* bound: faults
    MaxWrite,           \* bound: bytes the application of a host writes
    SendFails,          \* hosts whose layer below may fail to send (ip_output_if)
    Refusers,           \* hosts whose application may refuse data for a while
    HalfClosers         \* hosts whose application may shut down its side only

Ends == {Client, Server}
Peer(e) == IF e = Client THEN Server ELSE Client

ASSUME TcpAssumption ==
    /\ Client # Server
    /\ Mss \in Nat \ {0} /\ TcpWnd \in Nat /\ TcpWnd >= Mss
    /\ SeqSpace \in Nat /\ SeqSpace > 2 * (TcpWnd + 2)
    /\ Iss \in [Ends -> 0 .. SeqSpace - 1] /\ IssStep \in Nat
    /\ MaxRtx \in Nat /\ SynMaxRtx \in Nat /\ DupAckThreshold \in Nat
    /\ NetMax \in Nat \ {0} /\ MaxFaults \in Nat /\ MaxWrite \in [Ends -> Nat]
    /\ SendFails \subseteq Ends /\ Refusers \subseteq Ends /\ HalfClosers \subseteq Ends

VARIABLES
    pcb,        \* each host's pcb
    app,        \* the application above it
    net,        \* segments under way to each host, oldest first
    pending,    \* the listener's accepts_pending
    nextIss,    \* the static iss of tcp_next_iss
    faults      \* faults so far

vars == <<pcb, app, net, pending, nextIss, faults>>

-----------------------------------------------------------------------------
(* Sequence numbers (tcp_priv.h): a is before b when a - b, taken as a      *)
(* signed number of the same width, is negative.                            *)

Seqs == 0 .. SeqSpace - 1
Add(a, n) == (a + n) % SeqSpace
Distance(a, b) == (b - a) % SeqSpace
LT(a, b) == Distance(b, a) >= SeqSpace \div 2
LEQ(a, b) == a = b \/ LT(a, b)
Between(a, b, c) == ~LT(a, b) /\ LEQ(a, c)

AtMost(a, b) == IF a < b THEN a ELSE b

\* TCP_TCPLEN.
TcpLen(s) == Len(s.data) + IF s.syn \/ s.fin THEN 1 ELSE 0
EndOf(s) == Add(s.seq, TcpLen(s))

-----------------------------------------------------------------------------
(* A pcb.  refused is the data the application has not taken, fin with it   *)
(* when PBUF_FLAG_TCP_FIN is set; rtime says the retransmission timer runs, *)
(* persist that persist_backoff is not 0.  cwnd is kept up to TcpWnd, which *)
(* no window exceeds, so that ssthresh (never below 2 * mss) and bytes_acked*)
(* change nothing.                                                          *)

Nothing == [data |-> <<>>, fin |-> FALSE]

\* tcp_alloc: what a pcb is before connect or listen_input fills it in.
NewPcb ==
    [state |-> "CLOSED",
     snd_nxt |-> 0, lastack |-> 0, snd_lbb |-> 0,
     snd_wnd |-> TcpWnd, snd_wl1 |-> 0, snd_wl2 |-> 0,
     unacked |-> <<>>, unsent |-> <<>>,
     cwnd |-> 1, rtime |-> FALSE, nrtx |-> 0, dupacks |-> 0,
     persist |-> FALSE, probes |-> 0,
     rcv_nxt |-> 0, rcv_wnd |-> TcpWnd, rcv_ann_wnd |-> TcpWnd, edge |-> 0,
     refused |-> Nothing,
     ackDelay |-> FALSE, ackNow |-> FALSE, infr |-> FALSE, fin |-> FALSE,
     nagleMemErr |-> FALSE, rxClosed |-> FALSE, closePend |-> FALSE, backlogPend |-> FALSE]

NewApp == [use |-> "idle", wrote |-> 0, got |-> <<>>, read |-> 0,
           eof |-> FALSE, err |-> FALSE, accepts |-> 0]

Init ==
    /\ pcb = [e \in Ends |-> NewPcb]
    /\ app = [e \in Ends |-> NewApp]
    /\ net = [e \in Ends |-> <<>>]
    /\ pending = 0
    /\ nextIss = Iss
    /\ faults = 0

\* The states before CLOSE_WAIT in enum tcp_state in which text is taken.
TakesText == {"SYN_SENT", "SYN_RCVD", "ESTABLISHED", "FIN_WAIT_1", "FIN_WAIT_2"}
Opening == {"SYN_SENT", "SYN_RCVD"}

\* down: the layer below refuses what this step sends; failed: it did so.
Context(e, down) ==
    [p |-> pcb[e], out |-> <<>>, app |-> app[e], pending |-> pending,
     text |-> Nothing, freed |-> FALSE, down |-> down, failed |-> FALSE]

-----------------------------------------------------------------------------
(* Sending.                                                                 *)

\* tcp_output_segment and tcp_output_alloc_header fill in the header.
Segment(p, seq, data, syn, fin) ==
    [seq |-> seq, data |-> data, syn |-> syn, fin |-> fin, rst |-> FALSE,
     isAck |-> p.state # "SYN_SENT", ack |-> p.rcv_nxt, wnd |-> p.rcv_ann_wnd]

Announce(p) == [p EXCEPT !.edge = Add(p.rcv_nxt, p.rcv_ann_wnd)]

\* The segments go to the layer below.
Pass(c, segments) ==
    IF c.down THEN [c EXCEPT !.failed = TRUE] ELSE [c EXCEPT !.out = @ \o segments]

\* tcp_send_empty_ack: what could not be sent is due later.
SendEmptyAck(c) ==
    LET d == Pass(c, <<Segment(c.p, c.p.snd_nxt, <<>>, FALSE, FALSE)>>)
    IN  [d EXCEPT !.p = [Announce(c.p) EXCEPT !.ackDelay = c.down, !.ackNow = c.down]]

\* tcp_rst.
SendRst(c, seq, ack) ==
    Pass(c, <<[seq |-> seq, data |-> <<>>, syn |-> FALSE, fin |-> FALSE, rst |-> TRUE,
               isAck |-> TRUE, ack |-> ack, wnd |-> TcpWnd]>>)

AckNow(c) == [c EXCEPT !.p.ackNow = TRUE]

\* A segment fits when its text, not its FIN, ends inside the window.
Fits(p, s) ==
    (Distance(p.lastack, s.seq) + Len(s.data)) % SeqSpace
        <= AtMost(p.snd_wnd, p.cwnd)

\* tcp_do_output_nagle for the i-th unsent segment after those before it went
\* out; TF_FIN and TF_NAGLEMEMERR override it.
Nagle(p, i) ==
    \/ p.fin \/ p.nagleMemErr \/ p.infr
    \/ p.unacked = <<>> /\ i = 1
    \/ i < Len(p.unsent)
    \/ Len(p.unsent[i].data) >= Mss

\* How many segments the loop of tcp_output sends.
Sendable(p) ==
    LET Goes(i) == Fits(p, p.unsent[i]) /\ Nagle(p, i)
    IN  CHOOSE k \in 0 .. Len(p.unsent) :
            /\ \A i \in 1 .. k : Goes(i)
            /\ k < Len(p.unsent) => ~Goes(k + 1)

First(indices) == CHOOSE i \in indices : \A j \in indices : i <= j

\* A segment goes before the first of a queue that is not before it in the
\* stream.
Insert(queue, s) ==
    LET after == {i \in DOMAIN queue : ~LT(queue[i].seq, s.seq)}
    IN  IF after = {} THEN Append(queue, s) ELSE InsertAt(queue, First(after), s)

\* tcp_output: a segment sent is put last on the unacknowledged ones, or among
\* them when the last is after it; and so all that are sent, one by one.
Place(queue, s) ==
    IF queue # <<>> /\ LT(s.seq, Last(queue).seq) THEN Insert(queue, s) ELSE Append(queue, s)
Placed(queue, sent) ==
    LET after[i \in 0 .. Len(sent)] ==
            IF i = 0 THEN queue ELSE Place(after[i - 1], sent[i])
    IN  after[Len(sent)]

\* What the loop of tcp_output does with k segments; it stops at the first that
\* could not be sent.
Transmit(c, k) ==
    LET p == c.p
        sent == SubSeq(p.unsent, 1, k)
        out == [i \in 1 .. k |-> Segment(p, sent[i].seq, sent[i].data,
                                         sent[i].syn, sent[i].fin)]
        end == EndOf(sent[k])
        acked == p.state # "SYN_SENT"
    IN  IF k = 0 THEN [c EXCEPT !.p.nagleMemErr = FALSE]
        ELSE IF c.down
        THEN [Pass(c, out) EXCEPT
                !.p = [Announce(p) EXCEPT !.rtime = TRUE, !.nagleMemErr = TRUE]]
        ELSE [Pass(c, out) EXCEPT
                !.p = [Announce(p) EXCEPT
                         !.nagleMemErr = FALSE,
                         !.unsent = SubSeq(p.unsent, k + 1, Len(p.unsent)),
                         !.unacked = Placed(p.unacked, sent),
                         !.snd_nxt = IF LT(p.snd_nxt, end) THEN end ELSE @,
                         !.rtime = TRUE,
                         !.ackDelay = @ /\ ~acked, !.ackNow = @ /\ ~acked]]

\* tcp_output of a pcb that is not the one tcp_input is working on.
Output(c) ==
    LET p == c.p
        starts == AtMost(p.snd_wnd, p.cwnd) = p.snd_wnd /\ p.unacked = <<>> /\ ~p.persist
        blocked == IF starts THEN [c EXCEPT !.p.persist = TRUE, !.p.probes = 0] ELSE c
        Done(d) == IF d.p.ackNow THEN SendEmptyAck(d) ELSE [d EXCEPT !.p.nagleMemErr = FALSE]
    IN  CASE p.unsent = <<>> -> Done(c)
          [] p.unsent # <<>> /\ ~Fits(p, Head(p.unsent)) ->
                Done(blocked)
          [] OTHER -> Transmit([c EXCEPT !.p.persist = FALSE], Sendable(p))

\* tcp_enqueue_flags for a SYN or a FIN.
EnqueueFlags(c, syn, fin) ==
    [c EXCEPT !.p.unsent = Append(@, [seq |-> c.p.snd_lbb, data |-> <<>>,
                                      syn |-> syn, fin |-> fin]),
              !.p.snd_lbb = Add(@, 1),
              !.p.fin = @ \/ fin]

\* tcp_send_fin: the FIN goes on the last unsent segment if that is text.
SendFin(c) ==
    LET n == Len(c.p.unsent)
    IN  IF n > 0 /\ ~c.p.unsent[n].syn /\ ~c.p.unsent[n].fin
        THEN [c EXCEPT !.p.unsent[n].fin = TRUE, !.p.fin = TRUE]
        ELSE EnqueueFlags(c, FALSE, TRUE)

-----------------------------------------------------------------------------
(* Retransmission.                                                          *)

\* nrtx is a byte that does not wrap.
More(nrtx) == AtMost(nrtx + 1, 255)

\* tcp_rexmit_rto_prepare and tcp_rexmit_rto_commit, with what tcp_slowtmr
\* sets before.
RexmitRto(c) ==
    Output([c EXCEPT !.p.unsent = c.p.unacked \o @, !.p.unacked = <<>>,
                     !.p.cwnd = Mss, !.p.rtime = TRUE, !.p.nrtx = More(@)])

\* tcp_rexmit: the first unacknowledged segment, if any, is unsent again.
Rexmit(p) ==
    IF p.unacked = <<>> THEN p
    ELSE [p EXCEPT !.unacked = Tail(@), !.nrtx = More(@),
                   !.unsent = Insert(@, Head(p.unacked))]

\* tcp_rexmit_fast.
RexmitFast(p) ==
    IF p.unacked = <<>> \/ p.infr THEN p
    ELSE [Rexmit(p) EXCEPT !.cwnd = TcpWnd, !.infr = TRUE, !.rtime = TRUE]

-----------------------------------------------------------------------------
(* The listener's count, and how a pcb goes away.                           *)

\* Mutant: the flag of the pcb is not looked at.
BacklogAcceptedTwice(c) == [c EXCEPT !.p.backlogPend = FALSE, !.pending = @ - 1]

\* tcp_backlog_accepted.
BacklogAccepted(c) ==
    IF c.p.backlogPend
    THEN [c EXCEPT !.p.backlogPend = FALSE, !.pending = @ - 1]
    ELSE c

\* tcp_pcb_purge.
Purge(c) ==
    IF c.p.state \in {"CLOSED", "TIME_WAIT"} THEN c
    ELSE [BacklogAccepted(c) EXCEPT !.p.refused = Nothing, !.p.rtime = FALSE,
                                    !.p.unsent = <<>>, !.p.unacked = <<>>]

\* tcp_free, and whatever handles the pcb after it returns at once.
Free(c) == [c EXCEPT !.p = NewPcb, !.freed = TRUE]

\* TCP_EVENT_ERR: once closed, the application has no callbacks left.
Failed(c) ==
    IF c.app.use \in {"connecting", "open", "shut"} THEN [c EXCEPT !.app.err = TRUE] ELSE c

\* tcp_pcb_remove and tcp_free, outside tcp_input: a delayed acknowledgement
\* goes out first.
RemovePcb(c) ==
    LET d == Purge(c)
    IN  Free(IF d.p.state # "TIME_WAIT" /\ d.p.ackDelay THEN Output(AckNow(d)) ELSE d)

\* tcp_abandon, when tcp_input works on the pcb.
Abort(c) ==
    IF c.p.state = "TIME_WAIT" THEN Free(c)
    ELSE Failed(Free(SendRst(Purge(c), c.p.snd_nxt, c.p.rcv_nxt)))

\* tcp_pcb_purge, TCP_RMV_ACTIVE and TCP_REG of a pcb that goes to TIME_WAIT.
TimeWait(c) == [Purge(AckNow(c)) EXCEPT !.p.state = "TIME_WAIT"]

-----------------------------------------------------------------------------
(* Receiving.                                                               *)

\* tcp_update_rcv_ann_wnd, and the growth of the window it returns.
RightEdge(p) == Add(p.rcv_nxt, p.rcv_wnd)
WorthTelling(p) == LEQ(Add(p.edge, AtMost(TcpWnd \div 2, Mss)), RightEdge(p))

\* Mutant: a window not worth telling is announced as closed.
UpdateAnnWndSilly(p) ==
    [p EXCEPT !.rcv_ann_wnd = IF WorthTelling(p) THEN p.rcv_wnd ELSE 0]

UpdateAnnWnd(p) ==
    [p EXCEPT !.rcv_ann_wnd =
        IF WorthTelling(p) THEN p.rcv_wnd
        ELSE IF LT(p.edge, p.rcv_nxt) THEN 0
        ELSE Distance(p.rcv_nxt, p.edge)]

\* tcp_free_acked_segments: the segments of a queue from the first that is not
\* wholly acknowledged on.
FreeAcked(queue, ack) ==
    LET left == {i \in DOMAIN queue : ~LEQ(EndOf(queue[i]), ack)}
    IN  IF left = {} THEN <<>>
        ELSE SubSeq(queue, First(left), Len(queue))

\* tcp_receive, the window update.
TakeWindow(p, m) ==
    IF \/ LT(p.snd_wl1, m.seq)
       \/ p.snd_wl1 = m.seq /\ LT(p.snd_wl2, m.ack)
       \/ p.snd_wl2 = m.ack /\ m.wnd > p.snd_wnd
    THEN [p EXCEPT !.snd_wnd = m.wnd, !.snd_wl1 = m.seq, !.snd_wl2 = m.ack]
    ELSE p

\* tcp_receive, an acknowledgement of nothing new.
TakeOldAck(p, m, moved) ==
    IF TcpLen(m) = 0 /\ ~moved /\ p.rtime /\ m.ack = p.lastack
    THEN LET n == AtMost(p.dupacks + 1, DupAckThreshold)
             q == [p EXCEPT !.dupacks = n]
         IN  IF n = DupAckThreshold THEN RexmitFast(q) ELSE q
    ELSE [p EXCEPT !.dupacks = 0]

\* Mutant: what is acknowledged stays queued.
TakeNewAckKeeps(p, m) == [p EXCEPT !.nrtx = 0, !.lastack = m.ack]

\* Mutant: the timer stops whatever is left.
TakeNewAckStops(p, m) ==
    [p EXCEPT !.infr = FALSE, !.nrtx = 0, !.dupacks = 0, !.lastack = m.ack,
              !.unacked = FreeAcked(@, m.ack), !.unsent = FreeAcked(@, m.ack),
              !.rtime = FALSE]

\* tcp_receive, an acknowledgement of something new.
TakeNewAck(p, m) ==
    LET unacked == FreeAcked(p.unacked, m.ack)
        acked == Distance(p.lastack, m.ack)
    IN  [p EXCEPT !.infr = FALSE, !.nrtx = 0, !.dupacks = 0, !.lastack = m.ack,
                  !.cwnd = IF p.infr THEN TcpWnd
                           ELSE IF p.state \in Opening THEN @
                           ELSE AtMost(@ + acked, TcpWnd),
                  !.unacked = unacked,
                  !.unsent = FreeAcked(@, m.ack),
                  !.rtime = unacked # <<>>]

\* tcp_receive, the acknowledgement.
TakeAck(c, m) ==
    LET p == TakeWindow(c.p, m)
        moved == Add(p.snd_wl2, p.snd_wnd) # Add(c.p.snd_wl2, c.p.snd_wnd)
    IN  CASE ~m.isAck -> c
          [] m.isAck /\ LEQ(m.ack, p.lastack) ->
                [c EXCEPT !.p = TakeOldAck(p, m, moved)]
          [] m.isAck /\ ~LEQ(m.ack, p.lastack) /\ Between(m.ack, Add(p.lastack, 1), p.snd_nxt) ->
                [c EXCEPT !.p = TakeNewAck(p, m)]
          [] OTHER -> SendEmptyAck([c EXCEPT !.p = p])

InWindow(p, seq) == Between(seq, p.rcv_nxt, Add(p.rcv_nxt, p.rcv_wnd - 1))

\* tcp_receive, text that begins at rcv_nxt: cut to the window, it is taken,
\* and every second time acknowledged at once (tcp_ack).
TakeInOrder(c, data, fin) ==
    LET p == c.p
        cut == Len(data) + (IF fin THEN 1 ELSE 0) > p.rcv_wnd
        text == IF cut THEN [data |-> SubSeq(data, 1, p.rcv_wnd), fin |-> FALSE]
                ELSE [data |-> data, fin |-> fin]
        len == Len(text.data) + IF text.fin THEN 1 ELSE 0
    IN  [c EXCEPT !.text = text,
                  !.p = [UpdateAnnWnd([p EXCEPT !.rcv_nxt = Add(@, len),
                                                !.rcv_wnd = @ - len])
                            EXCEPT !.ackNow = @ \/ p.ackDelay,
                                   !.ackDelay = ~p.ackDelay]]

\* Mutant: text in the window is taken whatever it begins with.
TakeTextAnywhere(c, m) ==
    IF TcpLen(m) > 0 /\ c.p.state \in TakesText /\ InWindow(c.p, m.seq)
    THEN TakeInOrder(c, m.data, m.fin) ELSE AckNow(c)

\* tcp_receive, the text; what lies before rcv_nxt is cut off.
TakeText(c, m) ==
    LET p == c.p
        old == IF Between(p.rcv_nxt, Add(m.seq, 1), Add(m.seq, TcpLen(m) - 1))
               THEN Distance(m.seq, p.rcv_nxt) ELSE 0
        seq == Add(m.seq, old)
        d == IF old = 0 /\ LT(seq, p.rcv_nxt) THEN AckNow(c) ELSE c
    IN  IF TcpLen(m) > 0 /\ p.state \in TakesText
        THEN IF InWindow(p, seq) /\ seq = p.rcv_nxt
             THEN TakeInOrder(d, SubSeq(m.data, old + 1, Len(m.data)), m.fin)
             ELSE SendEmptyAck(d)
        ELSE IF InWindow(p, m.seq) THEN c ELSE AckNow(c)

\* tcp_receive.
Receive(c, m) == TakeText(TakeAck(c, m), m)

-----------------------------------------------------------------------------
(* tcp_process: the state machine.                                          *)

Become(c, state) == [c EXCEPT !.p.state = state]

\* The peer acknowledges everything, the FIN too.
AllAcked(c, m) == m.isAck /\ m.ack = c.p.snd_nxt /\ c.p.unsent = <<>>

\* TF_RESET: the pcb is removed, unless the reset is not acceptable.
ProcessRst(c, m) ==
    IF IF c.p.state = "SYN_SENT" THEN m.ack = c.p.snd_nxt ELSE m.seq = c.p.rcv_nxt
    THEN Failed(Free(Purge(c)))
    ELSE IF c.p.state # "SYN_SENT" /\ Between(m.seq, c.p.rcv_nxt, RightEdge(c.p))
         THEN AckNow(c) ELSE c

ProcessSynSent(c, m) ==
    LET p == c.p
        syn == IF p.unacked = <<>> THEN Tail(p.unsent) ELSE p.unsent
        unacked == IF p.unacked = <<>> THEN <<>> ELSE Tail(p.unacked)
    IN  CASE m.isAck /\ m.syn /\ m.ack = Add(p.lastack, 1) ->
                AckNow([c EXCEPT
                    !.p = [p EXCEPT !.state = "ESTABLISHED",
                                    !.rcv_nxt = Add(m.seq, 1), !.edge = Add(m.seq, 1),
                                    !.lastack = m.ack, !.snd_wnd = m.wnd,
                                    !.snd_wl1 = Add(m.seq, -1), !.cwnd = TcpWnd,
                                    !.unacked = unacked, !.unsent = syn,
                                    !.rtime = unacked # <<>>,
                                    !.nrtx = IF unacked # <<>> THEN 0 ELSE @],
                    !.app.use = "open"])
          [] m.isAck /\ ~(m.syn /\ m.ack = Add(p.lastack, 1)) ->
                \* a left-over of an older connection: reset it, SYN again
                LET d == SendRst(c, m.ack, Add(m.seq, TcpLen(m)))
                IN  IF p.nrtx < SynMaxRtx
                    THEN [d EXCEPT !.p.unsent = p.unacked \o @, !.p.unacked = <<>>,
                                   !.p.nrtx = IF p.unacked # <<>> THEN More(@) ELSE @,
                                   !.p.rtime = TRUE]
                    ELSE d
          [] OTHER -> c

\* An acknowledgement of the SYN is an accept, and from then on the application
\* is this connection's; it may refuse it (ok is FALSE): then the pcb is aborted.
ProcessSynRcvd(c, m, ok) ==
    LET p == c.p
        accepted == BacklogAccepted([c EXCEPT !.p.state = "ESTABLISHED"])
        d == Receive([accepted EXCEPT !.app = [NewApp EXCEPT !.use = "open",
                                                       !.accepts = c.app.accepts + 1]], m)
        e == [d EXCEPT !.p.cwnd = TcpWnd]
    IN  CASE m.isAck /\ Between(m.ack, Add(p.lastack, 1), p.snd_nxt) ->
                IF ~ok THEN Abort(accepted)
                ELSE IF e.text.fin THEN Become(AckNow(e), "CLOSE_WAIT") ELSE e
          [] m.isAck /\ ~Between(m.ack, Add(p.lastack, 1), p.snd_nxt) ->
                SendRst(c, m.ack, Add(m.seq, TcpLen(m)))
          [] ~m.isAck /\ m.syn /\ m.seq = Add(p.rcv_nxt, -1) ->
                [c EXCEPT !.p = Rexmit(p)]
          [] OTHER -> c

\* Mutant: FIN_WAIT_1 takes any acknowledgement for the FIN's.
ProcessSynchronizedEager(c, m) ==
    LET d == Receive(c, m)
    IN  CASE c.p.state \in {"ESTABLISHED", "CLOSE_WAIT"} ->
                IF d.text.fin THEN Become(AckNow(d), "CLOSE_WAIT") ELSE d
          [] c.p.state = "FIN_WAIT_1" ->
                IF d.text.fin THEN TimeWait(d) ELSE Become(d, "FIN_WAIT_2")
          [] OTHER -> d

\* The states in which tcp_process calls tcp_receive first.
ProcessSynchronized(c, m) ==
    LET d == Receive(c, m)
    IN  CASE c.p.state \in {"ESTABLISHED", "CLOSE_WAIT"} ->
                IF d.text.fin THEN Become(AckNow(d), "CLOSE_WAIT") ELSE d
          [] c.p.state = "FIN_WAIT_1" ->
                IF d.text.fin
                THEN IF AllAcked(d, m) THEN TimeWait(d) ELSE Become(AckNow(d), "CLOSING")
                ELSE IF AllAcked(d, m) THEN Become(d, "FIN_WAIT_2") ELSE d
          [] c.p.state = "FIN_WAIT_2" -> IF d.text.fin THEN TimeWait(d) ELSE d
          [] c.p.state = "CLOSING" ->
                IF AllAcked(d, m)
                THEN [Purge(d) EXCEPT !.p.state = "TIME_WAIT"] ELSE d
          [] c.p.state = "LAST_ACK" ->
                \* TF_CLOSED: tcp_input_delayed_close
                IF AllAcked(d, m) THEN Failed(Free(Purge(d))) ELSE d

\* tcp_process.
Process(c, m, ok) ==
    LET d == [c EXCEPT !.p.probes = 0]
    IN  CASE m.rst -> ProcessRst(c, m)
          [] ~m.rst /\ m.syn /\ c.p.state \notin Opening -> AckNow(c)
          [] ~m.rst /\ c.p.state = "SYN_SENT" -> ProcessSynSent(d, m)
          [] ~m.rst /\ c.p.state = "SYN_RCVD" -> ProcessSynRcvd(d, m, ok)
          [] OTHER -> ProcessSynchronized(d, m)

-----------------------------------------------------------------------------
(* What the application is told.  ok: its receive callback takes the data.  *)

\* tcp_close_shutdown_fin, when memory for the FIN is there or not.
ShutdownFin(c, memory) ==
    LET noRoom == c.p.unsent = <<>> \/ Last(c.p.unsent).syn \/ Last(c.p.unsent).fin
        next == CASE c.p.state \in {"SYN_RCVD", "ESTABLISHED"} -> "FIN_WAIT_1"
                  [] c.p.state = "CLOSE_WAIT" -> "LAST_ACK"
                  [] OTHER -> "none"
        d == SendFin(c)
    IN  CASE next = "none" -> c
          [] next # "none" /\ noRoom /\ ~memory -> [c EXCEPT !.p.closePend = TRUE]
          [] OTHER ->
                Output(Become(IF c.p.state = "SYN_RCVD" THEN BacklogAccepted(d) ELSE d,
                              next))

\* tcp_close_shutdown: data that the application will not get any more is
\* answered with a reset.
Shutdown(c, rst, memory) ==
    IF /\ rst /\ c.p.state \in {"ESTABLISHED", "CLOSE_WAIT"}
       /\ c.p.refused # Nothing \/ c.p.rcv_wnd # TcpWnd
    THEN Free(Purge(SendRst(c, c.p.snd_nxt, c.p.rcv_nxt)))
    ELSE IF c.p.state = "SYN_SENT" THEN RemovePcb(c)
    ELSE ShutdownFin(c, memory)

\* TCP_EVENT_CLOSED: the FIN leaves the window, the application sees the end
\* of the stream; without a callback the pcb is closed (tcp_recv_null).
Closed(c) ==
    LET d == [c EXCEPT !.p.rcv_wnd = AtMost(@ + 1, TcpWnd)]
    IN  IF c.app.use = "closed" THEN Shutdown(d, TRUE, TRUE)
        ELSE [d EXCEPT !.app.eof = TRUE]

\* tcp_recved: the window opens by n, and the peer is told if it is worth it.
Recved(c, n) ==
    LET q == [c.p EXCEPT !.rcv_wnd = AtMost(@ + n, TcpWnd)]
        grown == IF WorthTelling(q) THEN Distance(q.edge, RightEdge(q)) ELSE 0
        d == [c EXCEPT !.p = UpdateAnnWnd(q)]
    IN  IF grown >= TcpWnd \div 4 THEN Output(AckNow(d)) ELSE d

\* The receive callback takes data; without one it is dropped (tcp_recv_null).
Take(c, data) ==
    IF c.app.use = "closed" THEN Recved(c, Len(data)) ELSE [c EXCEPT !.app.got = @ \o data]

\* Mutant: what the application refuses again is not kept.
ProcessRefusedDataOnce(c, ok) ==
    LET d == [c EXCEPT !.p.refused = Nothing]
    IN  IF ~ok THEN d ELSE Take(d, c.p.refused.data)

\* tcp_process_refused_data.
ProcessRefusedData(c, ok) ==
    LET r == c.p.refused
        d == Take([c EXCEPT !.p.refused = Nothing], r.data)
    IN  IF r = Nothing \/ (~ok /\ c.app.use # "closed") THEN c
        ELSE IF r.fin THEN Closed(d) ELSE d

\* tcp_input after tcp_process: the data, the FIN, and tcp_output.
Deliver(c, ok) ==
    LET t == c.text
        refused == t.data # <<>> /\ ~ok
        d == CASE t.data = <<>> -> c
               [] t.data # <<>> /\ ok -> Take(c, t.data)
               [] OTHER -> [c EXCEPT !.p.refused = t]
    IN  IF c.freed THEN c
        ELSE IF t.data # <<>> /\ c.p.rxClosed THEN Abort(c)
        ELSE LET f == IF t.fin /\ ~refused THEN Closed(d) ELSE d
             IN  IF f.freed THEN f ELSE Output(f)

\* tcp_timewait_input.
TimeWaitInput(c, m) ==
    IF m.rst THEN c
    ELSE IF m.syn /\ Between(m.seq, c.p.rcv_nxt, RightEdge(c.p))
    THEN SendRst(c, m.ack, Add(m.seq, TcpLen(m)))
    ELSE IF TcpLen(m) > 0 THEN Output(AckNow(c)) ELSE c

\* tcp_listen_input; without memory for a pcb the SYN is ignored, without any
\* for the answer the pcb is abandoned in silence.
ListenInput(c, m, iss) ==
    CASE m.rst -> c
      [] ~m.rst /\ m.isAck -> SendRst(c, m.ack, Add(m.seq, TcpLen(m)))
      [] ~m.rst /\ ~m.isAck /\ m.syn ->
            Output(EnqueueFlags(
                [c EXCEPT !.pending = @ + 1,
                          !.p = [NewPcb EXCEPT
                                    !.state = "SYN_RCVD", !.backlogPend = TRUE,
                                    !.rcv_nxt = Add(m.seq, 1), !.edge = Add(m.seq, 1),
                                    !.snd_nxt = iss, !.lastack = iss,
                                    !.snd_lbb = iss, !.snd_wl2 = iss,
                                    !.snd_wl1 = Add(m.seq, -1), !.snd_wnd = m.wnd]],
                TRUE, FALSE))
      [] OTHER -> c

\* tcp_input of a segment for an active pcb.  Refused data is offered first;
\* while it stays refused nothing with text gets in.
ActiveInput(c, m, ok) ==
    LET d == ProcessRefusedData(c, ok)
    IN  IF d.freed THEN d
        ELSE IF d.p.refused # Nothing /\ TcpLen(m) > 0
        THEN IF d.p.rcv_ann_wnd = 0 THEN SendEmptyAck(d) ELSE d
        ELSE Deliver(Process(d, m, ok), ok)

\* tcp_input.
Input(c, m, ok, listening, iss) ==
    CASE c.p.state = "TIME_WAIT" -> TimeWaitInput(c, m)
      [] c.p.state = "CLOSED" /\ listening -> ListenInput(c, m, iss)
      [] c.p.state = "CLOSED" /\ ~listening ->
            IF m.rst THEN c ELSE SendRst(c, m.ack, Add(m.seq, TcpLen(m)))
      [] OTHER -> ActiveInput(c, m, ok)

-----------------------------------------------------------------------------
(* The actions.                                                             *)

\* What a host's step leaves behind; segments that find the network full are
\* lost.
Commit(e, c, atPeer, atHost) ==
    /\ pcb' = [pcb EXCEPT ![e] = c.p]
    /\ app' = [app EXCEPT ![e] = c.app]
    /\ pending' = c.pending
    /\ net' = [net EXCEPT ![e] = atHost,
                          ![Peer(e)] = LET all == atPeer \o c.out
                                       IN  SubSeq(all, 1, AtMost(Len(all), NetMax))]

Step(e, c) == Commit(e, c, net[Peer(e)], net[e])

\* Faults are counted, and none happens when the bound is reached.
Fault == faults < MaxFaults /\ faults' = faults + 1
FaultIf(b) == IF b THEN Fault ELSE UNCHANGED faults

\* The layer below may be down in a step that sends.
Downs(e) == {down \in BOOLEAN : down => e \in SendFails /\ faults < MaxFaults}
SendFault(c, other) == FaultIf(other \/ c.down) /\ (c.down => c.failed)

\* What the application may answer when it is given data or a connection.
Answers(e, m) ==
    LET asked == \/ m.data # <<>> \/ pcb[e].refused # Nothing
                 \/ pcb[e].state = "SYN_RCVD"
    IN  {ok \in BOOLEAN : ~ok => asked /\ e \in Refusers}

\* The stack of e handles the next segment.
Receives(e) ==
    /\ net[e] # <<>>
    /\ LET m == Head(net[e])
           listens == e = Server /\ pcb[e].state = "CLOSED" /\ m.syn /\ ~m.isAck
       IN  /\ \E ok \in Answers(e, m), down \in Downs(e) :
                 LET c == Input(Context(e, down), m, ok, e = Server, nextIss[e])
                 IN  SendFault(c, FALSE) /\ Commit(e, c, net[Peer(e)], Tail(net[e]))
           /\ nextIss' = IF listens THEN [nextIss EXCEPT ![e] = Add(@, IssStep)]
                         ELSE nextIss

\* tcp_connect.
Connect ==
    LET e == Client
        iss == nextIss[e]
        c == [Context(e, FALSE) EXCEPT
                !.p = [NewPcb EXCEPT !.state = "SYN_SENT", !.snd_nxt = iss,
                                     !.lastack = Add(iss, -1), !.snd_lbb = Add(iss, -1),
                                     !.snd_wl2 = Add(iss, -1)],
                !.app.use = "connecting"]
    IN  /\ app[e].use = "idle"
        /\ Step(e, Output(EnqueueFlags(c, TRUE, FALSE)))
        /\ nextIss' = [nextIss EXCEPT ![e] = Add(@, IssStep)]
        /\ UNCHANGED faults

\* tcp_write fills up the last unsent segment, then makes new ones; the text
\* is the next n bytes of the application's stream.
Enqueue(p, data) ==
    LET n == Len(p.unsent)
        room == IF n > 0 THEN AtMost(Mss - Len(p.unsent[n].data), Len(data)) ELSE 0
        filled == IF room = 0 THEN p.unsent
                  ELSE [p.unsent EXCEPT ![n].data = @ \o SubSeq(data, 1, room)]
        left == Len(data) - room
        Text(i) == SubSeq(data, room + (i - 1) * Mss + 1, AtMost(room + i * Mss, Len(data)))
        new == [i \in 1 .. (left + Mss - 1) \div Mss |->
                  [seq |-> Add(p.snd_lbb, room + (i - 1) * Mss), data |-> Text(i),
                   syn |-> FALSE, fin |-> FALSE]]
    IN  [p EXCEPT !.unsent = filled \o new, !.snd_lbb = Add(@, Len(data))]

Alive(e) == pcb[e].state \notin {"CLOSED", "TIME_WAIT"} /\ ~app[e].err

\* The application writes n bytes: tcp_write and tcp_output.
Write(e, n) ==
    LET text == [i \in 1 .. n |-> app[e].wrote + i]
        Queued(down) == [Context(e, down) EXCEPT !.p = Enqueue(@, text), !.app.wrote = @ + n]
    IN  /\ app[e].use = "open" /\ Alive(e)
        /\ pcb[e].state \in {"ESTABLISHED", "CLOSE_WAIT"}
        /\ app[e].wrote + n <= MaxWrite[e]
        /\ \E down \in Downs(e) :
              LET c == Output(Queued(down)) IN SendFault(c, FALSE) /\ Step(e, c)
        /\ UNCHANGED nextIss

\* The application is done with n bytes of what it was given: tcp_recved.
Read(e, n) ==
    LET c == [Context(e, FALSE) EXCEPT !.app.read = @ + n]
    IN  /\ app[e].use \in {"open", "shut"}
        /\ n > 0 /\ app[e].read + n = Len(app[e].got)
        /\ IF pcb[e].state \in {"CLOSED", "SYN_RCVD"}
           THEN /\ app' = [app EXCEPT ![e].read = @ + n]
                /\ UNCHANGED <<pcb, net, pending>>
           ELSE Step(e, Recved(c, n))
        /\ UNCHANGED <<nextIss, faults>>

\* tcp_shutdown of the sending side.
Shut(e, memory) ==
    /\ e \in HalfClosers
    /\ app[e].use = "open" /\ Alive(e)
    /\ pcb[e].state \in {"ESTABLISHED", "CLOSE_WAIT"}
    /\ \E down \in Downs(e) :
          LET c == Shutdown([Context(e, down) EXCEPT !.app.use = "shut"], FALSE, memory)
          IN  SendFault(c, ~memory) /\ Step(e, c)
    /\ UNCHANGED nextIss

\* tcp_close.
Close(e, memory) ==
    /\ app[e].use \in {"connecting", "open", "shut"}
    /\ pcb[e].state \notin {"CLOSED", "SYN_RCVD"} /\ ~app[e].err
    /\ \E down \in Downs(e) :
          LET c == Shutdown([Context(e, down) EXCEPT !.app.use = "closed",
                                                     !.p.rxClosed = TRUE], TRUE, memory)
          IN  SendFault(c, ~memory) /\ Step(e, c)
    /\ UNCHANGED nextIss

-----------------------------------------------------------------------------
(* Timers.  They run for ever and in any phase to each other; one that goes *)
(* off while segments are still under way to either host counts as a fault  *)
(* (the network is slower than the timer), so that the bound on faults      *)
(* bounds it too.                                                           *)

Quiet == \A e \in Ends : net[e] = <<>>

\* tcp_fasttmr.
FastTimer(e) ==
    LET ClearAck(d) == [d EXCEPT !.p.ackDelay = FALSE, !.p.ackNow = FALSE]
        Acked(c) == IF c.p.ackDelay THEN ClearAck(Output(AckNow(c))) ELSE c
        Finned(c) == IF c.p.closePend
                     THEN ShutdownFin([c EXCEPT !.p.closePend = FALSE], TRUE) ELSE c
        p == pcb[e]
    IN  /\ p.state \notin {"CLOSED", "TIME_WAIT"}
        /\ p.ackDelay \/ p.closePend \/ p.refused # Nothing
        /\ \E ok \in {TRUE, e \notin Refusers}, down \in Downs(e) :
              LET c == ProcessRefusedData(Finned(Acked(Context(e, down))), ok)
              IN  SendFault(c, ~Quiet) /\ Step(e, c)
        /\ UNCHANGED nextIss

\* tcp_split_unsent_seg: the first unsent segment gets at most n bytes.  The FIN
\* goes to the second half and stays with the first, because TCPH_SET_FLAG only
\* sets flags.
SplitUnsent(p, n) ==
    LET s == Head(p.unsent)
    IN  IF Len(s.data) <= n THEN p
        ELSE [p EXCEPT !.unsent =
                <<[s EXCEPT !.data = SubSeq(@, 1, n)],
                  [s EXCEPT !.data = SubSeq(@, n + 1, Len(@)), !.seq = Add(@, n)]>>
                \o Tail(@)]

\* tcp_zero_window_probe: one byte, or the FIN, of the first unsent segment.
ZeroWindowProbe(c) ==
    LET p == c.p
        s == Head(p.unsent)
        isFin == s.fin /\ s.data = <<>>
        next == Add(s.seq, 1)
        byte == SubSeq(s.data, 1, AtMost(1, Len(s.data)))
    IN  [Pass(c, <<Segment(p, s.seq, byte, FALSE, isFin)>>) EXCEPT
            !.p = [Announce(p) EXCEPT
                     !.probes = @ + 1,
                     !.snd_nxt = IF LT(@, next) THEN next ELSE @]]

\* tcp_slowtmr gives the pcb up.
GivesUp(p) ==
    \/ p.state = "SYN_SENT" /\ p.nrtx >= SynMaxRtx
    \/ p.nrtx >= MaxRtx
    \/ p.persist /\ p.probes >= MaxRtx

\* One of the pcb's two timers runs; the persist timer excludes the other.
Runs(p) == p.persist \/ (p.rtime /\ p.unacked \o p.unsent # <<>>)

\* tcp_slowtmr when that timer has run out.
Expired(c) ==
    CASE ~c.p.persist -> RexmitRto(c)
      [] c.p.persist /\ c.p.snd_wnd = 0 -> ZeroWindowProbe(c)
      [] OTHER -> Output([c EXCEPT !.p = SplitUnsent(@, c.p.snd_wnd)])

\* What tcp_slowtmr asserts of a pcb whose persist timer ticks.  A host that fails
\* it stops for good (sys_assert), as one does here that takes no more steps.
PersistSends(p) == p.persist => p.unacked = <<>> /\ p.unsent # <<>>

\* The state has lasted too long: TCP_FIN_WAIT_TIMEOUT for an application that
\* has closed, TCP_SYN_RCVD_TIMEOUT, 2 * TCP_MSL in LAST_ACK.
MayTimeOut(p) ==
    \/ p.state = "FIN_WAIT_2" /\ p.rxClosed
    \/ p.state \in {"SYN_RCVD", "LAST_ACK"}

\* tcp_slowtmr for an active pcb: expired and late say which of its times have
\* run out, poll that tcp_output is called for the application's poll.
SlowTimer(e) ==
    LET p == pcb[e]
        Checked(c, expired) == IF expired THEN Expired(c) ELSE c
        Polled(c, poll) == IF poll THEN Output(c) ELSE c
        Gone(c) == Failed(Free(Purge(c)))
    IN  /\ p.state \notin {"CLOSED", "TIME_WAIT"}
        /\ p.nrtx >= MaxRtx \/ PersistSends(p)
        /\ Quiet \/ faults < MaxFaults
        /\ \E expired, late, poll \in BOOLEAN, down \in Downs(e) :
              /\ expired \/ late \/ poll \/ GivesUp(p)
              /\ expired => Runs(p) /\ ~GivesUp(p)
              /\ late => MayTimeOut(p)
              /\ poll => ~GivesUp(p) /\ ~late
              /\ LET d == Checked(Context(e, down), expired)
                     c == IF GivesUp(p) \/ late THEN Gone(d) ELSE Polled(d, poll)
                 IN  SendFault(c, ~Quiet) /\ Step(e, c)
        /\ UNCHANGED nextIss

\* tcp_slowtmr for a pcb in TIME_WAIT, after 2 * TCP_MSL.
TimeWaitTimer(e) ==
    /\ pcb[e].state = "TIME_WAIT"
    /\ Step(e, Free(Context(e, FALSE)))
    /\ FaultIf(~Quiet)
    /\ UNCHANGED nextIss

-----------------------------------------------------------------------------
(* The network's faults.                                                    *)

Lose(e) ==
    /\ net[e] # <<>>
    /\ net' = [net EXCEPT ![e] = Tail(@)]

\* A copy of the first segment comes last, or it comes last itself.
Duplicate(e) ==
    /\ net[e] # <<>> /\ Len(net[e]) < NetMax
    /\ net' = [net EXCEPT ![e] = Append(@, Head(@))]

Delay(e) ==
    /\ Len(net[e]) > 1
    /\ net' = [net EXCEPT ![e] = Append(Tail(@), Head(@))]

NetworkFault(e) ==
    /\ Fault
    /\ Lose(e) \/ Duplicate(e) \/ Delay(e)
    /\ UNCHANGED <<pcb, app, pending, nextIss>>

Next ==
    \/ Connect
    \/ \E e \in Ends :
        \/ Receives(e)
        \/ \E n \in 1 .. 2 * Mss : Write(e, n)
        \/ \E n \in 1 .. TcpWnd : Read(e, n)
        \/ \E memory \in BOOLEAN : Shut(e, memory) \/ Close(e, memory)
        \/ FastTimer(e)
        \/ SlowTimer(e)
        \/ TimeWaitTimer(e)
        \/ NetworkFault(e)

Spec == Init /\ [][Next]_vars
-----------------------------------------------------------------------------
(* Properties.                                                              *)

States == {"CLOSED", "SYN_SENT", "SYN_RCVD", "ESTABLISHED", "FIN_WAIT_1", "FIN_WAIT_2",
           "CLOSE_WAIT", "CLOSING", "LAST_ACK", "TIME_WAIT"}

Uses == {"idle", "connecting", "open", "shut", "closed"}
Bytes == 0 .. 255
Windows == 0 .. TcpWnd
CongestionWindows == 1 .. TcpWnd
DupAcks == 0 .. DupAckThreshold
Probes == 0 .. MaxRtx
Texts == {t \in Seq(Nat) : Len(t) <= Mss}
Refusals == [data : Texts, fin : BOOLEAN]
Segments == [seq : Seqs, data : Texts, syn : BOOLEAN, fin : BOOLEAN]
Queues == Seq(Segments)
Messages == [seq : Seqs, data : Texts, syn : BOOLEAN, fin : BOOLEAN, rst : BOOLEAN,
             isAck : BOOLEAN, ack : Seqs, wnd : Seqs]
Pcbs == [state : States,
         snd_nxt : Seqs, lastack : Seqs, snd_lbb : Seqs,
         snd_wnd : Seqs, snd_wl1 : Seqs, snd_wl2 : Seqs,
         unacked : Queues, unsent : Queues,
         cwnd : CongestionWindows, rtime : BOOLEAN, nrtx : Bytes, dupacks : DupAcks,
         persist : BOOLEAN, probes : Probes,
         rcv_nxt : Seqs, rcv_wnd : Windows, rcv_ann_wnd : Seqs, edge : Seqs,
         refused : Refusals,
         ackDelay : BOOLEAN, ackNow : BOOLEAN, infr : BOOLEAN, fin : BOOLEAN,
         nagleMemErr : BOOLEAN, rxClosed : BOOLEAN, closePend : BOOLEAN,
         backlogPend : BOOLEAN]
Apps == [use : Uses, wrote : Nat, got : Seq(Nat), read : Nat,
         eof : BOOLEAN, err : BOOLEAN, accepts : Nat]

\* Types and the limits of every count; no segment is longer than Mss, however a
\* queue is filled up, split and joined; accepts_pending is the number of
\* connections that wait for their accept.
TypeOK ==
    /\ pcb \in [Ends -> Pcbs]
    /\ app \in [Ends -> Apps]
    /\ net \in [Ends -> Seq(Messages)]
    /\ \A e \in Ends :
        /\ Len(net[e]) <= NetMax
        /\ app[e].wrote <= MaxWrite[e] /\ app[e].read <= Len(app[e].got)
        /\ pcb[e].backlogPend => e = Server /\ pcb[e].state = "SYN_RCVD"
    /\ pending = IF pcb[Server].backlogPend THEN 1 ELSE 0
    /\ nextIss \in [Ends -> Seqs]
    /\ faults \in 0 .. MaxFaults

Synchronized(e) == pcb[e].state \notin {"CLOSED", "SYN_SENT", "SYN_RCVD"}

\* The two ends agree on how far the connection has come, whatever was lost,
\* copied or came late: what a host holds for acknowledged its peer has received,
\* and what it has received its peer has sent (lastack, rcv_nxt and snd_nxt); no
\* window is announced or believed that is larger than TcpWnd, and the announced
\* edge lags behind the real one by no more than that; a host that knows its FIN
\* to be acknowledged has a peer that has taken it; and one tcp_connect leads to
\* one accept at most.
EndsAgree ==
    /\ \A e \in Ends :
        Synchronized(e) /\ Synchronized(Peer(e)) =>
            Between(pcb[Peer(e)].rcv_nxt, pcb[e].lastack, pcb[e].snd_nxt)
    /\ \A e \in Ends :
        /\ pcb[e].snd_wnd <= TcpWnd /\ pcb[e].rcv_ann_wnd <= TcpWnd
        /\ pcb[e].state \notin {"CLOSED", "SYN_SENT"} =>
            Distance(pcb[e].edge, RightEdge(pcb[e])) <= TcpWnd
    /\ \A e \in Ends :
        pcb[e].state \in {"FIN_WAIT_2", "TIME_WAIT"} =>
            pcb[Peer(e)].state \in {"CLOSE_WAIT", "LAST_ACK", "CLOSING", "TIME_WAIT", "CLOSED"}
    /\ app[Server].accepts <= 1

\* The queues together hold everything from the last acknowledgement to the
\* last byte written, in order and without a gap, wherever retransmission has
\* moved a segment (pcb->unacked, unsent and snd_lbb), and no segment after a FIN
\* is without one; and what they hold does not lie there for ever: unsent text
\* with none in flight can go out by the next poll or has a timer that runs.
QueuesHoldTheRest ==
    \A e \in Ends :
        LET p == pcb[e]
            q == SortSeq(p.unacked \o p.unsent, LAMBDA s, t : LT(s.seq, t.seq))
            TextEnd(s) == Add(s.seq, Len(s.data) + IF s.syn THEN 1 ELSE 0)
        IN  /\ p.state \notin {"CLOSED", "TIME_WAIT"} =>
                  IF q = <<>> THEN p.lastack \in {p.snd_lbb, Add(p.snd_lbb, 1)}
                  ELSE /\ LEQ(q[1].seq, p.lastack) /\ LT(p.lastack, EndOf(q[1]))
                       /\ \A i \in 1 .. Len(q) - 1 :
                              q[i + 1].seq = TextEnd(q[i]) /\ (q[i].fin => q[i + 1].fin)
                       /\ EndOf(q[Len(q)]) \in {p.snd_lbb, Add(p.snd_lbb, 1)}
            /\ p.unacked = <<>> /\ p.unsent # <<>> =>
                  p.rtime \/ p.persist \/ Fits(p, Head(p.unsent))

\* While a segment is unacknowledged the retransmission timer runs and the persist
\* timer, which would keep it from going off, does not: whatever was acknowledged
\* in part, moved back to unsent, failed to go out or was overtaken by a window
\* that closed (rtime and persist_backoff, which tcp_output, tcp_receive,
\* tcp_process, tcp_rexmit_fast and the timers set each on its own).
TimerRuns == \A e \in Ends : pcb[e].unacked # <<>> => pcb[e].rtime /\ ~pcb[e].persist

\* What a host holds of the peer's stream for its application: what it was given,
\* what it has refused, and the FIN.
Held(e) ==
    IF ~Synchronized(e) THEN 0
    ELSE Len(app[e].got) + Len(pcb[e].refused.data)
         + IF app[e].eof \/ pcb[e].refused.fin THEN 1 ELSE 0

\* What the application may still count on: all of it, until it shuts down, and
\* after that what it does not refuse (tcp_pcb_purge drops refused text on the
\* way to TIME_WAIT).
Counts(e) == app[e].use = "open" \/ (app[e].use = "shut" /\ e \notin Refusers)

\* Nothing the application counts on goes away behind its back.  As far as its
\* host moves rcv_nxt, which acknowledges text and the FIN to the peer, it has
\* handed them over or keeps them, each once, from the SYN on.  And an application
\* that has shut down nothing is told when its pcb is freed.
NothingDropped ==
    /\ [][\A e \in Ends :
            Synchronized(e)' /\ Counts(e)' =>
                /\ Held(e)' >= Held(e)
                /\ pcb[e].state = "SYN_SENT" => Held(e)' = 0
                /\ pcb[e].state # "SYN_SENT" =>
                      pcb'[e].rcv_nxt = Add(pcb[e].rcv_nxt, Held(e)' - Held(e))]_vars
    /\ [](\A e \in Ends :
            pcb[e].state = "CLOSED" /\ app[e].use \in {"connecting", "open"} => app[e].err)

\* The persist timer ticks only for a connection with text to send and none in
\* flight (the assertions of tcp_slowtmr, tcp.c 1237-1238).
PersistTicksForText == \A e \in Ends : PersistSends(pcb[e])

\* The window a host has announced is never taken back (rcv_ann_right_edge).
EdgeKept ==
    [][\A e \in Ends :
          pcb[e].state \notin {"CLOSED", "SYN_SENT"} /\ pcb'[e].state # "CLOSED" =>
              LEQ(pcb[e].edge, pcb'[e].edge)]_vars

\* A host's FIN is on one of its segments only: a segment that is split passes it
\* on ("Migrate flags from original segment", tcp_split_unsent_seg).
OneFin(e) ==
    LET q == pcb[e].unacked \o pcb[e].unsent
    IN  \A i, j \in DOMAIN q : q[i].fin /\ q[j].fin => i = j
FinMigrates == \A e \in Ends : OneFin(e)

\* Each direction of the connection, taken as a stream (module Stream).
ToServer == INSTANCE Stream WITH
    written <- app[Client].wrote, shut <- app[Client].use \in {"shut", "closed"},
    got <- app[Server].got, ended <- app[Server].eof
ToClient == INSTANCE Stream WITH
    written <- app[Server].wrote, shut <- app[Server].use \in {"shut", "closed"},
    got <- app[Client].got, ended <- app[Client].eof
===============================================================================
