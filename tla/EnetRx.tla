-------------------------------- MODULE EnetRx --------------------------------
(***************************************************************************)
(* Receiving Ethernet frames: the controller fills a ring of descriptors,  *)
(* the receive interrupt empties it in a loop (ENET_ReceiveIRQHandler,     *)
(* ethernetif_input, ethernetif_linkinput and the driver's                 *)
(* ENET_GetRxFrameSize and ENET_ReadFrame), copies each frame into a       *)
(* buffer from lwIP's pool and posts it with a message from another pool   *)
(* to the mailbox of tcpip_thread.  Any of the three can run out.          *)
(*                                                                         *)
(* The controller and what the stack does with a packet are external.  The *)
(* interrupt handler runs to its end before a task does; between two turns *)
(* of its loop the controller may write.                                   *)
(***************************************************************************)
EXTENDS Naturals, Sequences

CONSTANTS
    RxBdNumber,     \* receive descriptors (ENET_RXBD_NUM)
    Buffers,        \* descriptors that one frame takes
    PoolSize,       \* PBUF_POOL_SIZE
    MsgNumber,      \* MEMP_NUM_TCPIP_MSG_INPKT
    MboxSize,       \* TCPIP_MBOX_SIZE
    MaxFrame        \* bound: frames that arrive, numbered from 1

ASSUME EnetRxAssumption ==
    /\ RxBdNumber \in Nat \ {0} /\ Buffers \in Nat \ {0}
    /\ PoolSize \in Nat /\ MsgNumber \in Nat /\ MboxSize \in Nat
    /\ MaxFrame \in Nat

VARIABLES
    ring,           \* the descriptors
    dmaBd,          \* the controller's next descriptor,
    arriving,       \* the frame it writes there or wrote last,
    written,        \* and the parts of it that it has written
    eir,            \* RXF is set in the event register
    rxBdCurrent,    \* the driver's next descriptor
    isr,            \* "idle" or in ethernetif_input's loop: "input"
    cut,            \* that loop ended by discarding a frame
    pool, msgs,     \* free pbufs and free messages
    mbox,           \* frames posted to tcpip_thread, oldest first
    thread,         \* the frame it handles, or 0
    kept            \* pbufs that the stack and the application hold on to

dmaVars == <<dmaBd, arriving, written>>
threadVars == <<thread, kept>>
vars == <<ring, dmaVars, eir, rxBdCurrent, isr, cut, pool, msgs, mbox, threadVars>>

Bds == 0 .. RxBdNumber - 1
NextBd(i) == IF i + 1 = RxBdNumber THEN 0 ELSE i + 1

\* ENET_SetRxBufferDescriptors: EMPTY, length 0.
Init ==
    /\ ring = [i \in Bds |-> [empty |-> TRUE, length |-> 0, last |-> FALSE,
                              error |-> FALSE, frame |-> 0]]
    /\ dmaBd = 0 /\ arriving = 0 /\ written = 0
    /\ eir = FALSE /\ rxBdCurrent = 0
    /\ isr = "idle" /\ cut = FALSE
    /\ pool = PoolSize /\ msgs = MsgNumber /\ mbox = <<>>
    /\ thread = 0 /\ kept = 0

-----------------------------------------------------------------------------
(* The controller.  A frame that finds no empty descriptor when it begins   *)
(* is lost unseen, and so is not one of the numbered ones.                  *)

Receive ==
    /\ ring[dmaBd].empty
    /\ IF written = 0 THEN arriving < MaxFrame /\ arriving' = arriving + 1
                      ELSE arriving' = arriving
    /\ LET last == written + 1 = Buffers
       IN  /\ \E error \in {FALSE, last} :
                 ring' = [ring EXCEPT ![dmaBd] =
                             [empty |-> FALSE, length |-> 1, last |-> last,
                              error |-> error, frame |-> arriving']]
           /\ written' = IF last THEN 0 ELSE written + 1
           /\ eir' = (eir \/ last)
    /\ dmaBd' = NextBd(dmaBd)
    /\ UNCHANGED <<rxBdCurrent, isr, cut, pool, msgs, mbox, threadVars>>

-----------------------------------------------------------------------------
(* The receive interrupt.                                                   *)

\* ENET_ReceiveIRQHandler clears the event, then calls ethernetif_input.
ReceiveIRQ ==
    /\ isr = "idle" /\ eir
    /\ eir' = FALSE
    /\ isr' = "input" /\ cut' = FALSE
    /\ UNCHANGED <<ring, dmaVars, rxBdCurrent, pool, msgs, mbox, threadVars>>

\* The descriptor k places after the driver's.
After(k) == IF rxBdCurrent + k < RxBdNumber THEN rxBdCurrent + k
            ELSE rxBdCurrent + k - RxBdNumber

\* Of the places in S, k is the one the driver comes to first.
First(k, S) == k \in S /\ \A j \in S : k <= j

\* ENET_GetRxFrameSize returns status: it looks for the first descriptor that
\* was never written or ends a frame.
Stops == {k \in Bds : \/ ring[After(k)].length = 0
                      \/ ~ring[After(k)].empty /\ ring[After(k)].last}

GetRxFrameSize(status) ==
    IF ring[rxBdCurrent].empty \/ Stops = {}
    THEN status = "empty"
    ELSE \E k \in Bds :
            /\ First(k, Stops)
            /\ status = IF ring[After(k)].length = 0 \/ ring[After(k)].error
                        THEN "error" ELSE "frame"

\* Mutant: the descriptor is not given back.
ReadFrameKept ==
    /\ rxBdCurrent' = After(1)
    /\ ring' = ring

\* ENET_ReadFrame gives descriptors back up to the first with the LAST flag,
\* at most the whole ring.
Ends == {k \in Bds : ring[After(k)].last \/ k = RxBdNumber - 1}

ReadFrame ==
    \E n \in Bds :
        /\ First(n, Ends)
        /\ ring' = [i \in Bds |-> IF \E k \in 0 .. n : i = After(k)
                                  THEN [ring[i] EXCEPT !.empty = TRUE,
                                           !.last = FALSE, !.error = FALSE]
                                  ELSE ring[i]]
        /\ rxBdCurrent' = After(n + 1)

\* Mutant: nobody looks whether there was a message to post.
InputUntested(frame) ==
    /\ mbox' = Append(mbox, frame)
    /\ msgs' = msgs - 1
    /\ pool' = pool - 1

\* Mutant: the caller forgets the pbuf of a packet that was not posted.
InputUnfreed(frame) ==
    /\ pool' = pool - 1
    /\ IF msgs > 0 /\ Len(mbox) < MboxSize
       THEN mbox' = Append(mbox, frame) /\ msgs' = msgs - 1
       ELSE UNCHANGED <<mbox, msgs>>

\* tcpip_inpkt posts the frame, or the caller frees its pbuf.
Input(frame) ==
    IF msgs > 0 /\ Len(mbox) < MboxSize
    THEN /\ mbox' = Append(mbox, frame)
         /\ msgs' = msgs - 1
         /\ pool' = pool - 1
    ELSE UNCHANGED <<mbox, msgs, pool>>

\* Mutant: the loop ends when a packet could not be posted.
LinkInputGivesUp ==
    /\ isr = "input"
    /\ \/ /\ GetRxFrameSize("empty")
          /\ isr' = "idle"
          /\ UNCHANGED <<ring, rxBdCurrent, cut, mbox, msgs, pool>>
       \/ /\ GetRxFrameSize("error") \/ (GetRxFrameSize("frame") /\ pool = 0)
          /\ ReadFrame
          /\ isr' = "idle" /\ cut' = TRUE
          /\ UNCHANGED <<mbox, msgs, pool>>
       \/ /\ GetRxFrameSize("frame") /\ pool > 0
          /\ ReadFrame
          /\ Input(ring[rxBdCurrent].frame)
          /\ isr' = IF mbox' = mbox THEN "idle" ELSE "input"
          /\ UNCHANGED cut
    /\ UNCHANGED <<dmaVars, eir, threadVars>>

\* One turn of ethernetif_input's loop.  It goes on as long as
\* ethernetif_linkinput returns a packet, even one that is then not posted.
LinkInput ==
    /\ isr = "input"
    /\ \/ /\ GetRxFrameSize("empty")
          /\ isr' = "idle"
          /\ UNCHANGED <<ring, rxBdCurrent, cut, mbox, msgs, pool>>
       \/ /\ GetRxFrameSize("error") \/ (GetRxFrameSize("frame") /\ pool = 0)
          /\ ReadFrame
          /\ isr' = "idle" /\ cut' = TRUE
          /\ UNCHANGED <<mbox, msgs, pool>>
       \/ /\ GetRxFrameSize("frame") /\ pool > 0
          /\ ReadFrame
          /\ Input(ring[rxBdCurrent].frame)
          /\ UNCHANGED <<isr, cut>>
    /\ UNCHANGED <<dmaVars, eir, threadVars>>

-----------------------------------------------------------------------------
(* tcpip_thread.                                                            *)

Fetch ==
    /\ isr = "idle" /\ thread = 0 /\ mbox # <<>>
    /\ thread' = Head(mbox)
    /\ mbox' = Tail(mbox)
    /\ UNCHANGED <<ring, dmaVars, eir, rxBdCurrent, isr, cut, pool, msgs, kept>>

\* tcpip_thread_handle_msg: the packet is freed, by the stack or because the
\* stack refuses it, or kept; the message is freed.
Handle ==
    /\ isr = "idle" /\ thread # 0
    /\ \/ pool' = pool + 1 /\ kept' = kept
       \/ kept' = kept + 1 /\ pool' = pool
    /\ msgs' = msgs + 1
    /\ thread' = 0
    /\ UNCHANGED <<ring, dmaVars, eir, rxBdCurrent, isr, cut, mbox>>

\* A kept packet is freed when the application has read it.
Release ==
    /\ isr = "idle" /\ kept > 0
    /\ kept' = kept - 1
    /\ pool' = pool + 1
    /\ UNCHANGED <<ring, dmaVars, eir, rxBdCurrent, isr, cut, msgs, mbox, thread>>

Next == Receive \/ ReceiveIRQ \/ LinkInput \/ Fetch \/ Handle \/ Release

Spec == Init /\ [][Next]_vars

-----------------------------------------------------------------------------
(* Properties.                                                              *)

TypeOK ==
    /\ ring \in [Bds -> [empty : BOOLEAN, length : {0, 1}, last : BOOLEAN,
                         error : BOOLEAN, frame : 0 .. MaxFrame]]
    /\ dmaBd \in Bds /\ arriving \in 0 .. MaxFrame /\ written \in 0 .. Buffers - 1
    /\ eir \in BOOLEAN /\ rxBdCurrent \in Bds
    /\ isr \in {"idle", "input"} /\ cut \in BOOLEAN
    /\ pool \in 0 .. PoolSize /\ msgs \in 0 .. MsgNumber
    /\ mbox \in Seq(1 .. MaxFrame)
    /\ thread \in 0 .. MaxFrame /\ kept \in Nat

Busy == IF thread = 0 THEN 0 ELSE 1

\* No pbuf and no message is lost or freed twice, whatever ran out on the way
\* from the interrupt to the application.
NothingLeaks ==
    /\ pool + Len(mbox) + Busy + kept = PoolSize
    /\ msgs + Len(mbox) + Busy = MsgNumber

\* The stack sees each frame at most once and in the order of arrival: what
\* tcpip_thread handles is older than what is in its mailbox, and that is older
\* than what is in the ring, each in its order.
InOrder ==
    /\ \A i, j \in 1 .. Len(mbox) : i < j => mbox[i] < mbox[j]
    /\ \A i \in 1 .. Len(mbox) : thread < mbox[i]
    /\ \A k \in Bds : ~ring[After(k)].empty =>
          /\ thread < ring[After(k)].frame
          /\ \A i \in 1 .. Len(mbox) : mbox[i] < ring[After(k)].frame
          /\ \A j \in Bds : j < k => ~ring[After(j)].empty
                                     /\ ring[After(j)].frame < ring[After(k)].frame

\* The interrupt is over and no other is pending.
Quiet == isr = "idle" /\ ~eir

\* A frame that arrives while the handler runs is not overlooked: only a
\* discarded frame makes the handler leave others behind in the ring.
LeftOnlyAfterDiscard == Quiet /\ ~ring[rxBdCurrent].empty => cut
=============================================================================
