-------------------------------- MODULE EnetTx --------------------------------
(***************************************************************************)
(* Sending an Ethernet frame: ethernetif_linkoutput, called with the lwIP  *)
(* core lock held and so by one task at a time, hands the frame to the     *)
(* driver's ring of transmit descriptors and waits on an event group when  *)
(* the ring is full.  The wake-up takes three hops: the transmit interrupt *)
(* cannot set an event bit, it pends a call in the timer daemon's command  *)
(* queue, and the daemon sets the bit.                                     *)
(*                                                                         *)
(* The controller, which empties the descriptors in ring order, is         *)
(* external.  Priorities are left out: between interrupts the sender and   *)
(* the daemon take steps in any order.                                     *)
(***************************************************************************)
EXTENDS Naturals, FiniteSets

CONSTANTS
    TxBdNumber,         \* transmit descriptors (ENET_TXBD_NUM)
    Sizes,              \* numbers of descriptors that a frame may take
    Frames,             \* frames are numbered 0 .. Frames-1 and over again
    TimerQueueLength    \* configTIMER_QUEUE_LENGTH

ASSUME EnetTxAssumption ==
    /\ TxBdNumber \in Nat \ {0} /\ Sizes \subseteq Nat \ {0}
    /\ Frames \in Nat \ {0} /\ TimerQueueLength \in Nat \ {0}

VARIABLES
    ring,           \* the descriptors: READY bit, LAST bit and contents
    txBdCurrent,    \* the driver's next descriptor
    dmaBd,          \* the controller's
    eir,            \* TXF or TXB is set in the event register
    isr,            \* "idle" or, with the event cleared, "callback"
    timerQueue,     \* "set bits" commands pended to the daemon
    daemon,         \* "idle" or about to "set" the bit
    txFlag,         \* the bit of enetTransmitAccessEvent
    pc,             \* the sender: "idle", "send", "parts", "busy" or "blocked"
    part,           \* descriptors filled in this call of ENET_SendFrame
    frame, size,    \* the frame being sent, and the descriptors it takes
    wire            \* the last frame the controller sent to its end

driverVars == <<ring, txBdCurrent>>
dmaVars == <<dmaBd, wire>>
wakeVars == <<isr, timerQueue, daemon, txFlag>>
vars == <<driverVars, dmaVars, eir, wakeVars, pc, part, frame, size>>

Bds == 0 .. TxBdNumber - 1

\* Mutant: the WRAP flag of the last descriptor is not seen.
NextBdUnwrapped(i) == i + 1

NextBd(i) == IF i + 1 = TxBdNumber THEN 0 ELSE i + 1

NextFrame(f) == IF f + 1 = Frames THEN 0 ELSE f + 1

Init ==
    /\ ring = [i \in Bds |-> [ready |-> FALSE, last |-> FALSE, frame |-> 0]]
    /\ txBdCurrent = 0 /\ dmaBd = 0
    /\ eir = FALSE /\ isr = "idle"
    /\ timerQueue = 0 /\ daemon = "idle" /\ txFlag = FALSE
    /\ pc = "idle" /\ part = 0 /\ frame = 0 /\ size \in Sizes /\ wire = 0

-----------------------------------------------------------------------------
(* The sending task.                                                        *)

LinkOutput ==
    /\ isr = "idle" /\ pc = "idle"
    /\ frame' = NextFrame(frame) /\ size' \in Sizes
    /\ pc' = "send" /\ part' = 0
    /\ UNCHANGED <<driverVars, dmaVars, eir, wakeVars>>

\* The driver writes its next descriptor and hands it to the controller.
Fill(last) ==
    /\ ring' = [ring EXCEPT ![txBdCurrent] =
                   [ready |-> TRUE, last |-> last, frame |-> frame]]
    /\ txBdCurrent' = NextBd(txBdCurrent)

\* Mutant: the READY flag is not tested.
SendFrameUntested ==
    /\ isr = "idle" /\ pc = "send"
    /\ part' = 0
    /\ pc' = "idle" /\ Fill(TRUE)
    /\ UNCHANGED <<dmaVars, eir, wakeVars, frame, size>>

\* ENET_SendFrame up to the loop over the parts of a long frame.
SendFrame ==
    /\ isr = "idle" /\ pc = "send"
    /\ part' = 0
    /\ IF ring[txBdCurrent].ready
       THEN pc' = "busy" /\ UNCHANGED driverVars
       ELSE IF size = 1
            THEN pc' = "idle" /\ Fill(TRUE)
            ELSE pc' = "parts" /\ UNCHANGED driverVars
    /\ UNCHANGED <<dmaVars, eir, wakeVars, frame, size>>

\* One turn of that loop, which ends after the last part or at a descriptor
\* that is not free.  Either way the function reports kStatus_ENET_TxFrameBusy.
SendPart ==
    /\ isr = "idle" /\ pc = "parts"
    /\ IF part > 0 /\ ring[txBdCurrent].ready
       THEN pc' = "busy" /\ UNCHANGED <<driverVars, part>>
       ELSE /\ part' = part + 1
            /\ Fill(part' = size)
            /\ pc' = IF part' = size THEN "busy" ELSE "parts"
    /\ UNCHANGED <<dmaVars, eir, wakeVars, frame, size>>

\* xEventGroupWaitBits, clearing the bit on exit.  The scheduler is suspended,
\* which keeps the daemon out.
WaitBits ==
    /\ isr = "idle" /\ pc = "busy"
    /\ pc' = IF txFlag THEN "send" ELSE "blocked"
    /\ txFlag' = FALSE
    /\ UNCHANGED <<driverVars, dmaVars, eir, isr, timerQueue, daemon, part, frame, size>>

-----------------------------------------------------------------------------
(* The controller, its interrupt and the timer daemon.                      *)

\* The controller sends the next descriptor.
Transmit ==
    /\ ring[dmaBd].ready
    /\ ring' = [ring EXCEPT ![dmaBd].ready = FALSE]
    /\ dmaBd' = NextBd(dmaBd)
    /\ wire' = IF ring[dmaBd].last THEN ring[dmaBd].frame ELSE wire
    /\ eir' = TRUE
    /\ UNCHANGED <<txBdCurrent, wakeVars, pc, part, frame, size>>

\* ENET_TransmitIRQHandler clears the event and then calls back; its loop is
\* this action enabled again.
TransmitIRQ ==
    /\ isr = "idle" /\ eir
    /\ eir' = FALSE
    /\ isr' = "callback"
    /\ UNCHANGED <<driverVars, dmaVars, timerQueue, daemon, txFlag, pc, part, frame, size>>

\* xEventGroupSetBitsFromISR fails on a full command queue, and
\* ethernet_callback lets it.
Callback ==
    /\ isr = "callback"
    /\ isr' = "idle"
    /\ timerQueue' = IF timerQueue < TimerQueueLength THEN timerQueue + 1
                                                      ELSE timerQueue
    /\ UNCHANGED <<driverVars, dmaVars, eir, daemon, txFlag, pc, part, frame, size>>

DaemonReceive ==
    /\ isr = "idle" /\ daemon = "idle" /\ timerQueue > 0
    /\ timerQueue' = timerQueue - 1
    /\ daemon' = "set"
    /\ UNCHANGED <<driverVars, dmaVars, eir, isr, txFlag, pc, part, frame, size>>

\* Mutant: the bit is not kept for a sender that does not wait yet.
SetBitsUnkept ==
    /\ isr = "idle" /\ daemon = "set"
    /\ daemon' = "idle"
    /\ pc' = IF pc = "blocked" THEN "send" ELSE pc
    /\ UNCHANGED <<driverVars, dmaVars, eir, isr, timerQueue, txFlag, part, frame, size>>

\* xEventGroupSetBits: a sender that waits takes the bit with it.
SetBits ==
    /\ isr = "idle" /\ daemon = "set"
    /\ daemon' = "idle"
    /\ IF pc = "blocked" THEN pc' = "send" /\ txFlag' = FALSE
                         ELSE pc' = pc /\ txFlag' = TRUE
    /\ UNCHANGED <<driverVars, dmaVars, eir, isr, timerQueue, part, frame, size>>

Next ==
    \/ LinkOutput \/ SendFrame \/ SendPart \/ WaitBits
    \/ Transmit \/ TransmitIRQ \/ Callback \/ DaemonReceive \/ SetBits

Spec == Init /\ [][Next]_vars

\* The controller transmits what is ready, interrupts are taken, and tasks run.
FairSpec ==
    /\ Spec
    /\ WF_vars(Transmit) /\ WF_vars(TransmitIRQ) /\ WF_vars(Callback)
    /\ SF_vars(DaemonReceive) /\ SF_vars(SetBits)
    /\ SF_vars(SendFrame) /\ SF_vars(SendPart) /\ SF_vars(WaitBits)
-----------------------------------------------------------------------------
(* Properties.                                                              *)

TypeOK ==
    /\ ring \in [Bds -> [ready : BOOLEAN, last : BOOLEAN, frame : 0 .. Frames - 1]]
    /\ txBdCurrent \in Bds /\ dmaBd \in Bds
    /\ eir \in BOOLEAN /\ isr \in {"idle", "callback"}
    /\ timerQueue \in 0 .. TimerQueueLength
    /\ daemon \in {"idle", "set"} /\ txFlag \in BOOLEAN
    /\ pc \in {"idle", "send", "parts", "busy", "blocked"}
    /\ size \in Sizes /\ part \in 0 .. size
    /\ frame \in 0 .. Frames - 1 /\ wire \in 0 .. Frames - 1

\* A completion is on its way to the sender, at one hop or another.
Coming == \/ \E i \in Bds : ring[i].ready
          \/ eir \/ isr = "callback" \/ timerQueue > 0 \/ daemon = "set"

\* The sender does not sleep through the completion it waits for, though the
\* ring may empty between its finding no free descriptor and its waiting, the
\* bit may be left from an earlier frame, and the command queue may be full.
NoLostWakeup == pc = "blocked" => Coming

\* A frame leaves the controller.
FrameSent == ring[dmaBd].ready /\ ring[dmaBd].last /\ dmaBd' # dmaBd

\* No frame is overwritten before the controller has sent it, none overtakes
\* another, and none of a single descriptor is repeated.  (A frame of several
\* descriptors, which the build does not have, may go out again: ENET_SendFrame
\* reports it busy although it was taken.)
NoneLostNorSwapped ==
    [][FrameSent => \/ ring[dmaBd].frame = NextFrame(wire)
                    \/ ring[dmaBd].frame = wire /\ wire = frame /\ size > 1]_vars

\* A call of linkoutput for a frame of one descriptor returns, however often it
\* finds the ring full: the core lock it holds is released again.
SendReturns == (pc = "send" /\ size = 1) ~> pc = "idle"

\* The frames that the driver has completed and the controller has not yet
\* sent, oldest first, are a mailbox that the sender posts to without a time
\* limit.  A frame of several descriptors is posted anew by each call of
\* ENET_SendFrame.
Complete == {b \in Bds : ring[b].ready /\ ring[b].last}

\* How many descriptors the controller comes to before descriptor b.
Ahead(b) == IF b >= dmaBd THEN b - dmaBd ELSE b - dmaBd + TxBdNumber

\* The frames that are complete when the controller has sent descriptor b, each
\* by its last descriptor, and what the i-th of all of them is.
UpTo(b) == {d \in Complete : Ahead(d) <= Ahead(b)}

Nth(i) == {ring[b].frame : b \in {d \in Complete : Cardinality(UpTo(d)) = i}}

Queued == [i \in 1 .. Cardinality(Complete) |-> CHOOSE f \in Nth(i) : TRUE]

\* ENET_SendFrame has reported busy for a frame it has completed.
Repeating == pc \in {"busy", "blocked"} /\ part = size /\ size > 1

Posting == pc # "idle" /\ ~Repeating

Mbox == INSTANCE Mailbox WITH
    Tasks <- {"sender"}, Length <- TxBdNumber, Values <- 0 .. Frames - 1,
    None <- 0,
    mail <- Queued,
    call <- [t \in {"sender"} |-> IF Posting THEN "send" ELSE "none"],
    wait <- [t \in {"sender"} |-> IF Posting THEN "infinite" ELSE "zero"],
    item <- [t \in {"sender"} |-> frame],
    result <- [t \in {"sender"} |-> "pass"]

\* The ring refines the mailbox, though frames take one descriptor or several
\* and the driver may run out of descriptors in the middle of one.
MailboxSpec == Mbox!Spec
=============================================================================
