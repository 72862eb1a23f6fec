----------------------------- MODULE EnetTxProofs -----------------------------
(* For any ring, frame length and command queue, the sender that waits for a *)
(* free descriptor is woken by a completion that is still to come, and the   *)
(* frames leave the controller in the order the sender gave them: the ring   *)
(* is a mailbox.                                                             *)
EXTENDS EnetTx, FiniteSetTheorems, SequenceTheorems, TLAPS

\* The loop over a long frame ends with its last part.
PartInv == pc = "parts" => part < size

\* The driver and the controller stay within the ring, and every frame number,
\* queue length and program counter within its range.
THEOREM TypeCorrect == Spec => []TypeOK
<1> USE EnetTxAssumption DEF Bds
<1>1. ASSUME Init PROVE TypeOK /\ PartInv
  <2>0. size \in Nat \ {0}
    BY <1>1 DEF Init
  <2>1. 0 \in Bds /\ 0 \in 0 .. Frames - 1 /\ 0 \in 0 .. size
        /\ 0 \in 0 .. TimerQueueLength
    BY <2>0
  <2>2. ring \in [Bds -> [ready : BOOLEAN, last : BOOLEAN, frame : 0 .. Frames - 1]]
    BY <1>1, <2>1 DEF Init
  <2> QED BY <1>1, <2>1, <2>2 DEF Init, TypeOK, PartInv
<1>2. TypeOK /\ PartInv /\ [Next]_vars => TypeOK' /\ PartInv'
  <2> SUFFICES ASSUME TypeOK, PartInv, [Next]_vars PROVE TypeOK' /\ PartInv'
    OBVIOUS
  <2>1. \A i \in Bds : NextBd(i) \in Bds
    BY DEF NextBd
  <2>2. NextFrame(frame) \in 0 .. Frames - 1
    BY DEF NextFrame, TypeOK
  <2>3. ASSUME NEW last \in BOOLEAN, Fill(last)
        PROVE  /\ ring' \in [Bds -> [ready : BOOLEAN, last : BOOLEAN,
                                     frame : 0 .. Frames - 1]]
               /\ txBdCurrent' \in Bds
    BY <2>1, <2>3 DEF Fill, TypeOK
  <2>4. CASE LinkOutput
    BY <2>2, <2>4 DEF LinkOutput, PartInv, driverVars, dmaVars, wakeVars, TypeOK
  <2>5. CASE SendFrame
    <3>1. /\ part' = 0 /\ pc' \in {"busy", "idle", "parts"}
          /\ UNCHANGED <<dmaVars, eir, wakeVars, frame, size>>
          /\ Fill(TRUE) \/ UNCHANGED driverVars
      BY <2>5 DEF SendFrame
    <3>0. 0 < size
      BY DEF TypeOK
    <3>4. PartInv'
      BY <3>0, <3>1 DEF PartInv
    <3>2. CASE Fill(TRUE)
      <4>1. /\ ring' \in [Bds -> [ready : BOOLEAN, last : BOOLEAN,
                                   frame : 0 .. Frames - 1]]
            /\ txBdCurrent' \in Bds
        BY <2>3, <3>2
      <4>2. UNCHANGED <<dmaBd, wire, eir, isr, timerQueue, daemon, txFlag, frame, size>>
        BY <3>1 DEF dmaVars, wakeVars
      <4>3. TypeOK'
        BY <3>1, <4>1, <4>2 DEF TypeOK
      <4> QED BY <3>4, <4>3
    <3>3. CASE UNCHANGED driverVars
      BY <3>1, <3>3, <3>4 DEF driverVars, dmaVars, wakeVars, TypeOK
    <3> QED BY <3>1, <3>2, <3>3
  <2>6. CASE SendPart
    <3>1. CASE part > 0 /\ ring[txBdCurrent].ready
      BY <2>6, <3>1 DEF SendPart, PartInv, driverVars, dmaVars, wakeVars, TypeOK
    <3>2. CASE ~(part > 0 /\ ring[txBdCurrent].ready)
      <4>1. /\ part' = part + 1 /\ Fill(part' = size)
            /\ pc' = IF part' = size THEN "busy" ELSE "parts"
            /\ UNCHANGED <<dmaVars, eir, wakeVars, frame, size>>
        BY <2>6, <3>2 DEF SendPart
      <4>2. part < size
        BY <2>6, <3>2 DEF SendPart, PartInv
      <4>3. part' \in 0 .. size /\ PartInv'
        BY <4>1, <4>2 DEF PartInv, TypeOK
      <4>4. (part' = size) \in BOOLEAN
        OBVIOUS
      <4> QED BY <2>3, <4>1, <4>3, <4>4 DEF dmaVars, wakeVars, TypeOK
    <3> QED BY <3>1, <3>2
  <2>7. CASE WaitBits
    BY <2>7 DEF WaitBits, PartInv, driverVars, dmaVars, TypeOK
  <2>8. CASE Transmit
    BY <2>1, <2>8 DEF Transmit, PartInv, wakeVars, TypeOK
  <2>9. CASE TransmitIRQ
    BY <2>9 DEF TransmitIRQ, PartInv, driverVars, dmaVars, TypeOK
  <2>10. CASE Callback
    BY <2>10 DEF Callback, PartInv, driverVars, dmaVars, TypeOK
  <2>11. CASE DaemonReceive
    BY <2>11 DEF DaemonReceive, PartInv, driverVars, dmaVars, TypeOK
  <2>12. CASE SetBits
    BY <2>12 DEF SetBits, PartInv, driverVars, dmaVars, TypeOK
  <2>13. CASE UNCHANGED vars
    BY <2>13 DEF vars, PartInv, driverVars, dmaVars, wakeVars, TypeOK
  <2> QED BY <2>4, <2>5, <2>6, <2>7, <2>8, <2>9, <2>10, <2>11, <2>12, <2>13
         DEF Next
<1> QED BY <1>1, <1>2, PTL DEF Spec

\* The sender waits, or is about to, only with a completion on its way or, if
\* it has not waited yet, with the bit set.  Only with the part counter can
\* that be carried through the loop over a long frame.
WakeInv ==
    /\ TypeOK
    /\ pc = "blocked" => ~txFlag
    /\ pc \in {"busy", "blocked"} \/ (pc = "parts" /\ part > 0) => Coming \/ txFlag

LEMMA WakeStep == WakeInv /\ TypeOK' /\ [Next]_vars => WakeInv'
<1> USE EnetTxAssumption
<1> SUFFICES ASSUME WakeInv, TypeOK', [Next]_vars PROVE WakeInv'
  OBVIOUS
<1>0. TypeOK
  BY DEF WakeInv
<1>1. ASSUME NEW last, Fill(last) PROVE Coming'
  <2>1. ring'[txBdCurrent].ready /\ txBdCurrent \in Bds
    BY <1>0, <1>1 DEF Fill, TypeOK
  <2> QED BY <2>1 DEF Coming
<1>2. CASE LinkOutput
  BY <1>2 DEF LinkOutput, WakeInv, Coming, Bds
<1>3. CASE SendFrame
  <2>1. CASE ring[txBdCurrent].ready
    <3>1. Coming'
      BY <1>0, <1>3, <2>1 DEF SendFrame, driverVars, Coming, TypeOK
    <3>2. pc' = "busy"
      BY <1>3, <2>1 DEF SendFrame
    <3> QED BY <3>1, <3>2 DEF WakeInv
  <2>2. CASE ~ring[txBdCurrent].ready
    <3>1. part' = 0 /\ pc' \in {"idle", "parts"}
      BY <1>3, <2>2 DEF SendFrame
    <3> QED BY <3>1 DEF WakeInv
  <2> QED BY <2>1, <2>2
<1>4. CASE SendPart
  <2>1. pc' \in {"busy", "parts"}
    BY <1>4 DEF SendPart
  <2>2. CASE part > 0 /\ ring[txBdCurrent].ready
    <3>1. Coming'
      BY <1>0, <1>4, <2>2 DEF SendPart, driverVars, Coming, TypeOK
    <3> QED BY <2>1, <3>1 DEF WakeInv
  <2>3. CASE ~(part > 0 /\ ring[txBdCurrent].ready)
    <3>1. Coming'
      BY <1>1, <1>4, <2>3 DEF SendPart
    <3> QED BY <2>1, <3>1 DEF WakeInv
  <2> QED BY <2>2, <2>3
<1>5. CASE WaitBits
  <2>1. CASE txFlag
    BY <1>5, <2>1 DEF WaitBits, WakeInv
  <2>2. CASE ~txFlag
    <3>1. Coming /\ UNCHANGED <<ring, eir, isr, timerQueue, daemon>>
      BY <1>5, <2>2 DEF WaitBits, WakeInv, driverVars
    <3>2. Coming'
      BY <3>1 DEF Coming, Bds
    <3>3. ~txFlag' /\ pc' = "blocked"
      BY <1>5, <2>2 DEF WaitBits
    <3> QED BY <3>2, <3>3 DEF WakeInv
  <2> QED BY <2>1, <2>2
<1>6. CASE Transmit
  <2>1. UNCHANGED <<pc, part, txFlag>> /\ Coming'
    BY <1>6 DEF Transmit, wakeVars, Coming
  <2> QED BY <2>1 DEF WakeInv
<1>7. CASE TransmitIRQ
  <2>1. UNCHANGED <<pc, part, txFlag>> /\ Coming'
    BY <1>7 DEF TransmitIRQ, Coming
  <2> QED BY <2>1 DEF WakeInv
<1>8. CASE Callback
  <2>1. UNCHANGED <<pc, part, txFlag>>
    BY <1>8 DEF Callback
  <2>2. timerQueue' > 0
    BY <1>0, <1>8 DEF Callback, TypeOK
  <2> QED BY <2>1, <2>2 DEF WakeInv, Coming
<1>9. CASE DaemonReceive
  <2>1. UNCHANGED <<pc, part, txFlag>> /\ Coming'
    BY <1>9 DEF DaemonReceive, Coming
  <2> QED BY <2>1 DEF WakeInv
<1>10. CASE SetBits
  <2>1. CASE pc = "blocked"
    BY <1>10, <2>1 DEF SetBits, WakeInv
  <2>2. CASE pc # "blocked"
    BY <1>10, <2>2 DEF SetBits, WakeInv
  <2> QED BY <2>1, <2>2
<1>11. CASE UNCHANGED vars
  <2>1. UNCHANGED <<pc, part, txFlag, ring, eir, isr, timerQueue, daemon>>
    BY <1>11 DEF vars, driverVars, wakeVars
  <2> QED BY <2>1 DEF WakeInv, Coming, Bds
<1> QED
  BY <1>2, <1>3, <1>4, <1>5, <1>6, <1>7, <1>8, <1>9, <1>10, <1>11 DEF Next

\* No wake-up is lost on the way from the controller over the interrupt, the
\* command queue and the daemon to the event group: not when the ring empties
\* between ENET_SendFrame and xEventGroupWaitBits, and not when the command
\* queue is full and xEventGroupSetBitsFromISR's failure is ignored.
THEOREM WakeupArrives == Spec => []NoLostWakeup
<1>1. Init /\ TypeOK => WakeInv
  BY DEF Init, WakeInv
<1>2. WakeInv /\ TypeOK' /\ [Next]_vars => WakeInv'
  BY WakeStep
<1>3. WakeInv => NoLostWakeup
  BY DEF WakeInv, NoLostWakeup
<1> QED BY <1>1, <1>2, <1>3, TypeCorrect, PTL DEF Spec

-----------------------------------------------------------------------------
(* The ring between the driver and the controller.                          *)

\* The k-th descriptor from the controller's, round the ring.
Slot(k) == IF dmaBd + k < TxBdNumber THEN dmaBd + k ELSE dmaBd + k - TxBdNumber

\* The frame before the k-th waiting descriptor, and that it ended there.
Before(k) == IF k = 0 THEN wire ELSE ring[Slot(k - 1)].frame

EndedBefore(k) == k = 0 \/ ring[Slot(k - 1)].last

\* Frame f may come k-th: it is the next one, or the long frame being sent,
\* which its busy status makes the sender repeat.
Follows(f, k) == \/ f = NextFrame(Before(k)) /\ EndedBefore(k)
                 \/ f = Before(k) /\ f = frame /\ size > 1

\* The n descriptors that wait for the controller are those from its own to the
\* driver's, and their frames follow one another up to the sender's.
Flight(n) ==
    /\ dmaBd + n \in {txBdCurrent, txBdCurrent + TxBdNumber}
    /\ \A k \in 0 .. TxBdNumber - 1 : ring[Slot(k)].ready <=> k < n
    /\ \A k \in 0 .. n - 1 :
          /\ Follows(ring[Slot(k)].frame, k)
          /\ ~ring[Slot(k)].last => ring[Slot(k)].frame = frame /\ size > 1
    /\ pc = "idle" => frame = Before(n) /\ (n = 0 \/ size = 1)
    /\ pc # "idle" => Follows(frame, n)

\* The loop over a long frame starts at a free descriptor.
LoopInv ==
    pc = "parts" => /\ part < size /\ size > 1
                    /\ part = 0 => ~ring[txBdCurrent].ready

OrderInv == LoopInv /\ \E n \in 0 .. TxBdNumber : Flight(n)

LEMMA SlotInRing ==
    ASSUME TypeOK, NEW k \in 0 .. TxBdNumber - 1
    PROVE  /\ Slot(k) \in Bds
           /\ \A j \in 0 .. TxBdNumber - 1 : Slot(j) = Slot(k) => j = k
BY EnetTxAssumption DEF Slot, Bds, TypeOK

\* Nothing in flight changes while the ring and its two ends stay as they are.
LEMMA FlightKept ==
    ASSUME TypeOK, NEW n \in 0 .. TxBdNumber, Flight(n),
           UNCHANGED <<ring, txBdCurrent, dmaBd, wire, frame, size>>,
           pc' = "idle" <=> pc = "idle"
    PROVE  Flight(n)'
<1>1. /\ \A k \in 0 .. TxBdNumber : Slot(k)' = Slot(k)
      /\ \A k \in 0 .. TxBdNumber : Before(k)' = Before(k)
      /\ \A k \in 0 .. TxBdNumber : EndedBefore(k)' = EndedBefore(k)
  BY DEF Slot, Before, EndedBefore
<1>2. \A f : \A k \in 0 .. TxBdNumber : Follows(f, k)' <=> Follows(f, k)
  BY <1>1 DEF Follows
<1> QED BY <1>1, <1>2, EnetTxAssumption DEF Flight

\* A descriptor that is filled comes last.
LEMMA FlightFilled ==
    ASSUME TypeOK, NEW n \in 0 .. TxBdNumber, Flight(n), pc # "idle",
           ~ring[txBdCurrent].ready, NEW last \in BOOLEAN, Fill(last),
           UNCHANGED <<dmaBd, wire, frame, size>>,
           last \/ size > 1, IF size = 1 THEN pc' = "idle" ELSE pc' # "idle"
    PROVE  n + 1 \in 0 .. TxBdNumber /\ Flight(n + 1)'
<1> USE EnetTxAssumption
<1>0. /\ dmaBd \in Bds /\ txBdCurrent \in Bds /\ size \in Nat /\ n \in Nat
      /\ ring \in [Bds -> [ready : BOOLEAN, last : BOOLEAN, frame : 0 .. Frames - 1]]
  BY DEF TypeOK
<1>1. n < TxBdNumber /\ txBdCurrent = Slot(n)
  <2>1. n # TxBdNumber
    <3> SUFFICES ASSUME n = TxBdNumber PROVE FALSE
      OBVIOUS
    <3>1. txBdCurrent = dmaBd /\ Slot(0) = dmaBd
      BY <1>0 DEF Flight, Slot, Bds
    <3>2. ring[Slot(0)].ready
      BY DEF Flight
    <3> QED BY <3>1, <3>2
  <2> QED BY <2>1, <1>0 DEF Flight, Slot, Bds
<1>2. \A k \in 0 .. TxBdNumber - 1 : Slot(k)' = Slot(k)
  BY DEF Slot
<1>3. /\ \A k \in 0 .. TxBdNumber - 1 :
             k # n => ring'[Slot(k)] = ring[Slot(k)]
      /\ ring'[Slot(n)] = [ready |-> TRUE, last |-> last, frame |-> frame]
  BY <1>0, <1>1, SlotInRing DEF Fill
<1>4. \A k \in 0 .. n : Before(k)' = Before(k) /\ EndedBefore(k)' = EndedBefore(k)
  BY <1>0, <1>1, <1>2, <1>3 DEF Before, EndedBefore
<1>5. Before(n + 1)' = frame
  BY <1>0, <1>1, <1>2, <1>3 DEF Before
<1>6. \A f : \A k \in 0 .. n : Follows(f, k)' <=> Follows(f, k)
  BY <1>4 DEF Follows
<1>7. dmaBd' + (n + 1) \in {txBdCurrent', txBdCurrent' + TxBdNumber}
  BY <1>0, <1>1 DEF Fill, NextBd, Slot, Bds
<1>8. \A k \in 0 .. TxBdNumber - 1 : ring'[Slot(k)'].ready <=> k < n + 1
  <2> SUFFICES ASSUME NEW k \in 0 .. TxBdNumber - 1
               PROVE  ring'[Slot(k)].ready <=> k < n + 1
    BY <1>2
  <2> QED BY <1>0, <1>3 DEF Flight
<1>9. ASSUME NEW k \in 0 .. n
      PROVE  /\ \A f : f = ring'[Slot(k)].frame => Follows(f, k)
             /\ ~ring'[Slot(k)].last => ring'[Slot(k)].frame = frame /\ size > 1
  <2>1. CASE k # n
    BY <1>0, <1>1, <1>3, <2>1 DEF Flight
  <2>2. CASE k = n
    BY <1>0, <1>1, <1>3, <2>2 DEF Flight
  <2> QED BY <2>1, <2>2
<1>10. pc' = "idle" => frame = Before(n + 1)' /\ size = 1
  BY <1>5, <1>0
<1>11. pc' # "idle" => Follows(frame, n + 1)'
  BY <1>5, <1>0 DEF Follows, TypeOK
<1>12. n + 1 \in 0 .. TxBdNumber
  BY <1>0, <1>1
<1>13. \A k \in 0 .. n :
          /\ Follows(ring[Slot(k)].frame, k)'
          /\ ~ring'[Slot(k)'].last => ring'[Slot(k)'].frame = frame /\ size > 1
  BY <1>0, <1>1, <1>2, <1>6, <1>9
<1> QED BY <1>0, <1>7, <1>8, <1>10, <1>11, <1>12, <1>13 DEF Flight

\* The controller takes the first.
LEMMA FlightTransmitted ==
    ASSUME TypeOK, NEW n \in 0 .. TxBdNumber, Flight(n), Transmit
    PROVE  n > 0 /\ Flight(n - 1)'
<1> USE EnetTxAssumption
<1>0. /\ dmaBd \in Bds /\ txBdCurrent \in Bds /\ size \in Nat /\ n \in Nat
      /\ ring \in [Bds -> [ready : BOOLEAN, last : BOOLEAN, frame : 0 .. Frames - 1]]
      /\ UNCHANGED <<txBdCurrent, pc, frame, size>>
  BY DEF TypeOK, Transmit
<1>1. Slot(0) = dmaBd /\ n > 0
  <2>1. Slot(0) = dmaBd
    BY <1>0 DEF Slot, Bds
  <2> QED BY <2>1, <1>0 DEF Flight, Transmit
<1>2. /\ \A k \in 0 .. TxBdNumber - 2 : Slot(k)' = Slot(k + 1)
      /\ Slot(TxBdNumber - 1)' = dmaBd
  <2>1. dmaBd' = IF dmaBd + 1 = TxBdNumber THEN 0 ELSE dmaBd + 1
    BY DEF Transmit, NextBd
  <2>2. dmaBd \in Nat /\ dmaBd < TxBdNumber
    BY <1>0 DEF Bds
  <2> QED BY <2>1, <2>2 DEF Slot
<1>3. /\ ~ring'[dmaBd].ready
      /\ \A k \in 1 .. TxBdNumber - 1 : ring'[Slot(k)] = ring[Slot(k)]
  BY <1>0, <1>1, SlotInRing DEF Transmit
<1>4. \A k \in 1 .. n - 1 : Before(k)' = Before(k + 1)
                         /\ EndedBefore(k)' = EndedBefore(k + 1)
  BY <1>0, <1>2, <1>3 DEF Before, EndedBefore
<1>5. \A f : \A k \in 1 .. n - 1 : Follows(f, k)' <=> Follows(f, k + 1)
  BY <1>0, <1>4 DEF Follows
<1>6. ASSUME NEW f, Follows(f, 1) PROVE Follows(f, 0)'
  <2>1. /\ Follows(ring[dmaBd].frame, 0)
        /\ ~ring[dmaBd].last => ring[dmaBd].frame = frame /\ size > 1
    BY <1>0, <1>1 DEF Flight
  <2>2. Before(1) = ring[dmaBd].frame /\ (EndedBefore(1) <=> ring[dmaBd].last)
    BY <1>1 DEF Before, EndedBefore
  <2>3. Before(0)' = wire' /\ EndedBefore(0)' /\ Before(0) = wire
    BY DEF Before, EndedBefore
  <2> QED BY <1>0, <1>6, <2>1, <2>2, <2>3 DEF Transmit, Follows
<1>7. dmaBd' + (n - 1) \in {txBdCurrent', txBdCurrent' + TxBdNumber}
  <2>1. dmaBd' = IF dmaBd + 1 = TxBdNumber THEN 0 ELSE dmaBd + 1
    BY DEF Transmit, NextBd
  <2>2. dmaBd \in Nat /\ dmaBd < TxBdNumber
    BY <1>0 DEF Bds
  <2>3. /\ dmaBd + n \in {txBdCurrent, txBdCurrent + TxBdNumber}
        /\ txBdCurrent' = txBdCurrent
    BY <1>0 DEF Flight
  <2> QED BY <1>0, <1>1, <2>1, <2>2, <2>3 DEF Bds
<1>8. \A k \in 0 .. TxBdNumber - 1 : ring'[Slot(k)'].ready <=> k < n - 1
  <2> SUFFICES ASSUME NEW k \in 0 .. TxBdNumber - 1
               PROVE  ring'[Slot(k)'].ready <=> k < n - 1
    OBVIOUS
  <2>1. CASE k = TxBdNumber - 1
    BY <1>0, <1>2, <1>3, <2>1
  <2>2. CASE k # TxBdNumber - 1
    BY <1>0, <1>2, <1>3, <2>2 DEF Flight
  <2> QED BY <2>1, <2>2
<1>9. \A k \in 0 .. n - 2 :
         /\ Follows(ring[Slot(k)].frame, k)'
         /\ ~ring'[Slot(k)'].last => ring'[Slot(k)'].frame = frame /\ size > 1
  <2> SUFFICES ASSUME NEW k \in 0 .. n - 2
               PROVE  /\ Follows(ring[Slot(k)].frame, k)'
                      /\ ~ring'[Slot(k)'].last =>
                            ring'[Slot(k)'].frame = frame /\ size > 1
    OBVIOUS
  <2>1. ring'[Slot(k)'] = ring[Slot(k + 1)]
    BY <1>0, <1>2, <1>3
  <2>2. /\ Follows(ring[Slot(k + 1)].frame, k + 1)
        /\ ~ring[Slot(k + 1)].last => ring[Slot(k + 1)].frame = frame /\ size > 1
    BY <1>0 DEF Flight
  <2>3. \A f : Follows(f, k + 1) => Follows(f, k)'
    BY <1>0, <1>5, <1>6
  <2> QED BY <2>1, <2>2, <2>3
<1>10. pc = "idle" => frame = Before(n - 1)' /\ (n - 1 = 0 \/ size = 1)
  <2> SUFFICES ASSUME pc = "idle"
               PROVE  frame = Before(n - 1)' /\ (n - 1 = 0 \/ size = 1)
    OBVIOUS
  <2>1. frame = Before(n) /\ size = 1
    BY <1>0, <1>1 DEF Flight
  <2>2. CASE n = 1
    <3>1. ring[dmaBd].last
      BY <1>0, <1>1, <2>1 DEF Flight
    <3>2. Before(1) = ring[dmaBd].frame /\ Before(0)' = wire'
      BY <1>1 DEF Before
    <3> QED BY <2>1, <2>2, <3>1, <3>2 DEF Transmit
  <2>3. CASE n # 1
    BY <1>0, <1>1, <1>4, <2>1, <2>3
  <2> QED BY <2>2, <2>3
<1>11. pc # "idle" => Follows(frame, n - 1)'
  <2> SUFFICES ASSUME pc # "idle" PROVE Follows(frame, n - 1)'
    OBVIOUS
  <2>1. Follows(frame, n)
    BY DEF Flight
  <2>2. CASE n = 1
    BY <1>0, <1>6, <2>1, <2>2
  <2>3. CASE n # 1
    <3>1. n - 1 \in 1 .. n - 1 /\ n - 1 + 1 = n
      BY <1>0, <1>1, <2>3
    <3>2. Follows(frame, n - 1)' <=> Follows(frame, n - 1 + 1)
      BY <1>0, <1>5, <3>1
    <3> QED BY <2>1, <3>1, <3>2
  <2> QED BY <2>2, <2>3
<1> QED BY <1>0, <1>1, <1>7, <1>8, <1>9, <1>10, <1>11 DEF Flight

LEMMA OrderInit == Init => OrderInv
<1> SUFFICES ASSUME Init PROVE OrderInv
  OBVIOUS
<1> USE EnetTxAssumption
<1>1. \A k \in 0 .. TxBdNumber - 1 : Slot(k) \in Bds
  BY DEF Init, Slot, Bds
<1>2. Flight(0)
  BY <1>1 DEF Init, Flight, Before
<1> QED BY <1>2 DEF Init, OrderInv, LoopInv

LEMMA OrderStep == TypeOK /\ OrderInv /\ [Next]_vars => OrderInv'
<1> SUFFICES ASSUME TypeOK, OrderInv, [Next]_vars PROVE OrderInv'
  OBVIOUS
<1> USE EnetTxAssumption
<1>0. LoopInv /\ size \in Nat \ {0} /\ part \in 0 .. size
  BY DEF OrderInv, TypeOK
<1>1. PICK n \in 0 .. TxBdNumber : Flight(n)
  BY DEF OrderInv
<1>2. CASE LinkOutput
  <2>1. /\ pc = "idle" /\ pc' = "send" /\ frame' = NextFrame(frame)
        /\ size' \in Sizes
        /\ UNCHANGED <<ring, txBdCurrent, dmaBd, wire>>
    BY <1>2 DEF LinkOutput, driverVars, dmaVars
  <2>2. frame = Before(n) /\ (n = 0 \/ size = 1)
    BY <1>1, <2>1 DEF Flight
  <2>3. /\ \A k \in 0 .. TxBdNumber : Slot(k)' = Slot(k)
        /\ \A k \in 0 .. TxBdNumber : Before(k)' = Before(k)
        /\ \A k \in 0 .. TxBdNumber : EndedBefore(k)' = EndedBefore(k)
    BY <2>1 DEF Slot, Before, EndedBefore
  <2>4. \A k \in 0 .. n - 1 : /\ ring[Slot(k)].last
                              /\ Follows(ring[Slot(k)].frame, k)'
    BY <1>1, <2>1, <2>2, <2>3 DEF Flight, Follows
  <2>5. EndedBefore(n)
    BY <2>4 DEF EndedBefore
  <2>6. Follows(frame, n)'
    BY <2>1, <2>2, <2>3, <2>5 DEF Follows, NextFrame
  <2>7. Flight(n)'
    BY <1>1, <2>1, <2>3, <2>4, <2>6 DEF Flight
  <2> QED BY <2>1, <2>7 DEF OrderInv, LoopInv
<1>3. CASE SendFrame
  <2>1. /\ pc = "send" /\ part' = 0
        /\ UNCHANGED <<dmaBd, wire, frame, size>>
    BY <1>3 DEF SendFrame, dmaVars
  <2>2. CASE ring[txBdCurrent].ready \/ size # 1
    <3>1. UNCHANGED <<ring, txBdCurrent>> /\ pc' \in {"busy", "parts"}
      BY <1>3, <2>2 DEF SendFrame, driverVars
    <3>2. LoopInv'
      BY <1>0, <1>3, <2>1, <3>1 DEF SendFrame, LoopInv
    <3> QED BY <1>1, <2>1, <3>1, <3>2, FlightKept DEF OrderInv
  <2>3. CASE ~(ring[txBdCurrent].ready \/ size # 1)
    <3>1. ~ring[txBdCurrent].ready /\ size = 1 /\ pc' = "idle" /\ Fill(TRUE)
      BY <1>3, <2>3 DEF SendFrame
    <3>2. n + 1 \in 0 .. TxBdNumber /\ Flight(n + 1)'
      BY <1>1, <2>1, <3>1, FlightFilled
    <3> QED BY <3>1, <3>2 DEF OrderInv, LoopInv
  <2> QED BY <2>2, <2>3
<1>4. CASE SendPart
  <2>1. /\ pc = "parts" /\ size > 1 /\ part < size
        /\ part = 0 => ~ring[txBdCurrent].ready
        /\ UNCHANGED <<dmaBd, wire, frame, size>>
    BY <1>0, <1>4 DEF SendPart, LoopInv, dmaVars
  <2>2. CASE part > 0 /\ ring[txBdCurrent].ready
    <3>1. pc' = "busy" /\ UNCHANGED <<ring, txBdCurrent>>
      BY <1>4, <2>2 DEF SendPart, driverVars
    <3> QED BY <1>1, <2>1, <3>1, FlightKept DEF OrderInv, LoopInv
  <2>3. CASE ~(part > 0 /\ ring[txBdCurrent].ready)
    <3>1. /\ ~ring[txBdCurrent].ready /\ part' = part + 1
          /\ Fill(part' = size)
          /\ pc' = IF part' = size THEN "busy" ELSE "parts"
      BY <1>0, <1>4, <2>1, <2>3 DEF SendPart
    <3>2. n + 1 \in 0 .. TxBdNumber /\ Flight(n + 1)'
      <4>1. pc' # "idle" /\ (part' = size) \in BOOLEAN
        BY <3>1
      <4>2. PICK last \in BOOLEAN : Fill(last)
        BY <3>1, <4>1
      <4> QED BY <1>0, <1>1, <2>1, <3>1, <4>1, <4>2, FlightFilled
    <3>3. LoopInv'
      BY <1>0, <2>1, <3>1 DEF LoopInv
    <3> QED BY <3>2, <3>3 DEF OrderInv
  <2> QED BY <2>2, <2>3
<1>5. CASE Transmit
  <2>1. n - 1 \in 0 .. TxBdNumber /\ Flight(n - 1)'
    BY <1>1, <1>5, FlightTransmitted
  <2>2. LoopInv'
    <3>1. UNCHANGED <<txBdCurrent, pc, part, size>>
          /\ (ring'[txBdCurrent].ready => ring[txBdCurrent].ready)
      BY <1>5 DEF Transmit, TypeOK
    <3> QED BY <1>0, <3>1 DEF LoopInv
  <2> QED BY <2>1, <2>2 DEF OrderInv
<1>6. CASE \/ WaitBits \/ TransmitIRQ \/ Callback \/ DaemonReceive \/ SetBits
           \/ UNCHANGED vars
  <2>1. /\ UNCHANGED <<ring, txBdCurrent, dmaBd, wire, frame, size, part>>
        /\ pc' = "idle" <=> pc = "idle"
        /\ pc' = "parts" => pc = "parts"
    BY <1>6 DEF WaitBits, TransmitIRQ, Callback, DaemonReceive, SetBits,
       vars, driverVars, dmaVars
  <2> QED BY <1>0, <1>1, <2>1, FlightKept DEF OrderInv, LoopInv
<1> QED BY <1>2, <1>3, <1>4, <1>5, <1>6 DEF Next

\* The controller sends the frames in the order linkoutput was given them, each
\* once: no descriptor is overwritten before it is sent, however the sender and
\* the controller chase each other round the ring; only a frame of several
\* descriptors goes out again.
THEOREM FramesInOrder == Spec => NoneLostNorSwapped
<1>1. TypeOK /\ OrderInv /\ [Next]_vars =>
         [FrameSent => \/ ring[dmaBd].frame = NextFrame(wire)
                       \/ /\ ring[dmaBd].frame = wire
                          /\ wire = frame /\ size > 1]_vars
  <2> SUFFICES ASSUME TypeOK, OrderInv, FrameSent
               PROVE  \/ ring[dmaBd].frame = NextFrame(wire)
                      \/ /\ ring[dmaBd].frame = wire
                         /\ wire = frame /\ size > 1
    OBVIOUS
  <2>1. PICK n \in 0 .. TxBdNumber : Flight(n)
    BY DEF OrderInv
  <2>2. Slot(0) = dmaBd
    BY EnetTxAssumption DEF Slot, Bds, TypeOK
  <2>3. 0 < n
    BY <2>1, <2>2, EnetTxAssumption DEF Flight, FrameSent
  <2>4. Follows(ring[dmaBd].frame, 0)
    BY <2>1, <2>2, <2>3 DEF Flight
  <2> QED BY <2>4 DEF Follows, Before
<1> QED
  BY OrderInit, OrderStep, TypeCorrect, <1>1, PTL DEF Spec, NoneLostNorSwapped

-----------------------------------------------------------------------------
(* The ring is a mailbox.                                                    *)

\* Complete frames are counted by a finite set, and queued in a sequence.
QueuedShape ==
    /\ IsFiniteSet(Complete) /\ Cardinality(Complete) \in Nat
    /\ \A b : IsFiniteSet(UpTo(b)) /\ Cardinality(UpTo(b)) \in Nat
    /\ Queued \in Seq({Queued[i] : i \in 1 .. Cardinality(Complete)})
    /\ Len(Queued) = Cardinality(Complete)

LEMMA QueuedIsSeq == QueuedShape
<1>1. IsFiniteSet(Bds)
  BY FS_Interval, EnetTxAssumption DEF Bds
<1>2. IsFiniteSet(Complete)
  BY <1>1, FS_Subset DEF Complete
<1>3. \A b : IsFiniteSet(UpTo(b))
  BY <1>2, FS_Subset DEF UpTo
<1>4. /\ Cardinality(Complete) \in Nat
      /\ \A b : Cardinality(UpTo(b)) \in Nat
  BY <1>2, <1>3, FS_CardinalityType
<1> DEFINE c == Cardinality(Complete)
           S == {Queued[i] : i \in 1 .. c}
<1>5. Queued \in [1 .. c -> S]
  BY DEF Queued
<1>6. Queued \in Seq(S) /\ Len(Queued) = c
  <2> HIDE DEF S
  <2>1. Queued \in Seq(S)
    BY <1>4, <1>5, SeqDef
  <2> QED BY <1>4, <1>5, <2>1, LenProperties
<1> QED BY <1>2, <1>3, <1>4, <1>6 DEF QueuedShape

\* The queue stays while the complete frames and their order do.
LEMMA QueuedKept ==
    ASSUME Complete' = Complete,
           \A b \in Complete : ring'[b].frame = ring[b].frame /\ UpTo(b)' = UpTo(b)
    PROVE  Queued' = Queued
<1>1. ASSUME NEW i \in Nat PROVE Nth(i)' = Nth(i)
  BY DEF Nth
<1>2. Cardinality(Complete)' = Cardinality(Complete)
  OBVIOUS
<1>3. Cardinality(Complete) \in Nat
  BY QueuedIsSeq DEF QueuedShape
<1> QED BY <1>1, <1>2, <1>3 DEF Queued

\* A frame that is completed behind all others is appended.
LEMMA QueuedAppended ==
    ASSUME NEW b, b \notin Complete, Complete' = Complete \cup {b},
           \A d \in Complete : ring'[d].frame = ring[d].frame /\ UpTo(d)' = UpTo(d),
           UpTo(b)' = Complete \cup {b}
    PROVE  Queued' = Append(Queued, ring'[b].frame)
<1>1. QueuedShape /\ QueuedShape'
  BY QueuedIsSeq, PTL
<1>c. PICK c \in Nat : c = Cardinality(Complete)
  BY <1>1 DEF QueuedShape
<1>v. PICK v : v = ring'[b].frame
  OBVIOUS
<1> DEFINE S == {Queued[i] : i \in 1 .. c}
           T == {Queued'[i] : i \in 1 .. c + 1}
<1>2. c = Cardinality(Complete) /\ Cardinality(Complete)' = c + 1
  BY <1>1, <1>c, FS_AddElement DEF QueuedShape
<1>3. \A d \in Complete : Cardinality(UpTo(d)) \in Nat /\ Cardinality(UpTo(d)) <= c
  <2>1. \A d \in Complete : UpTo(d) \in SUBSET Complete
    BY DEF UpTo
  <2> QED BY <1>1, <1>2, <2>1, FS_Subset DEF QueuedShape
<1>4. Cardinality(UpTo(b))' = c + 1
  BY <1>1, <1>2, FS_AddElement DEF QueuedShape
<1>5. ASSUME NEW i \in 1 .. c PROVE Nth(i)' = Nth(i)
  <2>1. c + 1 # i
    OBVIOUS
  <2>2. {d \in Complete : Cardinality(UpTo(d)) = i}'
          = {d \in Complete : Cardinality(UpTo(d)) = i}
    BY <2>1, <1>4
  <2> QED BY <2>2 DEF Nth
<1>6. Nth(c + 1)' = {v}
  <2>1. \A d \in Complete : Cardinality(UpTo(d)) # c + 1
    BY <1>3
  <2>2. {d \in Complete : Cardinality(UpTo(d)) = c + 1}' = {b}
    BY <2>1, <1>4
  <2> QED BY <2>2, <1>v DEF Nth
<1>7. \A i \in 1 .. c : Queued'[i] = Queued[i]
  BY <1>2, <1>5 DEF Queued
<1>8. Queued'[c + 1] = v
  <2>1. Queued'[c + 1] = CHOOSE f \in Nth(c + 1)' : TRUE
    BY <1>2 DEF Queued
  <2>2. (CHOOSE f \in {v} : TRUE) = v
    OBVIOUS
  <2> QED BY <2>1, <2>2, <1>6
<1>9. Append(Queued, v) = Queued'
  <2>0. Queued \in Seq(S) /\ Queued' \in Seq(T)
    BY <1>1, <1>2 DEF QueuedShape
  <2>1. Queued \in Seq(S \cup T \cup {v}) /\ Len(Queued) = c
    <3>1. S \subseteq S \cup T \cup {v}
      OBVIOUS
    <3> HIDE DEF S, T
    <3> QED BY <1>1, <1>2, <2>0, <3>1, SeqMonotonic DEF QueuedShape
  <2>2. Queued' \in Seq(S \cup T \cup {v}) /\ Len(Queued') = c + 1
    <3>1. T \subseteq S \cup T \cup {v}
      OBVIOUS
    <3> HIDE DEF S, T
    <3> QED BY <1>1, <1>2, <2>0, <3>1, SeqMonotonic DEF QueuedShape
  <2> HIDE DEF S, T
  <2>3. /\ Append(Queued, v) \in Seq(S \cup T \cup {v})
        /\ Len(Append(Queued, v)) = c + 1
        /\ \A i \in 1 .. c : Append(Queued, v)[i] = Queued[i]
        /\ Append(Queued, v)[c + 1] = v
    BY <2>1, AppendProperties
  <2>4. \A i \in 1 .. c + 1 : Append(Queued, v)[i] = Queued'[i]
    BY <1>2, <1>7, <1>8, <2>3
  <2> QED BY <2>2, <2>3, <2>4, SeqEqual
<1> QED BY <1>9, <1>v

\* The first is taken.
LEMMA QueuedTaken ==
    ASSUME NEW b \in Complete, Complete' = Complete \ {b}, UpTo(b) = {b},
           \A d \in Complete \ {b} : /\ ring'[d].frame = ring[d].frame
                                     /\ b \in UpTo(d) /\ UpTo(d)' = UpTo(d) \ {b}
    PROVE  Queued # <<>> /\ Queued' = Tail(Queued)
<1>1. QueuedShape /\ QueuedShape'
  BY QueuedIsSeq, PTL
<1>c. PICK c \in Nat : c = Cardinality(Complete)
  BY <1>1 DEF QueuedShape
<1> DEFINE S == {Queued[i] : i \in 1 .. c}
           T == {Queued'[i] : i \in 1 .. c - 1}
<1>2. c # 0 /\ c = Cardinality(Complete) /\ Cardinality(Complete)' = c - 1
  <2>1. c # 0
    BY <1>1, <1>c, FS_EmptySet DEF QueuedShape
  <2> QED BY <1>1, <1>c, <2>1, FS_RemoveElement DEF QueuedShape
<1>3. \A d \in Complete \ {b} : /\ Cardinality(UpTo(d)) \in Nat
                                /\ Cardinality(UpTo(d))' = Cardinality(UpTo(d)) - 1
  BY <1>1, FS_RemoveElement DEF QueuedShape
<1>4. Cardinality(UpTo(b)) = 1
  BY FS_Singleton
<1>5. ASSUME NEW i \in 1 .. c - 1 PROVE Nth(i)' = Nth(i + 1)
  <2>1. \A d \in Complete \ {b} : Cardinality(UpTo(d))' = i <=> Cardinality(UpTo(d)) = i + 1
    BY <1>2, <1>3
  <2>2. Cardinality(UpTo(b)) # i + 1
    BY <1>2, <1>4
  <2> QED BY <2>1, <2>2 DEF Nth
<1>6. \A i \in 1 .. c - 1 : Queued'[i] = Queued[i + 1]
  <2> SUFFICES ASSUME NEW i \in 1 .. c - 1 PROVE Queued'[i] = Queued[i + 1]
    OBVIOUS
  <2>1. Queued'[i] = CHOOSE f \in Nth(i)' : TRUE
    BY <1>2 DEF Queued
  <2>2. Queued[i + 1] = CHOOSE f \in Nth(i + 1) : TRUE
    BY <1>2 DEF Queued
  <2> QED BY <2>1, <2>2, <1>5
<1>7. /\ Queued \in Seq(S \cup T) /\ Len(Queued) = c
      /\ Queued' \in Seq(S \cup T) /\ Len(Queued') = c - 1
  BY <1>1, <1>2, SeqMonotonic DEF QueuedShape
<1> HIDE DEF S, T
<1>8. Queued # <<>>
  BY <1>2, <1>7, EmptySeq
<1>9. /\ Tail(Queued) \in Seq(S \cup T) /\ Len(Tail(Queued)) = c - 1
      /\ \A i \in 1 .. c - 1 : Tail(Queued)[i] = Queued[i + 1]
  BY <1>7, <1>8, HeadTailProperties
<1>10. \A i \in 1 .. c - 1 : Queued'[i] = Tail(Queued)[i]
  BY <1>6, <1>9
<1> QED BY <1>7, <1>8, <1>9, <1>10, SeqEqual

\* The descriptors in their order from the controller's.
LEMMA AheadIs ==
    ASSUME TypeOK
    PROVE  /\ \A d \in Bds : Ahead(d) \in 0 .. TxBdNumber - 1 /\ Slot(Ahead(d)) = d
           /\ \A d, e \in Bds : Ahead(d) = Ahead(e) => d = e
           /\ Ahead(dmaBd) = 0
BY EnetTxAssumption DEF TypeOK, Bds, Ahead, Slot

LEMMA AheadInFlight ==
    ASSUME TypeOK, NEW n \in 0 .. TxBdNumber, Flight(n)
    PROVE  /\ \A d \in Bds : ring[d].ready <=> Ahead(d) < n
           /\ n < TxBdNumber => Ahead(txBdCurrent) = n
<1>1. \A d \in Bds : ring[d].ready <=> Ahead(d) < n
  BY AheadIs DEF Flight
<1>2. n < TxBdNumber => Ahead(txBdCurrent) = n
  BY EnetTxAssumption DEF TypeOK, Bds, Ahead, Flight
<1> QED BY <1>1, <1>2

\* What the driver hands over goes behind the rest.
LEMMA FillAppends ==
    ASSUME TypeOK, OrderInv, NEW last \in BOOLEAN, Fill(last),
           ~ring[txBdCurrent].ready, dmaBd' = dmaBd
    PROVE  /\ Cardinality(Complete) < TxBdNumber
           /\ last => Queued' = Append(Queued, frame)
           /\ ~last => Queued' = Queued
<1> USE EnetTxAssumption
<1>0. PICK b \in Bds : b = txBdCurrent
  BY DEF TypeOK
<1>1. PICK n \in 0 .. TxBdNumber : Flight(n)
  BY DEF OrderInv
<1>2. b \notin Complete
  BY <1>0 DEF Complete
<1>3. \A d \in Bds : d # b /\ ring[d].ready => Ahead(d) < Ahead(b)
  <2>1. n < TxBdNumber
    BY <1>0, <1>1, AheadIs, AheadInFlight
  <2> QED BY <1>0, <1>1, <2>1, AheadInFlight
<1>4. /\ ring'[b] = [ready |-> TRUE, last |-> last, frame |-> frame]
      /\ \A d \in Bds \ {b} : ring'[d] = ring[d]
  BY <1>0 DEF Fill, TypeOK
<1>5. \A d : Ahead(d)' = Ahead(d)
  BY DEF Ahead
<1>6. /\ last => Complete' = Complete \cup {b}
      /\ ~last => Complete' = Complete
  BY <1>2, <1>4 DEF Complete
<1>7. \A d \in Complete : d \in Bds \ {b} /\ ring[d].ready
  BY <1>2 DEF Complete
<1>8. \A d \in Complete : Ahead(d) < Ahead(b) /\ Ahead(d) \in Nat /\ Ahead(b) \in Nat
  BY <1>2, <1>3, <1>7, AheadIs
<1>9. \A d \in Complete : ring'[d].frame = ring[d].frame /\ UpTo(d)' = UpTo(d)
  <2> SUFFICES ASSUME NEW d \in Complete
               PROVE  ring'[d].frame = ring[d].frame /\ UpTo(d)' = UpTo(d)
    OBVIOUS
  <2>1. ring'[d] = ring[d]
    BY <1>4, <1>7
  <2>2. ~(Ahead(b) <= Ahead(d))
    BY <1>8
  <2> QED BY <1>5, <1>6, <2>1, <2>2 DEF UpTo
<1>10. ASSUME last PROVE Queued' = Append(Queued, frame)
  <2>1. UpTo(b)' = Complete \cup {b}
    <3>1. UpTo(b)' = {d \in Complete \cup {b} : Ahead(d) <= Ahead(b)}
      BY <1>5, <1>6, <1>10 DEF UpTo
    <3>2. Ahead(b) <= Ahead(b)
      BY <1>2, AheadIs
    <3> QED BY <1>8, <3>1, <3>2
  <2>2. Queued' = Append(Queued, ring'[b].frame)
    BY <1>2, <1>6, <1>9, <1>10, <2>1, QueuedAppended
  <2> QED BY <1>4, <1>10, <2>2
<1>11. ASSUME ~last PROVE Queued' = Queued
  BY <1>6, <1>9, <1>11, QueuedKept
<1>12. Cardinality(Complete) < TxBdNumber
  <2>1. IsFiniteSet(Bds) /\ Cardinality(Bds) = TxBdNumber
    BY FS_Interval DEF Bds
  <2>2. Complete \in SUBSET Bds /\ Complete # Bds
    BY <1>2 DEF Complete
  <2>3. Cardinality(Complete) <= TxBdNumber /\ Cardinality(Complete) # TxBdNumber
    BY <2>1, <2>2, FS_Subset
  <2>4. Cardinality(Complete) \in Nat
    BY QueuedIsSeq DEF QueuedShape
  <2> QED BY <2>3, <2>4
<1> QED BY <1>10, <1>11, <1>12

\* The controller takes what is first.
LEMMA TransmitTakes ==
    ASSUME TypeOK, OrderInv, Transmit
    PROVE  IF ring[dmaBd].last THEN Queued # <<>> /\ Queued' = Tail(Queued)
                               ELSE Queued' = Queued
<1> USE EnetTxAssumption
<1>0. PICK b \in Bds : b = dmaBd
  BY DEF TypeOK
<1>1. ring[b].ready
  BY <1>0 DEF Transmit
<1>2. ~ring'[b].ready /\ \A d \in Bds \ {b} : ring'[d] = ring[d]
  BY <1>0 DEF TypeOK, Transmit
<1>3. Complete' = Complete \ {b} /\ (b \in Complete <=> ring[b].last)
  BY <1>1, <1>2 DEF Complete
<1>4. \A d \in Bds \ {b} : Ahead(d)' = Ahead(d) - 1 /\ Ahead(d) > 0
  BY <1>0 DEF Ahead, Transmit, NextBd, Bds
<1>5. \A d \in Complete : d \in Bds
  BY DEF Complete
<1>6. Ahead(b) = 0 /\ \A d \in Bds : Ahead(d) \in Nat
  BY <1>0, AheadIs
<1>7. ASSUME NEW d \in Complete \ {b}
      PROVE  /\ ring'[d].frame = ring[d].frame
             /\ UpTo(d)' = UpTo(d) \ {b}
             /\ b \in Complete => b \in UpTo(d)
  <2>1. \A e \in Complete \ {b} : (Ahead(e)' <= Ahead(d)') <=> Ahead(e) <= Ahead(d)
    BY <1>4, <1>5, <1>6
  <2>2. UpTo(d)' = UpTo(d) \ {b}
    BY <1>3, <2>1 DEF UpTo
  <2>3. Ahead(b) <= Ahead(d)
    BY <1>5, <1>6
  <2> QED BY <1>2, <1>5, <2>2, <2>3 DEF UpTo
<1>8. CASE ring[b].last
  <2>1. UpTo(b) = {b}
    <3>1. \A d \in Complete \ {b} : ~(Ahead(d) <= Ahead(b))
      BY <1>4, <1>5, <1>6
    <3>2. b \in Complete /\ Ahead(b) <= Ahead(b)
      BY <1>3, <1>6, <1>8
    <3> QED BY <3>1, <3>2 DEF UpTo
  <2>2. Queued # <<>> /\ Queued' = Tail(Queued)
    BY <1>3, <1>7, <1>8, <2>1, QueuedTaken
  <2> QED BY <1>0, <1>8, <2>2
<1>9. CASE ~ring[b].last
  <2>1. Complete' = Complete /\ b \notin Complete
    BY <1>3, <1>9
  <2>2. \A d \in Complete : ring'[d].frame = ring[d].frame /\ UpTo(d)' = UpTo(d)
    BY <1>7, <2>1 DEF UpTo
  <2>3. Queued' = Queued
    BY <2>1, <2>2, QueuedKept
  <2> QED BY <1>0, <1>9, <2>3
<1> QED BY <1>0, <1>8, <1>9

\* The mailbox's view of the four things a step may be: a post begins, ends or
\* goes on, or the controller takes a frame.
LEMMA PostBegins ==
    ASSUME ~Posting, Posting', Queued' = Queued, frame' \in 0 .. Frames - 1
    PROVE  Mbox!Next
<1>1. Mbox!Begin("sender")
  BY DEF Mbox!Begin
<1> QED BY <1>1 DEF Mbox!Next

LEMMA PostEnds ==
    ASSUME Posting, ~Posting', frame' = frame, Queued' = Append(Queued, frame),
           Cardinality(Complete) < TxBdNumber
    PROVE  Mbox!Next
<1>1. Len(Queued) = Cardinality(Complete)
  BY QueuedIsSeq DEF QueuedShape
<1>2. Mbox!Send("sender")
  BY <1>1 DEF Mbox!Send, Mbox!Return
<1> QED BY <1>2 DEF Mbox!Next

LEMMA PostGoesOn ==
    ASSUME Posting' <=> Posting, frame' = frame, Queued' = Queued
    PROVE  UNCHANGED Mbox!vars
BY DEF Mbox!vars

LEMMA FrameTaken ==
    ASSUME Posting' <=> Posting, frame' = frame, Queued # <<>>, Queued' = Tail(Queued)
    PROVE  Mbox!Next
<1>1. Mbox!ReceiveFromISR
  BY DEF Mbox!ReceiveFromISR
<1> QED BY <1>1 DEF Mbox!Next

\* Nothing is queued or taken while the ring and the controller stand still.
LEMMA RingKept ==
    ASSUME UNCHANGED <<ring, dmaBd>>
    PROVE  Queued' = Queued
BY DEF Queued, Complete, Nth, UpTo, Ahead

LEMMA MailInit == Init => Mbox!Init
<1> SUFFICES ASSUME Init PROVE Mbox!Init
  OBVIOUS
<1>1. Complete = {}
  BY DEF Init, Complete
<1>2. Queued = <<>>
  BY <1>1, FS_EmptySet DEF Queued
<1> QED BY <1>2 DEF Init, Mbox!Init, Posting

LEMMA MailStep ==
    ASSUME TypeOK, TypeOK', OrderInv, [Next]_vars
    PROVE  [Mbox!Next]_(Mbox!vars)
<1>0. LoopInv /\ size \in Nat \ {0} /\ part \in 0 .. size /\ frame' \in 0 .. Frames - 1
  BY EnetTxAssumption DEF TypeOK, OrderInv
<1>1. CASE LinkOutput
  <2>1. ~Posting /\ Posting' /\ UNCHANGED <<ring, dmaBd>>
    BY <1>1 DEF LinkOutput, Posting, Repeating, driverVars, dmaVars
  <2> QED BY <1>0, <2>1, PostBegins, RingKept
<1>2. CASE SendFrame
  <2>1. Posting /\ UNCHANGED <<dmaBd, frame, size>> /\ part' = 0
    BY <1>2 DEF SendFrame, Posting, Repeating, dmaVars
  <2>2. CASE ring[txBdCurrent].ready \/ size # 1
    <3>1. ring' = ring /\ pc' \in {"busy", "parts"}
      BY <1>2, <2>2 DEF SendFrame, driverVars
    <3>2. Posting'
      BY <1>0, <2>1, <3>1 DEF Posting, Repeating
    <3> QED BY <2>1, <3>1, <3>2, PostGoesOn, RingKept
  <2>3. CASE ~(ring[txBdCurrent].ready \/ size # 1)
    <3>1. ~ring[txBdCurrent].ready /\ pc' = "idle" /\ Fill(TRUE)
      BY <1>2, <2>3 DEF SendFrame
    <3>2. ~Posting'
      BY <3>1 DEF Posting
    <3> QED BY <2>1, <3>1, <3>2, FillAppends, PostEnds
  <2> QED BY <2>2, <2>3
<1>3. CASE SendPart
  <2>1. /\ Posting /\ part < size /\ size > 1 /\ UNCHANGED <<dmaBd, frame, size>>
        /\ part = 0 => ~ring[txBdCurrent].ready
    BY <1>0, <1>3 DEF SendPart, LoopInv, Posting, Repeating, dmaVars
  <2>2. CASE part > 0 /\ ring[txBdCurrent].ready
    <3>1. ring' = ring /\ pc' = "busy" /\ part' = part
      BY <1>3, <2>2 DEF SendPart, driverVars
    <3>2. Posting'
      BY <1>0, <2>1, <3>1 DEF Posting, Repeating
    <3> QED BY <2>1, <3>1, <3>2, PostGoesOn, RingKept
  <2>3. CASE ~(part > 0 /\ ring[txBdCurrent].ready)
    <3>1. /\ ~ring[txBdCurrent].ready /\ part' = part + 1 /\ Fill(part' = size)
          /\ pc' = IF part' = size THEN "busy" ELSE "parts"
      BY <1>0, <1>3, <2>1, <2>3 DEF SendPart
    <3>2. CASE part' = size
      <4>1. Fill(TRUE) /\ pc' = "busy"
        BY <3>1, <3>2
      <4>2. ~Posting'
        BY <2>1, <3>2, <4>1 DEF Posting, Repeating
      <4> QED BY <2>1, <3>1, <4>1, <4>2, FillAppends, PostEnds
    <3>3. CASE part' # size
      <4>1. Fill(FALSE) /\ pc' = "parts"
        BY <3>1, <3>3
      <4>2. Posting'
        BY <4>1 DEF Posting, Repeating
      <4> QED BY <2>1, <3>1, <4>1, <4>2, FillAppends, PostGoesOn
    <3> QED BY <3>2, <3>3
  <2> QED BY <2>2, <2>3
<1>4. CASE Transmit
  <2>1. (Posting' <=> Posting) /\ frame' = frame
    BY <1>4 DEF Transmit, Posting, Repeating
  <2> QED BY <1>4, <2>1, TransmitTakes, PostGoesOn, FrameTaken
<1>5. CASE WaitBits \/ SetBits
  <2>1. /\ UNCHANGED <<ring, dmaBd, frame, size, part>>
        /\ \/ pc' = pc
           \/ pc \in {"busy", "blocked"} /\ pc' \in {"send", "blocked"}
    BY <1>5 DEF WaitBits, SetBits, driverVars, dmaVars
  <2>2. (Posting' <=> Posting) \/ (~Posting /\ Posting')
    BY <2>1 DEF Posting, Repeating
  <2> QED BY <1>0, <2>1, <2>2, RingKept, PostBegins, PostGoesOn
<1>6. CASE TransmitIRQ \/ Callback \/ DaemonReceive \/ UNCHANGED vars
  <2>1. UNCHANGED <<ring, dmaBd, pc, frame, size, part>>
    BY <1>6 DEF TransmitIRQ, Callback, DaemonReceive, vars, driverVars, dmaVars
  <2>2. Posting' <=> Posting
    BY <2>1 DEF Posting, Repeating
  <2> QED BY <2>1, <2>2, RingKept, PostGoesOn
<1> QED BY <1>1, <1>2, <1>3, <1>4, <1>5, <1>6 DEF Next

\* To the sender the ring is a mailbox of whole frames, for every size of the
\* ring and every mix of frames of one and of several descriptors: each call
\* of ENET_SendFrame that completes a frame posts it once, behind all others
\* and into a ring with room, and the controller takes the oldest.
THEOREM RingIsMailbox == Spec => MailboxSpec
<1> QED
  BY OrderInit, OrderStep, TypeCorrect, MailInit, MailStep, PTL
     DEF Spec, MailboxSpec, Mbox!Spec
=============================================================================
