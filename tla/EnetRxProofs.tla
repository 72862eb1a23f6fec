----------------------------- MODULE EnetRxProofs -----------------------------
(* For any ring and any pools: the receive path loses no buffer, and with    *)
(* one descriptor to a frame it overlooks no frame.                          *)
EXTENDS EnetRx, SequenceTheorems, TLAPS

USE EnetRxAssumption DEF EnetRxAssumption

\* A sum of naturals bounds its first term.
LEMMA FirstTerm ==
    ASSUME NEW a \in Nat, NEW b \in Nat, NEW c \in Nat, NEW d \in Nat,
           NEW total \in Nat, a + b + c + d = total
    PROVE  a \in 0 .. total
OBVIOUS

LEMMA AppendType ==
    ASSUME NEW S, NEW s \in Seq(S), NEW e \in S
    PROVE  Append(s, e) \in Seq(S) /\ Len(Append(s, e)) = Len(s) + 1
OBVIOUS

Descriptors == [empty : BOOLEAN, length : {0, 1}, last : BOOLEAN,
                error : BOOLEAN, frame : 0 .. MaxFrame]

\* What the driver's half of the ring operations does to the ring's types.
LEMMA ReadFrameType ==
    ASSUME ring \in [Bds -> Descriptors], rxBdCurrent \in Bds, ReadFrame
    PROVE  /\ ring' \in [Bds -> Descriptors] /\ rxBdCurrent' \in Bds
           /\ \A i \in Bds : \/ ring'[i] = ring[i]
                             \/ ring'[i].empty /\ ~ring'[i].last
<1>1. PICK n \in Bds :
        /\ ring' = [i \in Bds |-> IF \E k \in 0 .. n : i = After(k)
                                  THEN [ring[i] EXCEPT !.empty = TRUE,
                                           !.last = FALSE, !.error = FALSE]
                                  ELSE ring[i]]
        /\ rxBdCurrent' = After(n + 1)
  BY DEF ReadFrame
<1>2. rxBdCurrent' \in Bds
  <2>1. /\ rxBdCurrent \in Nat /\ rxBdCurrent < RxBdNumber
        /\ n \in Nat /\ n < RxBdNumber /\ RxBdNumber \in Nat
    BY DEF Bds
  <2>2. rxBdCurrent' = IF rxBdCurrent + (n + 1) < RxBdNumber THEN rxBdCurrent + (n + 1)
                       ELSE rxBdCurrent + (n + 1) - RxBdNumber
    BY <1>1 DEF After
  <2>3. rxBdCurrent' \in Nat /\ rxBdCurrent' < RxBdNumber
    BY <2>1, <2>2
  <2> QED BY <2>1, <2>3 DEF Bds
<1>3. ASSUME NEW i \in Bds
      PROVE  /\ ring'[i] \in Descriptors
             /\ \/ ring'[i] = ring[i]
                \/ ring'[i].empty /\ ~ring'[i].last
  <2>1. ring[i] \in Descriptors
    OBVIOUS
  <2>2. \/ ring'[i] = ring[i]
        \/ ring'[i] = [ring[i] EXCEPT !.empty = TRUE, !.last = FALSE, !.error = FALSE]
    BY <1>1
  <2>3. CASE ring'[i] = ring[i]
    BY <2>1, <2>3
  <2>4. CASE ring'[i] = [ring[i] EXCEPT !.empty = TRUE, !.last = FALSE, !.error = FALSE]
    BY <2>1, <2>4 DEF Descriptors
  <2> QED BY <2>2, <2>3, <2>4
<1>4. ring' = [i \in Bds |-> ring'[i]]
  BY <1>1
<1>5. ring' \in [Bds -> Descriptors]
  BY <1>3, <1>4
<1> QED BY <1>2, <1>3, <1>5

\* A descriptor that is not empty holds a frame that did arrive.
RxInv ==
    /\ TypeOK
    /\ NothingLeaks
    /\ \A i \in Bds : ~ring[i].empty => ring[i].frame \in 1 .. MaxFrame
    /\ written > 0 => arriving \in 1 .. MaxFrame

LEMMA RxStep == RxInv /\ [Next]_vars => RxInv'
<1> SUFFICES ASSUME RxInv, [Next]_vars PROVE RxInv'
  OBVIOUS
<1>0. /\ ring \in [Bds -> Descriptors] /\ rxBdCurrent \in Bds /\ dmaBd \in Bds
      /\ arriving \in 0 .. MaxFrame /\ written \in 0 .. Buffers - 1
      /\ eir \in BOOLEAN /\ isr \in {"idle", "input"} /\ cut \in BOOLEAN
      /\ pool \in 0 .. PoolSize /\ msgs \in 0 .. MsgNumber
      /\ mbox \in Seq(1 .. MaxFrame)
      /\ thread \in 0 .. MaxFrame /\ kept \in Nat /\ NothingLeaks
  BY DEF RxInv, TypeOK, Descriptors
<1>1. ASSUME UNCHANGED <<ring, dmaVars>>, rxBdCurrent' = rxBdCurrent,
             eir' \in BOOLEAN, isr' \in {"idle", "input"}, cut' \in BOOLEAN,
             pool' \in Nat, msgs' \in Nat, mbox' \in Seq(1 .. MaxFrame),
             thread' \in 0 .. MaxFrame, kept' \in Nat, NothingLeaks'
      PROVE  RxInv'
  <2>1. pool' \in 0 .. PoolSize /\ msgs' \in 0 .. MsgNumber
    <3>1. Len(mbox)' \in Nat /\ Busy' \in Nat
      BY <1>1 DEF Busy
    <3>2. /\ pool' + Len(mbox)' + Busy' + kept' = PoolSize
          /\ msgs' + Len(mbox)' + Busy' = MsgNumber
      BY <1>1 DEF NothingLeaks
    <3>3. pool' \in 0 .. PoolSize
      BY <1>1, <3>1, <3>2, FirstTerm
    <3>4. msgs' + Len(mbox)' + Busy' + 0 = MsgNumber
      BY <1>1, <3>1, <3>2
    <3>5. msgs' \in 0 .. MsgNumber
      BY <1>1, <3>1, <3>4, FirstTerm
    <3> QED BY <3>3, <3>5
  <2>2. TypeOK'
    BY <1>0, <1>1, <2>1 DEF TypeOK, dmaVars, Descriptors
  <2> QED BY <1>0, <1>1, <2>2 DEF RxInv, dmaVars
<1>2. CASE Receive
  <2>1. /\ arriving' \in 1 .. MaxFrame /\ dmaBd' = NextBd(dmaBd)
        /\ written' = IF written + 1 = Buffers THEN 0 ELSE written + 1
        /\ eir' = (eir \/ written + 1 = Buffers)
        /\ UNCHANGED <<rxBdCurrent, isr, cut, pool, msgs, mbox, threadVars>>
    BY <1>0, <1>2 DEF Receive, RxInv
  <2>2. PICK error \in {FALSE, written + 1 = Buffers} :
           ring' = [ring EXCEPT ![dmaBd] =
                      [empty |-> FALSE, length |-> 1, last |-> written + 1 = Buffers,
                       error |-> error, frame |-> arriving']]
    BY <1>2 DEF Receive
  <2>3. ring' \in [Bds -> Descriptors]
    <3>1. error \in BOOLEAN /\ (written + 1 = Buffers) \in BOOLEAN
      OBVIOUS
    <3>2. [empty |-> FALSE, length |-> 1, last |-> written + 1 = Buffers,
           error |-> error, frame |-> arriving'] \in Descriptors
      BY <2>1, <3>1 DEF Descriptors
    <3> QED BY <1>0, <2>2, <3>2
  <2>4. dmaBd' \in Bds /\ written' \in 0 .. Buffers - 1 /\ eir' \in BOOLEAN
    BY <1>0, <2>1 DEF NextBd, Bds
  <2>5. \A i \in Bds : ~ring'[i].empty => ring'[i].frame \in 1 .. MaxFrame
    BY <1>0, <2>1, <2>2 DEF RxInv
  <2>6. NothingLeaks'
    <3>1. Busy' = Busy
      BY <2>1 DEF Busy, threadVars
    <3> QED BY <1>0, <2>1, <3>1 DEF NothingLeaks, threadVars
  <2>7. TypeOK'
    BY <1>0, <2>1, <2>3, <2>4 DEF TypeOK, threadVars, Descriptors
  <2> QED BY <2>1, <2>5, <2>6, <2>7 DEF RxInv
<1>3. CASE ReceiveIRQ
  <2>1. /\ eir' = FALSE /\ isr' = "input" /\ cut' = FALSE
        /\ UNCHANGED <<ring, dmaVars, rxBdCurrent, pool, msgs, mbox, threadVars>>
    BY <1>3 DEF ReceiveIRQ
  <2>2. NothingLeaks'
    <3>1. Busy' = Busy
      BY <2>1 DEF Busy, threadVars
    <3>2. UNCHANGED <<pool, msgs, mbox, kept>>
      BY <2>1 DEF threadVars
    <3> QED BY <1>0, <3>1, <3>2 DEF NothingLeaks
  <2>3. /\ pool' \in Nat /\ msgs' \in Nat /\ mbox' \in Seq(1 .. MaxFrame)
        /\ thread' \in 0 .. MaxFrame /\ kept' \in Nat
    BY <1>0, <2>1 DEF threadVars
  <2>4. UNCHANGED <<ring, dmaVars>> /\ rxBdCurrent' = rxBdCurrent
    BY <2>1
  <2>5. eir' \in BOOLEAN /\ isr' \in {"idle", "input"} /\ cut' \in BOOLEAN
    BY <2>1
  <2> QED BY <1>1, <2>2, <2>3, <2>4, <2>5
<1>4. CASE LinkInput
  <2>1. UNCHANGED <<dmaVars, eir, threadVars>>
        /\ isr' \in {"idle", "input"} /\ cut' \in BOOLEAN
    BY <1>0, <1>4 DEF LinkInput
  <2>2. CASE UNCHANGED <<ring, rxBdCurrent, mbox, msgs, pool>>
    <3>1. NothingLeaks'
      BY <1>0, <2>1, <2>2 DEF NothingLeaks, Busy, threadVars
    <3> QED BY <1>0, <1>1, <2>1, <2>2, <3>1 DEF threadVars
  <2>3. CASE ReadFrame /\ UNCHANGED <<mbox, msgs, pool>>
    <3>1. /\ ring' \in [Bds -> Descriptors] /\ rxBdCurrent' \in Bds
          /\ \A i \in Bds : ring'[i] = ring[i] \/ ring'[i].empty
      BY <1>0, <2>3, ReadFrameType
    <3>2. NothingLeaks'
      BY <1>0, <2>1, <2>3 DEF NothingLeaks, Busy, threadVars
    <3>3. TypeOK'
      BY <1>0, <2>1, <2>3, <3>1 DEF TypeOK, dmaVars, threadVars, Descriptors
    <3> QED BY <2>1, <3>1, <3>2, <3>3 DEF RxInv, dmaVars
  <2>4. CASE ReadFrame /\ pool > 0 /\ GetRxFrameSize("frame")
             /\ Input(ring[rxBdCurrent].frame)
    <3>1. /\ ring' \in [Bds -> Descriptors] /\ rxBdCurrent' \in Bds
          /\ \A i \in Bds : ring'[i] = ring[i] \/ ring'[i].empty
      BY <1>0, <2>4, ReadFrameType
    <3>2. ring[rxBdCurrent].frame \in 1 .. MaxFrame
      <4>1. ~ring[rxBdCurrent].empty
        BY <2>4 DEF GetRxFrameSize
      <4> QED BY <1>0, <4>1 DEF RxInv
    <3>3. /\ pool' \in 0 .. PoolSize /\ msgs' \in 0 .. MsgNumber
          /\ mbox' \in Seq(1 .. MaxFrame) /\ NothingLeaks'
      <4>1. Busy' = Busy /\ Busy \in Nat /\ Len(mbox) \in Nat /\ kept' = kept
        BY <1>0, <2>1 DEF Busy, threadVars
      <4>2. CASE UNCHANGED <<mbox, msgs, pool>>
        BY <1>0, <4>1, <4>2 DEF NothingLeaks
      <4>3. CASE /\ msgs > 0 /\ msgs' = msgs - 1 /\ pool' = pool - 1
                 /\ mbox' = Append(mbox, ring[rxBdCurrent].frame)
        <5>1. mbox' \in Seq(1 .. MaxFrame) /\ Len(mbox)' = Len(mbox) + 1
          BY <1>0, <3>2, <4>3, AppendType
        <5>2. pool' \in 0 .. PoolSize /\ msgs' \in 0 .. MsgNumber
          <6>1. /\ pool \in 0 .. PoolSize /\ pool > 0 /\ pool' = pool - 1
                /\ msgs \in 0 .. MsgNumber /\ msgs > 0 /\ msgs' = msgs - 1
            BY <1>0, <2>4, <4>3
          <6> QED BY <6>1
        <5>3. NothingLeaks'
          <6>1. /\ pool + Len(mbox) + Busy + kept = PoolSize
                /\ msgs + Len(mbox) + Busy = MsgNumber
                /\ pool \in Nat /\ msgs \in Nat /\ kept \in Nat
            BY <1>0 DEF NothingLeaks
          <6>2. /\ pool' + Len(mbox)' + Busy' + kept' = PoolSize
                /\ msgs' + Len(mbox)' + Busy' = MsgNumber
            <7>1. pool' = pool - 1 /\ msgs' = msgs - 1
              BY <4>3
            <7>2. /\ Len(mbox)' = Len(mbox) + 1 /\ Len(mbox) \in Nat
                  /\ Busy' = Busy /\ Busy \in Nat /\ kept' = kept
              BY <4>1, <5>1
            <7> QED BY <6>1, <7>1, <7>2
          <6> QED BY <6>2 DEF NothingLeaks
        <5> QED BY <5>1, <5>2, <5>3
      <4> QED BY <2>4, <4>2, <4>3 DEF Input
    <3>4. TypeOK'
      BY <1>0, <2>1, <3>1, <3>3 DEF TypeOK, dmaVars, threadVars, Descriptors
    <3> QED BY <2>1, <3>1, <3>3, <3>4 DEF RxInv, dmaVars
  <2>5. \/ UNCHANGED <<ring, rxBdCurrent, mbox, msgs, pool>>
        \/ ReadFrame /\ UNCHANGED <<mbox, msgs, pool>>
        \/ /\ ReadFrame /\ pool > 0 /\ GetRxFrameSize("frame")
           /\ Input(ring[rxBdCurrent].frame)
    BY <1>4 DEF LinkInput
  <2> QED BY <2>2, <2>3, <2>4, <2>5
<1>5. CASE Fetch
  <2>1. Head(mbox) \in 1 .. MaxFrame /\ Tail(mbox) \in Seq(1 .. MaxFrame)
        /\ Len(Tail(mbox)) = Len(mbox) - 1
    BY <1>0, <1>5 DEF Fetch
  <2>2. /\ UNCHANGED <<ring, dmaVars, eir, rxBdCurrent, isr, cut, pool, msgs, kept>>
        /\ thread = 0 /\ thread' = Head(mbox) /\ mbox' = Tail(mbox)
    BY <1>5 DEF Fetch
  <2>3. NothingLeaks'
    <3>1. Busy = 0 /\ Busy' = 1 /\ Len(mbox)' = Len(mbox) - 1 /\ Len(mbox) \in Nat
      BY <1>0, <2>1, <2>2 DEF Busy
    <3> QED BY <1>0, <2>2, <3>1 DEF NothingLeaks
  <2> QED BY <1>0, <1>1, <2>1, <2>2, <2>3
<1>6. CASE Handle
  <2>1. /\ UNCHANGED <<ring, dmaVars, eir, rxBdCurrent, isr, cut, mbox>>
        /\ msgs' = msgs + 1 /\ thread' = 0 /\ thread # 0
        /\ \/ pool' = pool + 1 /\ kept' = kept
           \/ kept' = kept + 1 /\ pool' = pool
    BY <1>6 DEF Handle
  <2>2. NothingLeaks'
    BY <1>0, <2>1 DEF NothingLeaks, Busy
  <2> QED BY <1>0, <1>1, <2>1, <2>2
<1>7. CASE Release
  <2>1. /\ UNCHANGED <<ring, dmaVars, eir, rxBdCurrent, isr, cut, msgs, mbox, thread>>
        /\ kept > 0 /\ kept' = kept - 1 /\ pool' = pool + 1
    BY <1>7 DEF Release
  <2>2. NothingLeaks'
    BY <1>0, <2>1 DEF NothingLeaks, Busy
  <2> QED BY <1>0, <1>1, <2>1, <2>2
<1>8. CASE UNCHANGED vars
  <2>1. UNCHANGED <<ring, dmaVars, eir, rxBdCurrent, isr, cut, pool, msgs, mbox,
                    threadVars>>
    BY <1>8 DEF vars
  <2>2. NothingLeaks'
    BY <1>0, <2>1 DEF NothingLeaks, Busy, threadVars
  <2> QED BY <1>0, <1>1, <2>1, <2>2 DEF threadVars
<1> QED BY <1>2, <1>3, <1>4, <1>5, <1>6, <1>7, <1>8 DEF Next

LEMMA RxInvariant == Spec => []RxInv
<1>1. ASSUME Init PROVE RxInv
  <2>1. ring \in [Bds -> Descriptors]
    BY <1>1 DEF Init, Descriptors
  <2>2. TypeOK
    <3>1. 0 \in Bds /\ 0 \in 0 .. MaxFrame /\ 0 \in 0 .. Buffers - 1
      BY DEF Bds
    <3>2. pool \in 0 .. PoolSize /\ msgs \in 0 .. MsgNumber /\ kept \in Nat
      BY <1>1 DEF Init
    <3>3. mbox \in Seq(1 .. MaxFrame)
      BY <1>1 DEF Init
    <3> QED BY <1>1, <2>1, <3>1, <3>2, <3>3 DEF Init, TypeOK, Descriptors
  <2>3. NothingLeaks
    BY <1>1 DEF Init, NothingLeaks, Busy
  <2> QED BY <1>1, <2>2, <2>3 DEF Init, RxInv
<1> QED BY <1>1, RxStep, PTL DEF Spec

\* Both ends of the ring stay within it, and the pools within their sizes.
THEOREM TypeCorrect == Spec => []TypeOK
<1>1. RxInv => TypeOK
  BY DEF RxInv
<1> QED BY <1>1, RxInvariant, PTL

\* Whatever runs out, every pbuf of the pool is free, posted, being handled or
\* kept, and every message free, posted or being handled.
THEOREM NothingLost == Spec => []NothingLeaks
<1>1. RxInv => NothingLeaks
  BY DEF RxInv
<1> QED BY <1>1, RxInvariant, PTL

-----------------------------------------------------------------------------
(* No frame is overlooked.                                                  *)

\* With one descriptor to a frame, every full descriptor ends one, and the
\* driver's next is full only if an interrupt is pending or under way, or the
\* last one discarded a frame.
SeenInv ==
    /\ \A i \in Bds : ~ring[i].empty => ring[i].last
    /\ ~ring[rxBdCurrent].empty => eir \/ isr = "input" \/ cut

LEMMA SeenStep ==
    Buffers = 1 /\ RxInv /\ RxInv' /\ SeenInv /\ [Next]_vars => SeenInv'
<1> SUFFICES ASSUME Buffers = 1, RxInv, RxInv', SeenInv, [Next]_vars PROVE SeenInv'
  OBVIOUS
<1>0. ring \in [Bds -> Descriptors] /\ rxBdCurrent \in Bds /\ dmaBd \in Bds
      /\ rxBdCurrent' \in Bds
  BY DEF RxInv, TypeOK, Descriptors
<1>1. CASE Receive
  <2>1. written + 1 = Buffers
    BY DEF RxInv, TypeOK
  <2>2. eir' /\ rxBdCurrent' = rxBdCurrent
    <3>1. eir' = (eir \/ written + 1 = Buffers)
      BY <1>1 DEF Receive
    <3>2. rxBdCurrent' = rxBdCurrent
      BY <1>1 DEF Receive
    <3>3. eir \/ written + 1 = Buffers
      BY <2>1
    <3> QED BY <3>1, <3>2, <3>3, Zenon
  <2>3. \A i \in Bds : ring'[i] = ring[i] \/ ring'[i].last
    <3>1. PICK new : ring' = [ring EXCEPT ![dmaBd] = new] /\ new.last
      <4>1. PICK error \in BOOLEAN :
               ring' = [ring EXCEPT ![dmaBd] =
                          [empty |-> FALSE, length |-> 1, last |-> written + 1 = Buffers,
                           error |-> error, frame |-> arriving']]
        BY <1>1, <2>1 DEF Receive
      <4>2. [empty |-> FALSE, length |-> 1, last |-> written + 1 = Buffers,
             error |-> error, frame |-> arriving'].last = (written + 1 = Buffers)
        OBVIOUS
      <4> QED BY <2>1, <4>1, <4>2
    <3> QED BY <1>0, <3>1
  <2> QED BY <2>2, <2>3 DEF SeenInv
<1>2. CASE ReceiveIRQ
  BY <1>2 DEF ReceiveIRQ, SeenInv
<1>3. CASE LinkInput
  <2>1. CASE GetRxFrameSize("empty") /\ UNCHANGED <<ring, rxBdCurrent>>
    <3>1. ring[rxBdCurrent].empty
      <4>1. CASE Stops = {}
        <5>1. 0 \in Bds /\ After(0) = rxBdCurrent
          BY <1>0 DEF Bds, After
        <5> QED BY <1>0, <4>1, <5>1 DEF Stops, SeenInv
      <4>2. CASE Stops # {}
        <5>1. ASSUME ~ring[rxBdCurrent].empty PROVE FALSE
          <6>1. \E k \in Bds :
                   "empty" = IF ring[After(k)].length = 0 \/ ring[After(k)].error
                             THEN "error" ELSE "frame"
            BY <2>1, <4>2, <5>1 DEF GetRxFrameSize
          <6> QED BY <6>1
        <5> QED BY <5>1
      <4> QED BY <4>1, <4>2
    <3> QED BY <2>1, <3>1 DEF SeenInv
  <2>2. CASE ReadFrame /\ (cut' \/ UNCHANGED <<isr, cut>>)
    <3>1. \A i \in Bds : ring'[i] = ring[i] \/ ring'[i].empty
      BY <1>0, <2>2, ReadFrameType
    <3>2. cut' \/ isr' = "input"
      BY <1>3, <2>2 DEF LinkInput
    <3> QED BY <3>1, <3>2 DEF SeenInv
  <2> QED BY <1>3, <2>1, <2>2 DEF LinkInput
<1>4. CASE Fetch \/ Handle \/ Release \/ UNCHANGED vars
  <2>1. UNCHANGED <<ring, rxBdCurrent, eir, isr, cut>>
    BY <1>4 DEF Fetch, Handle, Release, vars
  <2> QED BY <2>1 DEF SeenInv
<1> QED BY <1>1, <1>2, <1>3, <1>4 DEF Next

\* In a ring with one descriptor to a frame, as the firmware configures it, a
\* frame that arrives at any point of the interrupt handler is seen: by the
\* loop under way or by a further interrupt, unless that loop ends by
\* discarding another frame.
THEOREM NothingOverlooked == Spec /\ Buffers = 1 => []LeftOnlyAfterDiscard
<1>1. Init /\ RxInv => SeenInv
  BY DEF Init, SeenInv, RxInv, TypeOK
<1>2. SeenInv => LeftOnlyAfterDiscard
  BY DEF SeenInv, LeftOnlyAfterDiscard, Quiet
<1>3. CASE Buffers = 1
  <2>1. RxInv /\ RxInv' /\ SeenInv /\ [Next]_vars => SeenInv'
    BY <1>3, SeenStep
  <2>2. Spec => []LeftOnlyAfterDiscard
    BY <1>1, <1>2, <2>1, RxInvariant, PTL DEF Spec
  <2> QED BY <2>2
<1>4. CASE Buffers # 1
  BY <1>4
<1> QED BY <1>3, <1>4

-----------------------------------------------------------------------------
(* Frames stay in order.                                                    *)

\* With one descriptor to a frame, the full descriptors are the n from the
\* driver's to the controller's, and each ends a frame that has arrived.
FullAre(n) ==
    /\ rxBdCurrent + n \in {dmaBd, dmaBd + RxBdNumber}
    /\ \A k \in Bds : ~ring[After(k)].empty <=> k < n
    /\ \A k \in Bds : k < n => ring[After(k)].last /\ ring[After(k)].frame <= arriving

OrderInv ==
    /\ InOrder
    /\ \E n \in 0 .. RxBdNumber : FullAre(n)
    /\ thread <= arriving
    /\ \A i \in 1 .. Len(mbox) : mbox[i] <= arriving

LEMMA AfterInRing ==
    ASSUME rxBdCurrent \in Bds, NEW k \in Bds
    PROVE  After(k) \in Bds /\ \A j \in Bds : After(j) = After(k) => j = k
BY DEF After, Bds

\* ENET_ReadFrame frees the descriptor it stands at and no other.
LEMMA ReadFrameFreesOne ==
    ASSUME ring \in [Bds -> Descriptors], rxBdCurrent \in Bds,
           ring[rxBdCurrent].last, ReadFrame
    PROVE  /\ rxBdCurrent' = After(1)
           /\ ring'[rxBdCurrent].empty
           /\ \A i \in Bds \ {rxBdCurrent} : ring'[i] = ring[i]
<1>1. After(0) = rxBdCurrent /\ 0 \in Bds
  BY DEF After, Bds
<1>2. PICK n \in Bds :
        /\ First(n, Ends)
        /\ ring' = [i \in Bds |-> IF \E k \in 0 .. n : i = After(k)
                                  THEN [ring[i] EXCEPT !.empty = TRUE,
                                           !.last = FALSE, !.error = FALSE]
                                  ELSE ring[i]]
        /\ rxBdCurrent' = After(n + 1)
  BY DEF ReadFrame
<1>3. n = 0
  <2>1. 0 \in Ends
    BY <1>1 DEF Ends
  <2>2. n <= 0
    BY <1>2, <2>1 DEF First
  <2> QED BY <2>2 DEF Bds
<1>4. \A i \in Bds : (\E k \in 0 .. n : i = After(k)) <=> i = rxBdCurrent
  BY <1>1, <1>3
<1>5. ring'[rxBdCurrent].empty
  <2>1. ring'[rxBdCurrent] = [ring[rxBdCurrent] EXCEPT !.empty = TRUE,
                                 !.last = FALSE, !.error = FALSE]
    BY <1>2, <1>4
  <2> QED BY <2>1 DEF Descriptors
<1>6. \A i \in Bds \ {rxBdCurrent} : ring'[i] = ring[i]
  BY <1>2, <1>4
<1>7. rxBdCurrent' = After(1)
  <2>1. n + 1 = 1
    BY <1>3
  <2> QED BY <1>2, <2>1
<1> QED BY <1>5, <1>6, <1>7

\* What freeing it does to the ring, seen from the driver.
LEMMA FullShifts ==
    ASSUME RxInv, NEW n \in 0 .. RxBdNumber, FullAre(n),
           ~ring[rxBdCurrent].empty, ReadFrame, UNCHANGED dmaVars
    PROVE  /\ n > 0 /\ FullAre(n - 1)'
           /\ \A k \in Bds : k < n - 1 => ring[After(k)]' = ring[After(k + 1)]
<1>0. /\ ring \in [Bds -> Descriptors] /\ rxBdCurrent \in Bds /\ dmaBd \in Bds
      /\ n \in Nat /\ UNCHANGED <<dmaBd, arriving>>
  BY DEF RxInv, TypeOK, Descriptors, dmaVars
<1>1. After(0) = rxBdCurrent /\ 0 \in Bds
  BY <1>0 DEF After, Bds
<1>2. n > 0 /\ ring[rxBdCurrent].last
  BY <1>0, <1>1 DEF FullAre
<1>3. /\ rxBdCurrent' = After(1) /\ ring'[rxBdCurrent].empty
      /\ \A i \in Bds \ {rxBdCurrent} : ring'[i] = ring[i]
  BY <1>0, <1>2, ReadFrameFreesOne
<1>4. /\ \A k \in Bds : k < RxBdNumber - 1 => After(k)' = After(k + 1)
      /\ After(RxBdNumber - 1)' = rxBdCurrent
  BY <1>0, <1>3 DEF After, Bds
<1>5. ASSUME NEW k \in Bds, k < RxBdNumber - 1
      PROVE  ring[After(k)]' = ring[After(k + 1)] /\ k + 1 \in Bds
  <2>1. k + 1 \in Bds /\ k + 1 # 0
    BY <1>5 DEF Bds
  <2>2. After(k + 1) \in Bds \ {rxBdCurrent}
    BY <1>0, <1>1, <2>1, AfterInRing
  <2> QED BY <1>3, <1>4, <1>5, <2>1, <2>2
<1>6. ring[After(RxBdNumber - 1)]'.empty
  BY <1>3, <1>4
<1>7. rxBdCurrent' + (n - 1) \in {dmaBd', dmaBd' + RxBdNumber}
  <2>1. rxBdCurrent' = IF rxBdCurrent + 1 < RxBdNumber THEN rxBdCurrent + 1
                       ELSE rxBdCurrent + 1 - RxBdNumber
    BY <1>3 DEF After
  <2>2. rxBdCurrent + n \in {dmaBd, dmaBd + RxBdNumber} /\ dmaBd' = dmaBd
    BY <1>0 DEF FullAre
  <2>3. rxBdCurrent \in 0 .. RxBdNumber - 1 /\ dmaBd \in 0 .. RxBdNumber - 1
    BY <1>0 DEF Bds
  <2> QED BY <1>0, <1>2, <2>1, <2>2, <2>3
<1>8. ASSUME NEW k \in Bds
      PROVE  /\ ~ring[After(k)]'.empty <=> k < n - 1
             /\ k < n - 1 => ring[After(k)]'.last /\ ring[After(k)]'.frame <= arriving
  <2>1. CASE k = RxBdNumber - 1
    BY <1>0, <1>2, <1>6, <2>1
  <2>2. CASE k # RxBdNumber - 1
    <3>1. k < RxBdNumber - 1 /\ k \in Nat
      BY <2>2 DEF Bds
    <3> QED BY <1>0, <1>2, <1>5, <3>1 DEF FullAre
  <2> QED BY <2>1, <2>2
<1>9. FullAre(n - 1)'
  BY <1>0, <1>7, <1>8 DEF FullAre
<1>10. \A k \in Bds : k < n - 1 => ring[After(k)]' = ring[After(k + 1)]
  BY <1>0, <1>5 DEF Bds
<1> QED BY <1>2, <1>9, <1>10

\* What stays of the order when nothing is added to the ring or the mailbox.
LEMMA OrderKept ==
    ASSUME RxInv, OrderInv,
           UNCHANGED <<ring, dmaBd, arriving, rxBdCurrent, mbox>>,
           thread' = thread \/ thread' = 0
    PROVE  OrderInv'
<1>1. \A k \in Bds : After(k)' = After(k)
  BY DEF After
<1>2. thread' <= thread /\ thread' \in Nat /\ thread \in Nat
  BY DEF RxInv, TypeOK
<1>3. \A k \in Bds : ring[After(k)]' = ring[After(k)]
  BY <1>1
<1>4. /\ mbox \in Seq(1 .. MaxFrame) /\ arriving \in 0 .. MaxFrame
      /\ \A k \in Bds : ~ring[After(k)].empty => ring[After(k)].frame \in 1 .. MaxFrame
  BY AfterInRing DEF RxInv, TypeOK
<1>5. \A i \in 1 .. Len(mbox) : mbox[i] \in 1 .. MaxFrame
  BY <1>4
<1>6. /\ \A i \in 1 .. Len(mbox) : thread' < mbox[i]
      /\ \A k \in Bds : ~ring[After(k)].empty => thread' < ring[After(k)].frame
      /\ thread' <= arriving
  BY <1>2, <1>4, <1>5 DEF OrderInv, InOrder
<1>7. InOrder'
  BY <1>3, <1>6 DEF OrderInv, InOrder
<1>8. ASSUME NEW n \in 0 .. RxBdNumber, FullAre(n) PROVE FullAre(n)'
  BY <1>3, <1>8 DEF FullAre
<1> QED BY <1>6, <1>7, <1>8 DEF OrderInv

\* The controller writes a frame that is newer than all others.
LEMMA OrderReceive ==
    ASSUME Buffers = 1, RxInv, RxInv', OrderInv, Receive
    PROVE  OrderInv'
<1>0. /\ ring \in [Bds -> Descriptors] /\ rxBdCurrent \in Bds /\ dmaBd \in Bds
      /\ arriving \in Nat /\ thread \in Nat /\ mbox \in Seq(1 .. MaxFrame)
      /\ written = 0
  BY DEF RxInv, TypeOK, Descriptors
<1>1. /\ ring[dmaBd].empty /\ arriving' = arriving + 1
      /\ dmaBd' = NextBd(dmaBd) /\ UNCHANGED <<rxBdCurrent, mbox, thread>>
  BY <1>0 DEF Receive, threadVars
<1>2. PICK new \in Descriptors :
         /\ ring' = [ring EXCEPT ![dmaBd] = new]
         /\ ~new.empty /\ new.last /\ new.frame = arriving'
  <2>1. PICK error \in BOOLEAN :
           ring' = [ring EXCEPT ![dmaBd] =
                      [empty |-> FALSE, length |-> 1, last |-> written + 1 = Buffers,
                       error |-> error, frame |-> arriving']]
    BY <1>0 DEF Receive
  <2> DEFINE new == [empty |-> FALSE, length |-> 1, last |-> written + 1 = Buffers,
                     error |-> error, frame |-> arriving']
  <2>2. (written + 1 = Buffers) \in BOOLEAN /\ arriving' \in 0 .. MaxFrame
    BY DEF RxInv, TypeOK
  <2>3. new \in Descriptors
    BY <2>2 DEF Descriptors
  <2>4. new.last = (written + 1 = Buffers) /\ ~new.empty /\ new.frame = arriving'
    OBVIOUS
  <2>5. new.last
    <3>1. written + 1 = Buffers
      BY <1>0
    <3> HIDE DEF new
    <3> QED BY <2>4, <3>1, Zenon
  <2> QED BY <2>1, <2>3, <2>4, <2>5
<1>3. PICK n \in 0 .. RxBdNumber : FullAre(n)
  BY DEF OrderInv
<1>4. n \in Bds /\ After(n) = dmaBd
  <2>1. n # RxBdNumber
    <3> SUFFICES ASSUME n = RxBdNumber PROVE FALSE
      OBVIOUS
    <3>1. rxBdCurrent = dmaBd /\ After(0) = dmaBd /\ 0 \in Bds
      BY <1>0, <1>3 DEF FullAre, After, Bds
    <3> QED BY <1>1, <1>3, <3>1 DEF FullAre
  <2> QED BY <1>0, <1>3, <2>1 DEF FullAre, After, Bds
<1>5. /\ \A k \in Bds : After(k)' = After(k)
      /\ \A k \in Bds : k # n => ring[After(k)]' = ring[After(k)]
      /\ ring[After(n)]' = new
  <2>1. \A k \in Bds : After(k)' = After(k)
    BY <1>1 DEF After
  <2> QED BY <1>0, <1>2, <1>4, <2>1, AfterInRing
<1>6. FullAre(n + 1)' /\ n + 1 \in 0 .. RxBdNumber
  <2>1. rxBdCurrent' + (n + 1) \in {dmaBd', dmaBd' + RxBdNumber}
    BY <1>0, <1>1, <1>3, <1>4 DEF FullAre, After, NextBd, Bds
  <2>2. ASSUME NEW k \in Bds
        PROVE  /\ ~ring[After(k)]'.empty <=> k < n + 1
               /\ k < n + 1 => ring[After(k)]'.last
                               /\ ring[After(k)]'.frame <= arriving'
    <3>1. CASE k = n
      BY <1>0, <1>1, <1>2, <1>5, <3>1 DEF Bds
    <3>2. CASE k # n
      <4>1. ring[After(k)]' = ring[After(k)] /\ (k < n + 1 <=> k < n)
        BY <1>4, <1>5, <3>2 DEF Bds
      <4>2. ring[After(k)].frame \in Nat
        BY <1>0, AfterInRing DEF Descriptors
      <4> QED BY <1>0, <1>1, <1>3, <4>1, <4>2 DEF FullAre
    <3> QED BY <3>1, <3>2
  <2> QED BY <1>4, <2>1, <2>2 DEF FullAre, Bds
<1>7. /\ thread' <= arriving'
      /\ \A i \in 1 .. Len(mbox) : mbox[i] < arriving' /\ mbox[i] \in Nat
  BY <1>0, <1>1 DEF OrderInv
<1>8. InOrder'
  <2>1. ASSUME NEW k \in Bds, ~ring[After(k)]'.empty
        PROVE  /\ thread < ring[After(k)]'.frame
               /\ \A i \in 1 .. Len(mbox) : mbox[i] < ring[After(k)]'.frame
               /\ \A j \in Bds : j < k => /\ ~ring[After(j)]'.empty
                                          /\ ring[After(j)]'.frame
                                                < ring[After(k)]'.frame
    <3>1. CASE k = n
      <4>1. thread < arriving' /\ ring[After(k)]'.frame = arriving'
        BY <1>0, <1>1, <1>2, <1>5, <3>1 DEF OrderInv
      <4>2. ASSUME NEW j \in Bds, j < k
            PROVE  ~ring[After(j)]'.empty /\ ring[After(j)]'.frame < arriving'
        <5>1. ring[After(j)]' = ring[After(j)] /\ j < n
          BY <1>5, <3>1, <4>2 DEF Bds
        <5>2. ring[After(j)].frame \in Nat /\ ring[After(j)].frame <= arriving
          BY <1>0, <1>3, <5>1, AfterInRing DEF FullAre, Descriptors
        <5> QED BY <1>0, <1>1, <1>3, <5>1, <5>2 DEF FullAre
      <4> QED BY <1>7, <4>1, <4>2
    <3>2. CASE k # n
      <4>1. ring[After(k)]' = ring[After(k)] /\ k < n
        BY <1>3, <1>5, <2>1, <3>2 DEF FullAre
      <4>2. \A j \in Bds : j < k => ring[After(j)]' = ring[After(j)]
        BY <1>4, <1>5, <4>1 DEF Bds
      <4> QED BY <2>1, <4>1, <4>2 DEF OrderInv, InOrder
    <3> QED BY <3>1, <3>2
  <2> QED BY <1>1, <2>1 DEF OrderInv, InOrder
<1> QED BY <1>0, <1>1, <1>6, <1>7, <1>8 DEF OrderInv

\* The driver takes the oldest frame out of the ring, and posts or drops it.
LEMMA OrderLinkInput ==
    ASSUME RxInv, RxInv', OrderInv, LinkInput
    PROVE  OrderInv'
<1>0. /\ ring \in [Bds -> Descriptors] /\ rxBdCurrent \in Bds
      /\ arriving \in Nat /\ thread \in Nat /\ mbox \in Seq(1 .. MaxFrame)
      /\ UNCHANGED <<dmaVars, thread>>
  BY DEF RxInv, TypeOK, Descriptors, LinkInput, threadVars
<1>1. CASE UNCHANGED <<ring, rxBdCurrent, mbox>>
  BY <1>0, <1>1, OrderKept DEF dmaVars
<1>2. ASSUME ~ring[rxBdCurrent].empty, ReadFrame,
             mbox' = mbox \/ mbox' = Append(mbox, ring[rxBdCurrent].frame)
      PROVE  OrderInv'
  <2>1. PICK n \in 0 .. RxBdNumber : FullAre(n)
    BY DEF OrderInv
  <2>2. /\ n > 0 /\ FullAre(n - 1)'
        /\ \A k \in Bds : k < n - 1 => ring[After(k)]' = ring[After(k + 1)]
    BY <1>0, <1>2, <2>1, FullShifts
  <2>3. After(0) = rxBdCurrent /\ 0 \in Bds
    BY <1>0 DEF After, Bds
  <2> DEFINE f == ring[rxBdCurrent].frame
  <2>4. f \in 1 .. MaxFrame /\ f <= arriving
    <3>1. ring[After(0)].frame <= arriving
      BY <2>1, <2>2, <2>3 DEF FullAre
    <3>2. f \in 1 .. MaxFrame
      BY <1>0, <1>2 DEF RxInv
    <3> QED BY <2>3, <3>1, <3>2
  <2>5. /\ thread < f
        /\ \A i \in 1 .. Len(mbox) : mbox[i] < f
        /\ \A i, j \in 1 .. Len(mbox) : i < j => mbox[i] < mbox[j]
        /\ \A i \in 1 .. Len(mbox) : thread < mbox[i] /\ mbox[i] <= arriving
    BY <1>2, <2>3 DEF OrderInv, InOrder
  <2>6. /\ \A i, j \in 1 .. Len(mbox') : i < j => mbox'[i] < mbox'[j]
        /\ \A i \in 1 .. Len(mbox') :
              thread < mbox'[i] /\ mbox'[i] <= arriving /\ mbox'[i] <= f
    <3>1. CASE mbox' = mbox
      <4>1. \A i \in 1 .. Len(mbox) : mbox[i] \in Nat
        BY <1>0
      <4> QED BY <2>4, <2>5, <3>1, <4>1
    <3>2. CASE mbox' = Append(mbox, f)
      <4>1. /\ Len(mbox') = Len(mbox) + 1 /\ mbox'[Len(mbox) + 1] = f
            /\ \A i \in 1 .. Len(mbox) : mbox'[i] = mbox[i] /\ mbox[i] \in Nat
        BY <1>0, <2>4, <3>2, AppendProperties
      <4>2. Len(mbox) \in Nat
        BY <1>0
      <4>3. \A i \in 1 .. Len(mbox') : i \in 1 .. Len(mbox) \/ i = Len(mbox) + 1
        BY <4>1, <4>2
      <4> QED BY <2>4, <2>5, <4>1, <4>2, <4>3, SMTT(30)
    <3> QED BY <1>2, <3>1, <3>2
  <2>7. ASSUME NEW k \in Bds, ~ring[After(k)]'.empty
        PROVE  /\ thread < ring[After(k)]'.frame
               /\ \A i \in 1 .. Len(mbox') : mbox'[i] < ring[After(k)]'.frame
               /\ \A j \in Bds : j < k => /\ ~ring[After(j)]'.empty
                                          /\ ring[After(j)]'.frame
                                                < ring[After(k)]'.frame
    <3>1. k < n - 1 /\ k + 1 \in Bds /\ 0 < k + 1 /\ k + 1 < n
      BY <2>1, <2>2, <2>7 DEF FullAre, Bds
    <3>2. ring[After(k)]' = ring[After(k + 1)] /\ ~ring[After(k + 1)].empty
      BY <2>1, <2>2, <2>7, <3>1 DEF FullAre
    <3>3. /\ thread < ring[After(k + 1)].frame
          /\ f < ring[After(k + 1)].frame
          /\ ring[After(k + 1)].frame \in Nat
      BY <1>0, <2>3, <3>1, <3>2, AfterInRing DEF OrderInv, InOrder, Descriptors
    <3>4. \A i \in 1 .. Len(mbox') : mbox'[i] < ring[After(k + 1)].frame
      <4>1. \A i \in 1 .. Len(mbox') : mbox'[i] \in Nat
        <5>1. mbox' \in Seq(1 .. MaxFrame)
          BY DEF RxInv, TypeOK
        <5> QED BY <5>1, ElementOfSeq
      <4> QED BY <2>4, <2>6, <3>3, <4>1
    <3>5. ASSUME NEW j \in Bds, j < k
          PROVE  /\ ~ring[After(j)]'.empty
                 /\ ring[After(j)]'.frame < ring[After(k + 1)].frame
      <4>1. j < n - 1 /\ j + 1 \in Bds /\ j + 1 < k + 1
        BY <2>1, <3>1, <3>5 DEF Bds
      <4>2. ring[After(j)]' = ring[After(j + 1)]
        BY <2>2, <4>1
      <4> QED BY <3>1, <3>2, <4>1, <4>2 DEF OrderInv, InOrder
    <3> QED BY <3>2, <3>3, <3>4, <3>5
  <2>8. InOrder'
    BY <1>0, <2>6, <2>7 DEF InOrder
  <2>9. n - 1 \in 0 .. RxBdNumber
    BY <2>2
  <2> QED BY <1>0, <2>2, <2>6, <2>8, <2>9 DEF OrderInv, dmaVars
<1>3. \/ UNCHANGED <<ring, rxBdCurrent, mbox>>
      \/ /\ ~ring[rxBdCurrent].empty /\ ReadFrame
         /\ mbox' = mbox \/ mbox' = Append(mbox, ring[rxBdCurrent].frame)
  <2>1. \A status \in {"error", "frame"} :
           GetRxFrameSize(status) => ~ring[rxBdCurrent].empty
    BY DEF GetRxFrameSize
  <2> QED BY <2>1 DEF LinkInput, Input
<1> QED BY <1>1, <1>2, <1>3

\* tcpip_thread takes the oldest of its mailbox.
LEMMA OrderFetch ==
    ASSUME RxInv, RxInv', OrderInv, Fetch
    PROVE  OrderInv'
<1>0. /\ UNCHANGED <<ring, dmaBd, arriving, rxBdCurrent>>
      /\ mbox # <<>> /\ thread' = Head(mbox) /\ mbox' = Tail(mbox)
      /\ mbox \in Seq(1 .. MaxFrame) /\ Len(mbox) \in Nat /\ Len(mbox) # 0
  BY EmptySeq DEF Fetch, dmaVars, RxInv, TypeOK
<1>1. /\ thread' = mbox[1] /\ Len(mbox') = Len(mbox) - 1
      /\ \A i \in 1 .. Len(mbox') : mbox'[i] = mbox[i + 1]
  BY <1>0, HeadTailProperties
<1>2. /\ \A i, j \in 1 .. Len(mbox') : i < j => mbox'[i] < mbox'[j]
      /\ \A i \in 1 .. Len(mbox') : thread' < mbox'[i] /\ mbox'[i] <= arriving
      /\ thread' <= arriving
  BY <1>0, <1>1, SMTT(30) DEF OrderInv, InOrder
<1>3. \A k \in Bds : After(k)' = After(k)
  BY <1>0 DEF After
<1>4. \A k \in Bds : ring[After(k)]' = ring[After(k)]
  BY <1>0, <1>3
<1>5. ASSUME NEW k \in Bds, ~ring[After(k)]'.empty
      PROVE  /\ thread' < ring[After(k)]'.frame
             /\ \A i \in 1 .. Len(mbox') : mbox'[i] < ring[After(k)]'.frame
             /\ \A j \in Bds : j < k => /\ ~ring[After(j)]'.empty
                                        /\ ring[After(j)]'.frame
                                              < ring[After(k)]'.frame
  <2>1. \A i \in 1 .. Len(mbox) : mbox[i] < ring[After(k)].frame
    BY <1>4, <1>5 DEF OrderInv, InOrder
  <2>2. \A i \in 1 .. Len(mbox') : i + 1 \in 1 .. Len(mbox)
    BY <1>0, <1>1
  <2>3. 1 \in 1 .. Len(mbox)
    BY <1>0
  <2> QED BY <1>1, <1>4, <1>5, <2>1, <2>2, <2>3 DEF OrderInv, InOrder
<1>6. InOrder'
  BY <1>2, <1>5 DEF InOrder
<1>7. ASSUME NEW n \in 0 .. RxBdNumber, FullAre(n) PROVE FullAre(n)'
  BY <1>0, <1>4, <1>7 DEF FullAre
<1> QED BY <1>0, <1>2, <1>6, <1>7 DEF OrderInv

LEMMA OrderStep ==
    Buffers = 1 /\ RxInv /\ RxInv' /\ OrderInv /\ [Next]_vars => OrderInv'
<1> SUFFICES ASSUME Buffers = 1, RxInv, RxInv', OrderInv, [Next]_vars
             PROVE  OrderInv'
  OBVIOUS
<1>1. CASE ReceiveIRQ \/ Handle \/ Release \/ UNCHANGED vars
  BY <1>1, OrderKept DEF ReceiveIRQ, Handle, Release, vars, dmaVars, threadVars
<1> QED BY <1>1, OrderReceive, OrderLinkInput, OrderFetch DEF Next

\* With one descriptor to a frame, tcpip_thread is given the frames in the
\* order in which they arrived and none twice, whatever is dropped between: the
\* driver never gives a descriptor back late, early or out of turn, though the
\* controller writes between any two turns of its loop.
THEOREM DeliveredInOrder == Spec /\ Buffers = 1 => []InOrder
<1>1. Init /\ RxInv => OrderInv
  <2> SUFFICES ASSUME Init, RxInv PROVE OrderInv
    OBVIOUS
  <2>1. \A k \in Bds : After(k) \in Bds
    BY AfterInRing DEF RxInv, TypeOK
  <2>2. \A k \in Bds : ring[After(k)].empty
    BY <2>1 DEF Init
  <2>3. FullAre(0) /\ 0 \in 0 .. RxBdNumber
    <3>1. rxBdCurrent + 0 \in {dmaBd, dmaBd + RxBdNumber}
      BY DEF Init
    <3>2. \A k \in Bds : ~(k < 0)
      BY DEF Bds
    <3> QED BY <2>2, <3>1, <3>2 DEF FullAre
  <2>4. Len(mbox) = 0 /\ thread = 0 /\ arriving = 0
    BY DEF Init
  <2> QED BY <2>2, <2>3, <2>4 DEF OrderInv, InOrder
<1>2. OrderInv => InOrder
  BY DEF OrderInv
<1>3. CASE Buffers = 1
  <2>1. RxInv /\ RxInv' /\ OrderInv /\ [Next]_vars => OrderInv'
    BY <1>3, OrderStep
  <2>2. Spec => []InOrder
    BY <1>1, <1>2, <2>1, RxInvariant, PTL DEF Spec
  <2> QED BY <2>2
<1>4. CASE Buffers # 1
  BY <1>4
<1> QED BY <1>3, <1>4
=============================================================================
