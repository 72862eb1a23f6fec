-------------------------- MODULE QueueWakeupProofs --------------------------
(***************************************************************************)
(* No wake-up of Queue is lost.  The invariant counts: while a receiver    *)
(* waits, each item in the queue has a receiver on its way to it or is     *)
(* recorded in the lock count (and the same for senders and free slots).   *)
(* It is inductive together with Inv2 of QueueProofs and PlacingAccounted, *)
(* which carries the emptiness test over to the moment of the placing.     *)
(***************************************************************************)
EXTENDS QueueProofs

USE DEF queueUNLOCKED, queueLOCKED_UNMODIFIED

LEMMA PlacingStep ==
    Inv2 /\ PlacingAccounted /\ [Next]_vars => PlacingAccounted'
<1> SUFFICES ASSUME Inv2, PlacingAccounted, [Next]_vars
             PROVE  PlacingAccounted'
  OBVIOUS
<1> USE DEF PlacingAccounted
<1>0. /\ SchedTypeOK /\ CallTypeOK /\ LockDiscipline /\ CallShape
      /\ RingTypeOK /\ LockTypeOK /\ QueueAssumption
  BY QueueAssumption DEF Inv2, Inv1, TypeOK
<1>1. ASSUME NEW t \in Tasks, TaskStep(t) PROVE PlacingAccounted'
  <2> USE DEF At, Running, Goto, CallTypeOK
  <2>1. CASE Test(t)
    <3>1. cTxLock >= 0 /\ cRxLock >= 0
      BY <1>0, <2>1 DEF Test, LockDiscipline, LockTypeOK, CallShape
    <3> QED BY <1>0, <2>1, <3>1 DEF Test, MustWait, schedVars, ringVars,
            lockVars, RingTypeOK, LockTypeOK
  <2>2. CASE ~Test(t)
    <3>1. pxCurrentTCB' = t /\ (pc'[t] = "place" => op'[t] = "delay")
      BY <1>0, <1>1, <2>2, ZenonT(40) DEF TaskStep, Call, TrySend, TryReceive, Delay,
         SuspendScheduler, SuspendAll, LockQueue, CheckForTimeOut, Place,
         UnlockTx, UnlockRx, Resume, ResumeAll, Yield, YieldWithinAPI,
         Recheck, Return, Again, schedVars
    <3> QED BY <3>1
  <2> QED BY <2>1, <2>2
<1>2. CASE SendFromISR \/ ReceiveFromISR
  <2>1. CASE pc[pxCurrentTCB] = "place" /\ op[pxCurrentTCB] # "delay"
    <3>1. cTxLock # queueUNLOCKED /\ cRxLock # queueUNLOCKED
      BY <1>0, <2>1 DEF LockDiscipline
    <3>2. /\ UNCHANGED <<pc, op, pxCurrentTCB>>
          /\ uxMessagesWaiting \in Int /\ Length \in Int
          /\ cTxLock \in Int /\ cRxLock \in Int
      BY <1>0, <1>2 DEF SendFromISR, ReceiveFromISR, callVars, RingTypeOK,
         LockTypeOK, QueueAssumption
    <3>3. CASE SendFromISR
      <4>1. /\ uxMessagesWaiting' = uxMessagesWaiting + 1
            /\ cTxLock' = cTxLock + 1 /\ cRxLock' = cRxLock
        BY <3>1, <3>3 DEF SendFromISR, CopyDataToQueue
      <4> QED BY <3>2, <4>1
    <3>4. CASE ReceiveFromISR
      <4>1. /\ uxMessagesWaiting' = uxMessagesWaiting - 1
            /\ cRxLock' = cRxLock + 1 /\ cTxLock' = cTxLock
        BY <3>1, <3>4 DEF ReceiveFromISR, CopyDataFromQueue
      <4> QED BY <3>2, <4>1
    <3> QED BY <1>2, <3>3, <3>4
  <2>2. CASE ~(pc[pxCurrentTCB] = "place" /\ op[pxCurrentTCB] # "delay")
    BY <1>2, <2>2 DEF SendFromISR, ReceiveFromISR, callVars
  <2> QED BY <2>1, <2>2
<1>3. CASE Tick
  BY <1>3 DEF Tick, IncrementTick, callVars, ringVars, lockVars
<1>4. CASE PendSV
  <2>1. UNCHANGED <<pc, op, uxMessagesWaiting, cTxLock, cRxLock>>
    BY <1>4 DEF PendSV, callVars, ringVars, lockVars
  <2>2. CASE uxSchedulerSuspended # 0
    BY <1>4, <2>1, <2>2 DEF PendSV, SwitchContext
  <2>3. CASE uxSchedulerSuspended = 0
    <3>1. pxCurrentTCB' \in Tasks /\ uxSchedulerSuspended' = 0
      BY <1>0, <1>4, <2>3 DEF PendSV, SwitchContext, Highest, SchedTypeOK
    <3>2. pc[pxCurrentTCB'] # "place"
      BY <1>0, <2>3, <3>1 DEF LockDiscipline, SuspendedLabels
    <3> QED BY <2>1, <3>2
  <2> QED BY <2>2, <2>3
<1>5. CASE UNCHANGED vars
  BY <1>5 DEF vars, schedVars, callVars, ringVars, lockVars
<1> QED BY <1>1, <1>2, <1>3, <1>4, <1>5 DEF Next

LEMMA GoingFinite ==
    ASSUME NEW o PROVE /\ IsFiniteSet(GoingToTry(o))
                       /\ Cardinality(GoingToTry(o)) \in Nat
BY SchedulerAssumption, FS_Subset, FS_CardinalityType DEF GoingToTry

LEMMA GoingFinitePrime ==
    ASSUME NEW o PROVE /\ IsFiniteSet(GoingToTry(o)')
                       /\ Cardinality(GoingToTry(o)') \in Nat
BY SchedulerAssumption, FS_Subset, FS_CardinalityType DEF GoingToTry

\* Counting, for the four ways a step changes a set of tasks on their way.
LEMMA CardGrow ==
    ASSUME NEW G, NEW H, IsFiniteSet(H), G \subseteq H
    PROVE  Cardinality(G) <= Cardinality(H)
BY FS_Subset

LEMMA CardLessOne ==
    ASSUME NEW G, NEW H, NEW t, IsFiniteSet(G), IsFiniteSet(H), G \ {t} \subseteq H
    PROVE  Cardinality(G) <= Cardinality(H) + 1
<1>1. Cardinality(G \ {t}) <= Cardinality(H)
  BY FS_Subset
<1>2. /\ Cardinality(G) \in Nat /\ Cardinality(H) \in Nat
      /\ IsFiniteSet(G \ {t}) /\ Cardinality(G \ {t}) \in Nat
  BY FS_RemoveElement, FS_CardinalityType
<1>3. Cardinality(G) <= Cardinality(G \ {t}) + 1
  BY <1>2, FS_RemoveElement
<1> QED BY <1>1, <1>2, <1>3

LEMMA CardMoreSet ==
    ASSUME NEW G, NEW H, NEW W, IsFiniteSet(H), G \cup W \subseteq H,
           G \cap W = {}
    PROVE  Cardinality(G) + Cardinality(W) <= Cardinality(H)
<1>1. IsFiniteSet(G) /\ IsFiniteSet(W) /\ IsFiniteSet(G \cup W)
  BY FS_Subset
<1>2. Cardinality(G \cup W) = Cardinality(G) + Cardinality(W)
  <2>1. Cardinality(G \cup W)
           = Cardinality(G) + Cardinality(W) - Cardinality(G \cap W)
    BY <1>1, FS_Union
  <2>2. Cardinality(G \cap W) = 0
    BY FS_EmptySet
  <2> QED BY <1>1, <2>1, <2>2, FS_CardinalityType
<1>3. Cardinality(G \cup W) <= Cardinality(H)
  BY FS_Subset
<1> QED BY <1>2, <1>3

\* A task is on its way to look at the queue for operation o.
OnWay(m, o) ==
    /\ op[m] = o
    /\ \/ Parked(m)
       \/ pc[m] \in {"unlockTx", "unlockRx", "resume"} /\ path[m] = "retry"

\* It stays so until it looks.
LEMMA OnWayKept ==
    ASSUME Inv2, [Next]_vars, NEW m \in Tasks, NEW o \in {"send", "receive"},
           OnWay(m, o), ~TrySend(m), ~TryReceive(m)
    PROVE  OnWay(m, o)'
<1> USE DEF OnWay, Parked
<1>0. CallTypeOK /\ CallShape
  BY DEF Inv2, Inv1, TypeOK
<1>1. CASE UNCHANGED <<pc, op, path>>
  BY <1>1
<1>2. ASSUME NEW t \in Tasks, TaskStep(t) PROVE OnWay(m, o)'
  <2> USE <1>0 DEF CallTypeOK, At, Goto
  <2>1. CASE t # m
    <3>1. pc'[m] = pc[m] /\ op'[m] = op[m] /\ path'[m] = path[m]
      BY <1>2, <2>1 DEF TaskStep, Call, TrySend, TryReceive, Delay,
         SuspendScheduler, LockQueue, CheckForTimeOut, Test, Place, UnlockTx,
         UnlockRx, Resume, Yield, Recheck, Return
    <3> QED BY <3>1
  <2>2. CASE t = m
    <3>1. CASE UnlockTx(m) \/ UnlockRx(m)
      BY <3>1 DEF UnlockTx, UnlockRx
    <3>2. CASE Resume(m)
      BY <3>2 DEF Resume, Again, Return
    <3>3. CASE Yield(m)
      BY <3>3 DEF Yield, Again
    <3>4. CASE \/ Call(m) \/ Delay(m) \/ SuspendScheduler(m) \/ LockQueue(m)
               \/ CheckForTimeOut(m) \/ Test(m) \/ Place(m) \/ Recheck(m)
      BY <3>4 DEF CallShape, Call, Delay, SuspendScheduler, LockQueue,
         CheckForTimeOut, Test, Place, Recheck
    <3> QED BY <1>2, <2>2, <3>1, <3>2, <3>3, <3>4 DEF TaskStep
  <2> QED BY <2>1, <2>2
<1> QED
  BY <1>1, <1>2 DEF Next, SendFromISR, ReceiveFromISR, Tick, PendSV, vars,
     callVars

\* Only Place puts a task on an event list.
LEMMA ListsGrowByPlace ==
    ASSUME [Next]_vars, NEW m \in xTasksWaitingToSend' \cup xTasksWaitingToReceive'
    PROVE  \/ m \in xTasksWaitingToSend \cup xTasksWaitingToReceive
           \/ m \in Tasks /\ Place(m)
<1> DEFINE Shrinks ==
       /\ xTasksWaitingToSend' \subseteq xTasksWaitingToSend
       /\ xTasksWaitingToReceive' \subseteq xTasksWaitingToReceive
<1>1. ASSUME NEW t \in Tasks, TaskStep(t), ~Place(t) PROVE Shrinks
  <2>1. CASE TrySend(t)
    BY <2>1 DEF TrySend, WakeReceiver, listVars
  <2>2. CASE TryReceive(t)
    BY <2>2 DEF TryReceive, WakeSender, listVars
  <2>3. CASE UnlockTx(t) \/ UnlockRx(t) \/ Resume(t)
    BY <2>3 DEF UnlockTx, UnlockRx, Resume
  <2>4. CASE \/ Call(t) \/ Delay(t) \/ SuspendScheduler(t) \/ LockQueue(t)
             \/ CheckForTimeOut(t) \/ Test(t) \/ Yield(t) \/ Recheck(t)
    BY <2>4 DEF Call, Delay, SuspendScheduler, LockQueue, CheckForTimeOut,
       Test, Yield, Recheck, listVars
  <2> QED BY <1>1, <2>1, <2>2, <2>3, <2>4 DEF TaskStep
<1>2. ASSUME NEW t \in Tasks, Place(t), m # t
      PROVE  m \in xTasksWaitingToSend \cup xTasksWaitingToReceive
  BY <1>2 DEF Place, listVars
<1>3. CASE SendFromISR \/ ReceiveFromISR \/ Tick \/ PendSV \/ UNCHANGED vars
  BY <1>3 DEF SendFromISR, ReceiveFromISR, Tick, PendSV, WakeReceiver,
     WakeSender, vars, listVars
<1> QED BY <1>1, <1>2, <1>3 DEF Next

\* So every step but the look itself keeps a task on its way, ...
LEMMA GoingKept ==
    ASSUME Inv2, [Next]_vars, NEW o \in {"send", "receive"},
           NEW m \in GoingToTry(o), ~TrySend(m), ~TryReceive(m)
    PROVE  m \in GoingToTry(o)'
<1>1. m \in Tasks /\ OnWay(m, o)
      /\ m \notin xTasksWaitingToSend \cup xTasksWaitingToReceive
  BY DEF GoingToTry, OnWay
<1>2. OnWay(m, o)'
  BY <1>1, OnWayKept
<1>3. ~Place(m)
  BY <1>1 DEF Place, At, OnWay, Parked
<1>4. m \notin (xTasksWaitingToSend \cup xTasksWaitingToReceive)'
  BY <1>1, <1>3, ListsGrowByPlace
<1> QED BY <1>1, <1>2, <1>4 DEF GoingToTry, OnWay, Parked

\* ... and a task taken off an event list joins those on their way.
LEMMA GoingJoined ==
    ASSUME Inv2, [Next]_vars, NEW o,
           NEW m \in xTasksWaitingToSend \cup xTasksWaitingToReceive,
           op[m] = o,
           m \notin (xTasksWaitingToSend \cup xTasksWaitingToReceive)'
    PROVE  m \in GoingToTry(o)'
<1>1. m \in Tasks /\ o \in {"send", "receive"} /\ OnWay(m, o)
  BY DEF Inv2, Inv1, TypeOK, LockTypeOK, ListsConsistent, OnWay
<1>2. ~TrySend(m) /\ ~TryReceive(m)
  BY RunnerOnNoList, <1>1 DEF TrySend, TryReceive, At
<1>3. OnWay(m, o)'
  BY <1>1, <1>2, OnWayKept
<1> QED BY <1>1, <1>3 DEF GoingToTry, OnWay, Parked

-----------------------------------------------------------------------------
(* Receivers.                                                               *)

LEMMA Ranges ==
    ASSUME Inv2, [Next]_vars
    PROVE  /\ uxMessagesWaiting \in Nat /\ uxMessagesWaiting' \in Nat
           /\ Length \in Nat
           /\ Held(cTxLock) \in Nat /\ Held(cTxLock)' \in Nat
           /\ Held(cRxLock) \in Nat /\ Held(cRxLock)' \in Nat
<1>1. TypeOK /\ TypeOK'
  BY Inv2Step DEF Inv2, Inv1
<1> QED
  BY <1>1, QueueAssumption DEF TypeOK, RingTypeOK, LockTypeOK, Held

LEMMA RxKeep ==
    ASSUME Inv2, [Next]_vars, ReceiversAccounted,
           GoingToTry("receive") \subseteq GoingToTry("receive")',
           xTasksWaitingToReceive' # {} => xTasksWaitingToReceive # {},
           uxMessagesWaiting' <= uxMessagesWaiting,
           Held(cTxLock) <= Held(cTxLock)'
    PROVE  ReceiversAccounted'
<1>1. Cardinality(GoingToTry("receive")) <= Cardinality(GoingToTry("receive")')
  BY CardGrow, GoingFinitePrime
<1>2. /\ Cardinality(GoingToTry("receive")) \in Nat
      /\ Cardinality(GoingToTry("receive"))' \in Nat
  BY GoingFinite, GoingFinitePrime
<1> QED BY <1>1, <1>2, Ranges DEF ReceiversAccounted

\* A step that adds an item and wakes the first waiting receiver.
LEMMA RxWake ==
    ASSUME Inv2, [Next]_vars, ReceiversAccounted, WakeReceiver,
           GoingToTry("receive") \subseteq GoingToTry("receive")',
           uxMessagesWaiting' = uxMessagesWaiting + 1,
           UNCHANGED <<cTxLock, xTasksWaitingToSend>>
    PROVE  ReceiversAccounted'
<1>1. CASE xTasksWaitingToReceive' = {}
  BY <1>1 DEF ReceiversAccounted
<1>2. CASE xTasksWaitingToReceive' # {}
  <2>1. PICK u \in xTasksWaitingToReceive :
           xTasksWaitingToReceive' = xTasksWaitingToReceive \ {u}
    BY <1>2 DEF WakeReceiver, Highest
  <2>2. op[u] = "receive" /\ u \notin xTasksWaitingToSend
    BY DEF Inv2, ListsConsistent
  <2>3. u \in GoingToTry("receive")'
    BY <2>1, <2>2, GoingJoined
  <2>4. u \notin GoingToTry("receive")
    BY DEF GoingToTry
  <2>5. Cardinality(GoingToTry("receive")) + Cardinality({u})
            <= Cardinality(GoingToTry("receive")')
    BY <2>3, <2>4, CardMoreSet, GoingFinitePrime
  <2>6. Cardinality({u}) = 1
    BY FS_Singleton
  <2>7. /\ Cardinality(GoingToTry("receive")) \in Nat
        /\ Cardinality(GoingToTry("receive"))' \in Nat
    BY GoingFinite, GoingFinitePrime
  <2> QED BY <2>1, <2>5, <2>6, <2>7, Ranges DEF ReceiversAccounted, Held
<1> QED BY <1>1, <1>2

LEMMA RxStep ==
    ASSUME Inv2, PlacingAccounted, ReceiversAccounted, [Next]_vars
    PROVE  ReceiversAccounted'
<1> DEFINE G == GoingToTry("receive")
<1>0. /\ CallTypeOK /\ CallShape /\ LockDiscipline /\ ListsConsistent
      /\ RingTypeOK /\ LockTypeOK
  BY DEF Inv2, Inv1, TypeOK
<1>1. (\A t \in Tasks : ~TryReceive(t)) => G \subseteq G'
  BY GoingKept, <1>0 DEF GoingToTry, TrySend
<1>2. ASSUME NEW t \in Tasks, TaskStep(t) PROVE ReceiversAccounted'
  <2>1. CASE TryReceive(t)
    <3>1. CASE uxMessagesWaiting = 0
      <4>1. uxMessagesWaiting' = 0
        BY <2>1, <3>1, Ranges DEF TryReceive, ringVars
      <4> QED BY <4>1, Ranges, GoingFinitePrime DEF ReceiversAccounted
    <3>2. CASE uxMessagesWaiting > 0
      <4>1. /\ uxMessagesWaiting' = uxMessagesWaiting - 1
            /\ UNCHANGED <<cTxLock, xTasksWaitingToReceive>>
        BY <2>1, <3>2, Ranges DEF TryReceive, CopyDataFromQueue, lockVars
      <4>2. G \ {t} \subseteq G'
        BY GoingKept, <2>1 DEF TrySend, TryReceive, At, Running, GoingToTry
      <4>3. Cardinality(G) <= Cardinality(G') + 1
        BY <4>2, CardLessOne, GoingFinite, GoingFinitePrime
      <4>4. Cardinality(G) \in Nat /\ Cardinality(G)' \in Nat
        BY GoingFinite, GoingFinitePrime
      <4> HIDE DEF G
      <4> QED BY <4>1, <4>3, <4>4, Ranges DEF ReceiversAccounted, Held, G
    <3> QED BY <3>1, <3>2, Ranges
  <2>2. CASE ~TryReceive(t)
    <3>1. G \subseteq G'
      BY <1>1, <1>2, <2>2 DEF TaskStep, TryReceive, Call, TrySend, Delay,
         SuspendScheduler, LockQueue, CheckForTimeOut, Test, Place, UnlockTx,
         UnlockRx, Resume, Yield, Recheck, At, Running
    <3>2. CASE TrySend(t)
      <4>1. CASE UNCHANGED <<uxMessagesWaiting, xTasksWaitingToReceive, cTxLock>>
        BY <3>1, <4>1, RxKeep, Ranges DEF Held
      <4>2. CASE ~UNCHANGED <<uxMessagesWaiting, xTasksWaitingToReceive, cTxLock>>
        BY <3>1, <3>2, <4>2, RxWake DEF TrySend, CopyDataToQueue, ringVars,
           listVars, lockVars
      <4> QED BY <4>1, <4>2
    <3>3. CASE Place(t)
      <4>1. UNCHANGED <<uxMessagesWaiting, cTxLock>> /\ t = pxCurrentTCB
            /\ pc[t] = "place"
        BY <3>3 DEF Place, ringVars, lockVars, At, Running
      <4>2. CASE op[t] = "receive"
        <5>1. uxMessagesWaiting <= cTxLock
          BY <4>1, <4>2 DEF PlacingAccounted
        <5> QED BY <4>1, <5>1, Ranges, GoingFinitePrime
                DEF ReceiversAccounted, Held
      <4>3. CASE op[t] # "receive"
        <5>1. xTasksWaitingToReceive' = xTasksWaitingToReceive
          BY <3>3, <4>3 DEF Place, listVars
        <5> QED BY <3>1, <4>1, <5>1, RxKeep, Ranges DEF Held
      <4> QED BY <4>2, <4>3
    <3>4. CASE UnlockTx(t)
      <4>1. PICK W \in SUBSET xTasksWaitingToReceive :
               /\ IsFirst(W, cTxLock, xTasksWaitingToReceive)
               /\ xTasksWaitingToReceive' = xTasksWaitingToReceive \ W
        BY <3>4 DEF UnlockTx
      <4>2. /\ cTxLock' = queueUNLOCKED
            /\ UNCHANGED <<uxMessagesWaiting, xTasksWaitingToSend>>
        BY <3>4 DEF UnlockTx, ringVars
      <4>3. CASE xTasksWaitingToReceive' = {}
        BY <4>3 DEF ReceiversAccounted
      <4>4. CASE xTasksWaitingToReceive' # {}
        <5>1. IsFiniteSet(W) /\ Cardinality(W) \in Nat
          BY <1>0, SchedulerAssumption, FS_Subset, FS_CardinalityType
             DEF LockTypeOK
        <5>2. cTxLock \in Nat
          <6>1. op[t] # "delay" /\ t = pxCurrentTCB /\ pc[t] = "unlockTx"
            BY <1>0, <3>4 DEF CallShape, UnlockTx, At, Running
          <6> QED BY <1>0, <6>1 DEF LockDiscipline, LockTypeOK
        <5>3. Cardinality(W) = cTxLock
          BY <4>1, <4>4, <5>1, <5>2 DEF IsFirst
        <5>4. W \subseteq G' /\ G \cap W = {}
          BY <1>0, <4>1, <4>2, GoingJoined DEF ListsConsistent, GoingToTry
        <5>5. Cardinality(G) + Cardinality(W) <= Cardinality(G')
          BY <3>1, <5>4, CardMoreSet, GoingFinitePrime
        <5>6. Cardinality(G) \in Nat /\ Cardinality(G)' \in Nat
          BY GoingFinite, GoingFinitePrime
        <5>7. uxMessagesWaiting <= Cardinality(G) + cTxLock
          BY <4>1, <4>4, <5>2 DEF ReceiversAccounted, Held
        <5> HIDE DEF G
        <5> QED BY <4>2, <5>2, <5>3, <5>5, <5>6, <5>7, Ranges
                DEF ReceiversAccounted, Held, G
      <4> QED BY <4>3, <4>4
    <3>5. CASE \/ Call(t) \/ Delay(t) \/ SuspendScheduler(t) \/ LockQueue(t)
               \/ CheckForTimeOut(t) \/ Test(t) \/ UnlockRx(t) \/ Resume(t)
               \/ Yield(t) \/ Recheck(t)
      <4>1. /\ UNCHANGED uxMessagesWaiting
            /\ xTasksWaitingToReceive' \subseteq xTasksWaitingToReceive
            /\ Held(cTxLock)' = Held(cTxLock)
        BY <3>5 DEF Call, Delay, SuspendScheduler, LockQueue, CheckForTimeOut,
           Test, UnlockRx, Resume, Yield, Recheck, ringVars, lockVars, listVars,
           Held
      <4> QED BY <3>1, <4>1, RxKeep, Ranges
    <3> QED BY <1>2, <2>2, <3>2, <3>3, <3>4, <3>5 DEF TaskStep
  <2> QED BY <2>1, <2>2
<1>3. CASE SendFromISR \/ ReceiveFromISR \/ Tick \/ PendSV \/ UNCHANGED vars
  <2>1. G \subseteq G'
    <3>1. UNCHANGED pc
      BY <1>3 DEF SendFromISR, ReceiveFromISR, Tick, PendSV, vars, callVars
    <3> QED BY <1>0, <1>1, <3>1 DEF TryReceive, At, CallTypeOK, Goto, Return
  <2>2. CASE SendFromISR
    <3>1. CASE cTxLock = queueUNLOCKED
      BY <2>1, <2>2, <3>1, RxWake DEF SendFromISR, CopyDataToQueue
    <3>2. CASE cTxLock # queueUNLOCKED
      <4>1. /\ uxMessagesWaiting' = uxMessagesWaiting + 1
            /\ cTxLock' = cTxLock + 1 /\ cTxLock \in Nat
            /\ UNCHANGED xTasksWaitingToReceive
        BY <1>0, <2>2, <3>2 DEF SendFromISR, CopyDataToQueue, LockTypeOK
      <4>2. Cardinality(G) <= Cardinality(G)'
        BY <2>1, CardGrow, GoingFinitePrime
      <4>3. Cardinality(G) \in Nat /\ Cardinality(G)' \in Nat
        BY GoingFinite, GoingFinitePrime
      <4> HIDE DEF G
      <4> QED BY <4>1, <4>2, <4>3, Ranges DEF ReceiversAccounted, Held, G
    <3> QED BY <3>1, <3>2
  <2>3. CASE ReceiveFromISR
    <3>1. /\ uxMessagesWaiting' = uxMessagesWaiting - 1
          /\ UNCHANGED <<cTxLock, xTasksWaitingToReceive>>
      BY <2>3 DEF ReceiveFromISR, CopyDataFromQueue
    <3> QED BY <2>1, <3>1, RxKeep, Ranges DEF Held
  <2>4. CASE Tick \/ PendSV \/ UNCHANGED vars
    <3>1. /\ UNCHANGED <<uxMessagesWaiting, cTxLock>>
          /\ xTasksWaitingToReceive' \subseteq xTasksWaitingToReceive
      BY <2>4 DEF Tick, PendSV, vars, ringVars, lockVars, listVars
    <3> QED BY <2>1, <3>1, RxKeep, Ranges DEF Held
  <2> QED BY <1>3, <2>2, <2>3, <2>4
<1> QED BY <1>2, <1>3 DEF Next

-----------------------------------------------------------------------------
(* Senders: the same argument for free slots.                               *)

LEMMA TxKeep ==
    ASSUME Inv2, [Next]_vars, SendersAccounted,
           GoingToTry("send") \subseteq GoingToTry("send")',
           xTasksWaitingToSend' # {} => xTasksWaitingToSend # {},
           uxMessagesWaiting <= uxMessagesWaiting',
           Held(cRxLock) <= Held(cRxLock)'
    PROVE  SendersAccounted'
<1>1. Cardinality(GoingToTry("send")) <= Cardinality(GoingToTry("send")')
  BY CardGrow, GoingFinitePrime
<1>2. /\ Cardinality(GoingToTry("send")) \in Nat
      /\ Cardinality(GoingToTry("send"))' \in Nat
  BY GoingFinite, GoingFinitePrime
<1> QED BY <1>1, <1>2, Ranges DEF SendersAccounted

\* A step that frees a slot and wakes the first waiting sender.
LEMMA TxWake ==
    ASSUME Inv2, [Next]_vars, SendersAccounted, WakeSender,
           GoingToTry("send") \subseteq GoingToTry("send")',
           uxMessagesWaiting' = uxMessagesWaiting - 1,
           UNCHANGED <<cRxLock, xTasksWaitingToReceive>>
    PROVE  SendersAccounted'
<1>1. CASE xTasksWaitingToSend' = {}
  BY <1>1 DEF SendersAccounted
<1>2. CASE xTasksWaitingToSend' # {}
  <2>1. PICK u \in xTasksWaitingToSend :
           xTasksWaitingToSend' = xTasksWaitingToSend \ {u}
    BY <1>2 DEF WakeSender, Highest
  <2>2. op[u] = "send" /\ u \notin xTasksWaitingToReceive
    BY DEF Inv2, ListsConsistent
  <2>3. u \in GoingToTry("send")'
    BY <2>1, <2>2, GoingJoined
  <2>4. u \notin GoingToTry("send")
    BY DEF GoingToTry
  <2>5. Cardinality(GoingToTry("send")) + Cardinality({u})
            <= Cardinality(GoingToTry("send")')
    BY <2>3, <2>4, CardMoreSet, GoingFinitePrime
  <2>6. Cardinality({u}) = 1
    BY FS_Singleton
  <2>7. /\ Cardinality(GoingToTry("send")) \in Nat
        /\ Cardinality(GoingToTry("send"))' \in Nat
    BY GoingFinite, GoingFinitePrime
  <2> QED BY <2>1, <2>5, <2>6, <2>7, Ranges DEF SendersAccounted, Held
<1> QED BY <1>1, <1>2

LEMMA TxStep ==
    ASSUME Inv2, PlacingAccounted, SendersAccounted, [Next]_vars
    PROVE  SendersAccounted'
<1> DEFINE G == GoingToTry("send")
<1>0. /\ CallTypeOK /\ CallShape /\ LockDiscipline /\ ListsConsistent
      /\ RingTypeOK /\ LockTypeOK
  BY DEF Inv2, Inv1, TypeOK
<1>1. (\A t \in Tasks : ~TrySend(t)) => G \subseteq G'
  BY GoingKept, <1>0 DEF GoingToTry, TryReceive
<1>2. ASSUME NEW t \in Tasks, TaskStep(t) PROVE SendersAccounted'
  <2>1. CASE TrySend(t)
    <3>1. CASE uxMessagesWaiting = Length
      <4>1. uxMessagesWaiting' = Length
        BY <2>1, <3>1, Ranges DEF TrySend, ringVars
      <4> QED BY <4>1, Ranges, GoingFinitePrime DEF SendersAccounted
    <3>2. CASE uxMessagesWaiting # Length
      <4>1. /\ uxMessagesWaiting' = uxMessagesWaiting + 1
            /\ UNCHANGED <<cRxLock, xTasksWaitingToSend>>
        BY <2>1, <3>2, Ranges DEF TrySend, CopyDataToQueue, lockVars
      <4>2. G \ {t} \subseteq G'
        BY GoingKept, <2>1 DEF TryReceive, TrySend, At, Running, GoingToTry
      <4>3. Cardinality(G) <= Cardinality(G') + 1
        BY <4>2, CardLessOne, GoingFinite, GoingFinitePrime
      <4>4. Cardinality(G) \in Nat /\ Cardinality(G)' \in Nat
        BY GoingFinite, GoingFinitePrime
      <4> HIDE DEF G
      <4> QED BY <4>1, <4>3, <4>4, Ranges DEF SendersAccounted, Held, G
    <3> QED BY <3>1, <3>2, Ranges
  <2>2. CASE ~TrySend(t)
    <3>1. G \subseteq G'
      BY <1>1, <1>2, <2>2 DEF TaskStep, TrySend, Call, TryReceive, Delay,
         SuspendScheduler, LockQueue, CheckForTimeOut, Test, Place, UnlockRx,
         UnlockTx, Resume, Yield, Recheck, At, Running
    <3>2. CASE TryReceive(t)
      <4>1. CASE UNCHANGED <<uxMessagesWaiting, xTasksWaitingToSend, cRxLock>>
        BY <3>1, <4>1, TxKeep, Ranges DEF Held
      <4>2. CASE ~UNCHANGED <<uxMessagesWaiting, xTasksWaitingToSend, cRxLock>>
        BY <3>1, <3>2, <4>2, TxWake DEF TryReceive, CopyDataFromQueue, ringVars,
           listVars, lockVars
      <4> QED BY <4>1, <4>2
    <3>3. CASE Place(t)
      <4>1. UNCHANGED <<uxMessagesWaiting, cRxLock>> /\ t = pxCurrentTCB
            /\ pc[t] = "place"
        BY <3>3 DEF Place, ringVars, lockVars, At, Running
      <4>2. CASE op[t] = "send"
        <5>1. Length - uxMessagesWaiting <= cRxLock
          BY <4>1, <4>2 DEF PlacingAccounted
        <5> QED BY <4>1, <5>1, Ranges, GoingFinitePrime
                DEF SendersAccounted, Held
      <4>3. CASE op[t] # "send"
        <5>1. xTasksWaitingToSend' = xTasksWaitingToSend
          BY <3>3, <4>3 DEF Place, listVars
        <5> QED BY <3>1, <4>1, <5>1, TxKeep, Ranges DEF Held
      <4> QED BY <4>2, <4>3
    <3>4. CASE UnlockRx(t)
      <4>1. PICK W \in SUBSET xTasksWaitingToSend :
               /\ IsFirst(W, cRxLock, xTasksWaitingToSend)
               /\ xTasksWaitingToSend' = xTasksWaitingToSend \ W
        BY <3>4 DEF UnlockRx
      <4>2. /\ cRxLock' = queueUNLOCKED
            /\ UNCHANGED <<uxMessagesWaiting, xTasksWaitingToReceive>>
        BY <3>4 DEF UnlockRx, ringVars
      <4>3. CASE xTasksWaitingToSend' = {}
        BY <4>3 DEF SendersAccounted
      <4>4. CASE xTasksWaitingToSend' # {}
        <5>1. IsFiniteSet(W) /\ Cardinality(W) \in Nat
          BY <1>0, SchedulerAssumption, FS_Subset, FS_CardinalityType
             DEF LockTypeOK
        <5>2. cRxLock \in Nat
          <6>1. op[t] # "delay" /\ t = pxCurrentTCB /\ pc[t] = "unlockRx"
            BY <1>0, <3>4 DEF CallShape, UnlockRx, At, Running
          <6> QED BY <1>0, <6>1 DEF LockDiscipline, LockTypeOK
        <5>3. Cardinality(W) = cRxLock
          BY <4>1, <4>4, <5>1, <5>2 DEF IsFirst
        <5>4. W \subseteq G' /\ G \cap W = {}
          BY <1>0, <4>1, <4>2, GoingJoined DEF ListsConsistent, GoingToTry
        <5>5. Cardinality(G) + Cardinality(W) <= Cardinality(G')
          BY <3>1, <5>4, CardMoreSet, GoingFinitePrime
        <5>6. Cardinality(G) \in Nat /\ Cardinality(G)' \in Nat
          BY GoingFinite, GoingFinitePrime
        <5>7. Length - uxMessagesWaiting <= Cardinality(G) + cRxLock
          BY <4>1, <4>4, <5>2 DEF SendersAccounted, Held
        <5> HIDE DEF G
        <5> QED BY <4>2, <5>2, <5>3, <5>5, <5>6, <5>7, Ranges
                DEF SendersAccounted, Held, G
      <4> QED BY <4>3, <4>4
    <3>5. CASE \/ Call(t) \/ Delay(t) \/ SuspendScheduler(t) \/ LockQueue(t)
               \/ CheckForTimeOut(t) \/ Test(t) \/ UnlockTx(t) \/ Resume(t)
               \/ Yield(t) \/ Recheck(t)
      <4>1. /\ UNCHANGED uxMessagesWaiting
            /\ xTasksWaitingToSend' \subseteq xTasksWaitingToSend
            /\ Held(cRxLock)' = Held(cRxLock)
        BY <3>5 DEF Call, Delay, SuspendScheduler, LockQueue, CheckForTimeOut,
           Test, UnlockTx, Resume, Yield, Recheck, ringVars, lockVars, listVars,
           Held
      <4> QED BY <3>1, <4>1, TxKeep, Ranges
    <3> QED BY <1>2, <2>2, <3>2, <3>3, <3>4, <3>5 DEF TaskStep
  <2> QED BY <2>1, <2>2
<1>3. CASE ReceiveFromISR \/ SendFromISR \/ Tick \/ PendSV \/ UNCHANGED vars
  <2>1. G \subseteq G'
    <3>1. UNCHANGED pc
      BY <1>3 DEF ReceiveFromISR, SendFromISR, Tick, PendSV, vars, callVars
    <3> QED BY <1>0, <1>1, <3>1 DEF TrySend, At, CallTypeOK, Goto, Return
  <2>2. CASE ReceiveFromISR
    <3>1. CASE cRxLock = queueUNLOCKED
      BY <2>1, <2>2, <3>1, TxWake DEF ReceiveFromISR, CopyDataFromQueue
    <3>2. CASE cRxLock # queueUNLOCKED
      <4>1. /\ uxMessagesWaiting' = uxMessagesWaiting - 1
            /\ cRxLock' = cRxLock + 1 /\ cRxLock \in Nat
            /\ UNCHANGED xTasksWaitingToSend
        BY <1>0, <2>2, <3>2 DEF ReceiveFromISR, CopyDataFromQueue, LockTypeOK
      <4>2. Cardinality(G) <= Cardinality(G)'
        BY <2>1, CardGrow, GoingFinitePrime
      <4>3. Cardinality(G) \in Nat /\ Cardinality(G)' \in Nat
        BY GoingFinite, GoingFinitePrime
      <4> HIDE DEF G
      <4> QED BY <4>1, <4>2, <4>3, Ranges DEF SendersAccounted, Held, G
    <3> QED BY <3>1, <3>2
  <2>3. CASE SendFromISR
    <3>1. /\ uxMessagesWaiting' = uxMessagesWaiting + 1
          /\ UNCHANGED <<cRxLock, xTasksWaitingToSend>>
      BY <2>3 DEF SendFromISR, CopyDataToQueue
    <3> QED BY <2>1, <3>1, TxKeep, Ranges DEF Held
  <2>4. CASE Tick \/ PendSV \/ UNCHANGED vars
    <3>1. /\ UNCHANGED <<uxMessagesWaiting, cRxLock>>
          /\ xTasksWaitingToSend' \subseteq xTasksWaitingToSend
      BY <2>4 DEF Tick, PendSV, vars, ringVars, lockVars, listVars
    <3> QED BY <2>1, <3>1, TxKeep, Ranges DEF Held
  <2> QED BY <1>3, <2>2, <2>3, <2>4
<1> QED BY <1>2, <1>3 DEF Next

-----------------------------------------------------------------------------

\* No lost wake-up, for any number of tasks, priorities and items: a post or a
\* fetch by an interrupt between a task's last look at the queue and its
\* placing on the event list is remembered, and n posts release n receivers.
THEOREM NoLostWakeup == Spec => []WakeupsAccounted
<1> DEFINE Inv3 == Inv2 /\ PlacingAccounted /\ WakeupsAccounted
<1>1. Init => Inv3
  <2>1. Init => Inv2
    BY Inv1Init, Inv2Init DEF Inv2
  <2>2. Init => PlacingAccounted /\ WakeupsAccounted
    BY SchedulerAssumption DEF Init, SchedInit, Highest, PlacingAccounted,
       WakeupsAccounted, ReceiversAccounted, SendersAccounted
  <2> QED BY <2>1, <2>2
<1>2. Inv3 /\ [Next]_vars => Inv3'
  BY Inv2Step, PlacingStep, RxStep, TxStep DEF WakeupsAccounted
<1>3. Inv3 => WakeupsAccounted
  OBVIOUS
<1> QED BY <1>1, <1>2, <1>3, PTL DEF Spec

=============================================================================
