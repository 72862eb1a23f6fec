----------------------------- MODULE QueueProofs -----------------------------
(* Theorems about Queue, for every set of tasks, priorities, queue length   *)
(* and pattern of calls.                                                    *)
EXTENDS Queue, FiniteSetTheorems, SequenceTheorems, TLAPS

USE DEF queueUNLOCKED, queueLOCKED_UNMODIFIED

\* The index arithmetic of the ring stays inside it.
LEMMA SuccInSlots == ASSUME NEW i \in Slots PROVE Succ(i) \in Slots
BY QueueAssumption DEF Slots, Succ

\* Waking a waiter keeps the scheduler's variables in range.
LEMMA WakeType ==
    ASSUME SchedTypeOK, LockTypeOK, WakeReceiver \/ WakeSender,
           UNCHANGED <<pxCurrentTCB, uxSchedulerSuspended, uxPendedTicks>>
    PROVE  SchedTypeOK'
BY DEF SchedTypeOK, LockTypeOK, WakeReceiver, WakeSender, Unblock,
   YieldIfHigher, Highest

\* So does every other step; the suspension count stays 0 or 1 because only
\* the task that suspended the scheduler resumes it.
LEMMA SchedType ==
    ASSUME SchedTypeOK, LockTypeOK, CallTypeOK, LockDiscipline, [Next]_vars
    PROVE  SchedTypeOK'
<1>1. ASSUME NEW t \in Tasks, TaskStep(t) PROVE SchedTypeOK'
  <2>1. CASE TrySend(t) \/ TryReceive(t)
    <3>1. UNCHANGED <<pxCurrentTCB, uxSchedulerSuspended, uxPendedTicks>>
      BY <2>1 DEF TrySend, TryReceive
    <3>2. \/ WakeReceiver \/ WakeSender
          \/ UNCHANGED <<ready, timed, xPendingReadyList, xYieldPending, pendSV>>
      BY <2>1 DEF TrySend, TryReceive
    <3> QED BY <3>1, <3>2, WakeType DEF SchedTypeOK
  <2>2. CASE Place(t)
    BY <2>2 DEF Place, AddCurrentTaskToDelayedList, SchedTypeOK
  <2>3. CASE UnlockTx(t) \/ UnlockRx(t)
    BY <2>3 DEF UnlockTx, UnlockRx, Unblock, SchedTypeOK, LockTypeOK
  <2>4. CASE Resume(t)
    <3>1. PICK X \in SUBSET timed, already \in BOOLEAN : ResumeAll(X, already)
      BY <2>4 DEF Resume
    <3>2. uxSchedulerSuspended = 1
      BY <2>4 DEF Resume, At, Running, LockDiscipline, SuspendedLabels
    <3>3. xYieldPending' \in BOOLEAN /\ pendSV' \in BOOLEAN
      BY <3>1, Zenon DEF ResumeAll, SchedTypeOK
    <3>4. /\ ready' \subseteq Tasks /\ timed' \subseteq Tasks
          /\ xPendingReadyList' \subseteq Tasks /\ pxCurrentTCB' \in Tasks
          /\ uxPendedTicks' = 0 /\ uxSchedulerSuspended' = 0
      BY <3>1, <3>2 DEF ResumeAll, SchedTypeOK
    <3> QED BY <3>3, <3>4 DEF SchedTypeOK
  <2>5. CASE Delay(t) \/ SuspendScheduler(t)
    BY <2>5 DEF Delay, SuspendScheduler, SuspendAll, At, Running,
       LockDiscipline, SuspendedLabels, SchedTypeOK
  <2>6. CASE \/ Call(t) \/ LockQueue(t) \/ CheckForTimeOut(t) \/ Test(t)
             \/ Recheck(t)
    BY <2>6 DEF Call, LockQueue, CheckForTimeOut, Test, Recheck, schedVars,
       SchedTypeOK
  <2>7. CASE Yield(t)
    BY <2>7 DEF Yield, YieldWithinAPI, SchedTypeOK
  <2> QED
    BY <1>1, <2>1, <2>2, <2>3, <2>4, <2>5, <2>6, <2>7 DEF TaskStep
<1>2. CASE SendFromISR \/ ReceiveFromISR
  <2>1. UNCHANGED <<pxCurrentTCB, uxSchedulerSuspended, uxPendedTicks>>
    BY <1>2 DEF SendFromISR, ReceiveFromISR
  <2>2. \/ WakeReceiver \/ WakeSender
        \/ UNCHANGED <<ready, timed, xPendingReadyList, xYieldPending, pendSV>>
    BY <1>2 DEF SendFromISR, ReceiveFromISR
  <2> QED BY <2>1, <2>2, WakeType DEF SchedTypeOK
<1>3. CASE Tick
  BY <1>3 DEF Tick, IncrementTick, SchedTypeOK
<1>4. CASE PendSV
  BY <1>4 DEF PendSV, SwitchContext, SchedTypeOK, Highest
<1>5. CASE UNCHANGED vars
  BY <1>5 DEF vars, schedVars, SchedTypeOK
<1> QED BY <1>1, <1>2, <1>3, <1>4, <1>5 DEF Next

\* The ring's indices, contents and count stay in range: an item is stored
\* only when there is room, and taken only when there is one.
LEMMA RingType ==
    ASSUME RingTypeOK, LockTypeOK, CallTypeOK, [Next]_vars
    PROVE  RingTypeOK'
<1> USE QueueAssumption
<1>1. ASSUME NEW v \in Values \cup {None}, CopyDataToQueue(v),
             uxMessagesWaiting < Length
      PROVE  RingTypeOK'
  BY <1>1, SuccInSlots DEF CopyDataToQueue, RingTypeOK
<1>2. ASSUME CopyDataFromQueue, uxMessagesWaiting > 0 PROVE RingTypeOK'
  BY <1>2, SuccInSlots DEF CopyDataFromQueue, RingTypeOK
<1>3. CASE UNCHANGED ringVars
  BY <1>3 DEF ringVars, RingTypeOK
<1>4. ASSUME NEW t \in Tasks, TaskStep(t) PROVE RingTypeOK'
  <2>1. CASE TrySend(t)
    <3>1. item[t] \in Values \cup {None}
      BY DEF CallTypeOK
    <3>2. \/ CopyDataToQueue(item[t]) /\ uxMessagesWaiting < Length
          \/ UNCHANGED ringVars
      BY <2>1 DEF TrySend
    <3> QED BY <3>1, <3>2, <1>1, <1>3
  <2>2. CASE TryReceive(t)
    <3>1. \/ CopyDataFromQueue /\ uxMessagesWaiting > 0
          \/ UNCHANGED ringVars
      BY <2>2 DEF TryReceive
    <3> QED BY <3>1, <1>2, <1>3
  <2> QED
    BY <1>4, <2>1, <2>2, <1>3 DEF TaskStep, Call, Delay, SuspendScheduler,
       LockQueue, CheckForTimeOut, Test, Place, UnlockTx, UnlockRx, Resume,
       Yield, Recheck
<1>5. CASE SendFromISR
  BY <1>5, <1>1 DEF SendFromISR
<1>6. CASE ReceiveFromISR
  BY <1>6, <1>2 DEF ReceiveFromISR
<1>7. CASE Tick \/ PendSV \/ UNCHANGED vars
  BY <1>7, <1>3 DEF Tick, PendSV, vars
<1> QED BY <1>4, <1>5, <1>6, <1>7 DEF Next

\* So do the lock counts and the event lists.
LEMMA LockType ==
    ASSUME SchedTypeOK, LockTypeOK, [Next]_vars PROVE LockTypeOK'
<1> USE QueueAssumption
<1>1. CASE UNCHANGED <<lockVars, listVars>>
  BY <1>1 DEF lockVars, listVars, LockTypeOK
<1>2. ASSUME NEW t \in Tasks, TaskStep(t) PROVE LockTypeOK'
  <2>1. CASE TrySend(t)
    BY <2>1 DEF TrySend, WakeReceiver, lockVars, listVars, LockTypeOK
  <2>2. CASE TryReceive(t)
    BY <2>2 DEF TryReceive, WakeSender, lockVars, listVars, LockTypeOK
  <2>3. CASE LockQueue(t)
    BY <2>3 DEF LockQueue, listVars, LockTypeOK
  <2>4. CASE Place(t)
    BY <2>4 DEF Place, lockVars, listVars, LockTypeOK
  <2>5. CASE UnlockTx(t) \/ UnlockRx(t)
    BY <2>5 DEF UnlockTx, UnlockRx, LockTypeOK
  <2>6. CASE Resume(t)
    BY <2>6 DEF Resume, lockVars, LockTypeOK
  <2> QED
    BY <1>1, <1>2, <2>1, <2>2, <2>3, <2>4, <2>5, <2>6 DEF TaskStep, Call,
       Delay, SuspendScheduler, CheckForTimeOut, Test, Yield, Recheck
<1>3. CASE SendFromISR
  <2>1. cTxLock' \in -1 .. LockMax
    BY <1>3 DEF SendFromISR, LockTypeOK
  <2>2. xTasksWaitingToReceive' \subseteq Tasks
    BY <1>3 DEF SendFromISR, WakeReceiver, LockTypeOK
  <2> QED BY <1>3, <2>1, <2>2 DEF SendFromISR, LockTypeOK
<1>4. CASE ReceiveFromISR
  <2>1. cRxLock' \in -1 .. LockMax
    BY <1>4 DEF ReceiveFromISR, LockTypeOK
  <2>2. xTasksWaitingToSend' \subseteq Tasks
    BY <1>4 DEF ReceiveFromISR, WakeSender, LockTypeOK
  <2> QED BY <1>4, <2>1, <2>2 DEF ReceiveFromISR, LockTypeOK
<1>5. CASE Tick
  BY <1>5 DEF Tick, lockVars, LockTypeOK
<1>6. CASE PendSV \/ UNCHANGED vars
  BY <1>6, <1>1 DEF PendSV, vars
<1> QED BY <1>2, <1>3, <1>4, <1>5, <1>6 DEF Next

\* And the variables of the calls in progress.
LEMMA CallType ==
    ASSUME RingTypeOK, CallTypeOK, [Next]_vars PROVE CallTypeOK'
<1> USE QueueAssumption DEF CallTypeOK, Labels
<1>1. CASE UNCHANGED callVars
  BY <1>1 DEF callVars
<1>2. ASSUME NEW t \in Tasks, TaskStep(t) PROVE CallTypeOK'
  <2>1. CASE Call(t)
    <3>1. PICK c \in Calls[t] :
             /\ op' = [op EXCEPT ![t] = c[1]]
             /\ xTicksToWait' = [xTicksToWait EXCEPT ![t] = c[2]]
             /\ IF c[1] = "send"
                THEN \E v \in Values : item' = [item EXCEPT ![t] = v]
                ELSE UNCHANGED item
      BY <2>1 DEF Call
    <3>2. /\ c[1] \in {"send", "receive"}
          /\ c[2] \in {"zero", "finite", "infinite"}
      BY <3>1
    <3>3. item' \in [Tasks -> Values \cup {None}]
      BY <3>1
    <3> QED BY <2>1, <3>1, <3>2, <3>3 DEF Call, Goto
  <2>2. CASE TrySend(t)
    BY <2>2 DEF TrySend, Return, Goto
  <2>3. CASE TryReceive(t)
    <3>1. storage[Succ(pcReadFrom)] \in Values \cup {None}
      BY SuccInSlots DEF RingTypeOK
    <3> QED BY <2>3, <3>1 DEF TryReceive, Return, Goto
  <2>4. CASE Delay(t) \/ SuspendScheduler(t) \/ LockQueue(t)
    BY <2>4 DEF Delay, SuspendScheduler, LockQueue, Goto
  <2>5. CASE CheckForTimeOut(t) \/ Test(t) \/ Place(t)
    BY <2>5 DEF CheckForTimeOut, Test, Place, Goto
  <2>6. CASE UnlockTx(t) \/ UnlockRx(t)
    BY <2>6 DEF UnlockTx, UnlockRx, Goto
  <2>7. CASE Resume(t)
    BY <2>7 DEF Resume, Goto, Return, Again
  <2>8. CASE Yield(t) \/ Recheck(t)
    BY <2>8 DEF Yield, Recheck, Goto, Return, Again
  <2> QED
    BY <1>2, <2>1, <2>2, <2>3, <2>4, <2>5, <2>6, <2>7, <2>8 DEF TaskStep
<1>3. CASE SendFromISR \/ ReceiveFromISR \/ Tick \/ PendSV \/ UNCHANGED vars
  BY <1>3, <1>1 DEF SendFromISR, ReceiveFromISR, Tick, PendSV, vars
<1> QED BY <1>2, <1>3 DEF Next


LEMMA CallShapeStep ==
    ASSUME TypeOK, CallShape, [Next]_vars PROVE CallShape'
<1> USE DEF CallTypeOK, CallShape
<1>0. CallTypeOK
  BY DEF TypeOK
<1>1. CASE UNCHANGED callVars
  BY <1>1 DEF callVars
<1>2. ASSUME NEW t \in Tasks, TaskStep(t) PROVE CallShape'
  <2>1. CASE Call(t)
    <3>1. PICK c \in Calls[t] :
             /\ op' = [op EXCEPT ![t] = c[1]]
             /\ xTicksToWait' = [xTicksToWait EXCEPT ![t] = c[2]]
      BY <2>1 DEF Call
    <3>2. c[1] \in {"send", "receive"}
      BY <3>1, QueueAssumption
    <3> QED BY <1>0, <2>1, <3>1, <3>2 DEF Call, At, Goto
  <2>2. CASE TrySend(t) \/ TryReceive(t)
    BY <1>0, <2>2 DEF TrySend, TryReceive, At, Return, Goto
  <2>3. CASE Delay(t) \/ SuspendScheduler(t) \/ LockQueue(t)
    BY <1>0, <2>3 DEF Delay, SuspendScheduler, LockQueue, At, Goto
  <2>4. CASE CheckForTimeOut(t)
    BY <1>0, <2>4 DEF CheckForTimeOut, At, Goto
  <2>5. CASE Test(t) \/ Place(t)
    BY <1>0, <2>5 DEF Test, Place, At, Goto
  <2>6. CASE UnlockTx(t) \/ UnlockRx(t)
    BY <1>0, <2>6 DEF UnlockTx, UnlockRx, At, Goto
  <2>7. CASE Resume(t)
    BY <1>0, <2>7 DEF Resume, At, Goto, Return, Again
  <2>8. CASE Yield(t) \/ Recheck(t)
    BY <1>0, <2>8 DEF Yield, Recheck, At, Goto, Return, Again
  <2> QED
    BY <1>2, <2>1, <2>2, <2>3, <2>4, <2>5, <2>6, <2>7, <2>8 DEF TaskStep
<1>3. CASE SendFromISR \/ ReceiveFromISR \/ Tick \/ PendSV \/ UNCHANGED vars
  BY <1>3, <1>1 DEF SendFromISR, ReceiveFromISR, Tick, PendSV, vars
<1> QED BY <1>2, <1>3 DEF Next

LEMMA LockDisciplineStep ==
    ASSUME TypeOK, CallShape, LockDiscipline, [Next]_vars
    PROVE  LockDiscipline'
<1> USE DEF LockDiscipline, SuspendedLabels
<1>0. TypeOK
  OBVIOUS
<1>1. CASE UNCHANGED <<pxCurrentTCB, uxSchedulerSuspended, lockVars, pc, op>>
  BY <1>1 DEF lockVars
<1>2. ASSUME NEW t \in Tasks, TaskStep(t) PROVE LockDiscipline'
  <2> USE <1>0 DEF TypeOK, SchedTypeOK, LockTypeOK, CallTypeOK, CallShape, At, Running, Goto
  <2>1. CASE Call(t)
    BY <2>1 DEF Call, schedVars, lockVars
  <2>2. CASE TrySend(t) \/ TryReceive(t)
    BY <2>2 DEF TrySend, TryReceive, Return, lockVars
  <2>3. CASE Delay(t) \/ SuspendScheduler(t)
    BY <2>3 DEF Delay, SuspendScheduler, SuspendAll, lockVars
  <2>4. CASE LockQueue(t)
    BY <2>4 DEF LockQueue, schedVars
  <2>5. CASE CheckForTimeOut(t) \/ Test(t)
    BY <2>5 DEF CheckForTimeOut, Test, schedVars, lockVars
  <2>6. CASE Place(t)
    BY <2>6 DEF Place, lockVars
  <2>7. CASE UnlockTx(t) \/ UnlockRx(t)
    BY <2>7 DEF UnlockTx, UnlockRx
  <2>8. CASE Resume(t)
    BY <2>8 DEF Resume, ResumeAll, Return, Again, lockVars
  <2>9. CASE Yield(t) \/ Recheck(t)
    BY <2>9 DEF Yield, YieldWithinAPI, Recheck, Return, Again, lockVars,
       schedVars
  <2> QED
    BY <1>2, <2>1, <2>2, <2>3, <2>4, <2>5, <2>6, <2>7, <2>8, <2>9 DEF TaskStep
<1>3. CASE SendFromISR \/ ReceiveFromISR
  BY <1>0, <1>3 DEF SendFromISR, ReceiveFromISR, callVars, TypeOK, LockTypeOK
<1>4. CASE PendSV
  <2>1. CASE uxSchedulerSuspended # 0
    BY <1>4, <2>1, <1>1 DEF PendSV, SwitchContext, callVars
  <2>2. CASE uxSchedulerSuspended = 0
    <3>1. /\ pxCurrentTCB' \in Tasks
          /\ UNCHANGED <<uxSchedulerSuspended, lockVars, pc, op>>
      BY <1>0, <1>4, <2>2 DEF PendSV, SwitchContext, callVars, Highest,
         TypeOK, SchedTypeOK
    <3>2. \A u \in Tasks : pc[u] \notin SuspendedLabels
      BY <2>2
    <3>3. cTxLock = queueUNLOCKED /\ cRxLock = queueUNLOCKED
      BY <1>0, <2>2, <3>2 DEF TypeOK, SchedTypeOK
    <3> QED BY <2>2, <3>1, <3>2, <3>3 DEF lockVars
  <2> QED BY <2>1, <2>2
<1>5. CASE Tick
  BY <1>5, <1>1 DEF Tick, IncrementTick, callVars
<1>6. CASE UNCHANGED vars
  BY <1>6, <1>1 DEF vars, schedVars, callVars
<1> QED BY <1>2, <1>3, <1>4, <1>5, <1>6 DEF Next

\* Inv1 is the inductive part that needs no counting.
Inv1 == TypeOK /\ CallShape /\ LockDiscipline

LEMMA Inv1Init == Init => Inv1
<1> SUFFICES ASSUME Init PROVE Inv1
  OBVIOUS
<1> USE QueueAssumption DEF Init
<1>1. SchedTypeOK
  BY DEF SchedInit, SchedTypeOK, Highest
<1>2. RingTypeOK
  BY DEF RingTypeOK, Slots
<1>3. LockTypeOK /\ CallTypeOK
  BY DEF LockTypeOK, CallTypeOK, Labels
<1>4. CallShape
  BY DEF CallShape
<1>5. LockDiscipline
  BY <1>1 DEF LockDiscipline, SuspendedLabels, SchedInit, SchedTypeOK
<1> QED BY <1>1, <1>2, <1>3, <1>4, <1>5 DEF Inv1, TypeOK

LEMMA Inv1Step == Inv1 /\ [Next]_vars => Inv1'
BY SchedType, RingType, LockType, CallType, CallShapeStep, LockDisciplineStep
   DEF Inv1, TypeOK

\* Every variable stays in its range: no ring index leaves the storage area
\* and the count never exceeds the length, whoever interrupts whom.
THEOREM TypeCorrect == Spec => []TypeOK
<1>1. Inv1 => TypeOK
  BY DEF Inv1
<1> QED BY Inv1Init, Inv1Step, <1>1, PTL DEF Spec

\* The scheduler is suspended, and the queue locked, by the running task alone
\* and exactly in the part of a blocking call that works on the event lists.
THEOREM LockDisciplined == Spec => []LockDiscipline
<1>1. Inv1 => LockDiscipline
  BY DEF Inv1
<1> QED BY Inv1Init, Inv1Step, <1>1, PTL DEF Spec

-----------------------------------------------------------------------------
(* The event lists.                                                         *)

Inv2 == Inv1 /\ ListsConsistent /\ RunnerReady

LEMMA Inv2Init == Init => ListsConsistent /\ RunnerReady
BY SchedulerAssumption DEF Init, SchedInit, ListsConsistent, RunnerReady,
   Highest

\* A task that executes at a label other than those between parking and the
\* switch is ready, hence on no list.
LEMMA RunnerOnNoList ==
    ASSUME Inv2, NEW t \in Tasks, Running(t),
           pc[t] \notin {"unlockTx", "unlockRx", "resume", "yield"}
    PROVE  /\ t \in ready
           /\ t \notin xTasksWaitingToSend \cup xTasksWaitingToReceive
           /\ t \notin xPendingReadyList
BY DEF Inv2, RunnerReady, ListsConsistent, Running

\* What waking the head of either list does to the lists: the woken task
\* becomes ready, or pending while the scheduler is suspended.
LEMMA WakeLists ==
    ASSUME Inv2, \/ WakeReceiver /\ UNCHANGED xTasksWaitingToSend
                 \/ WakeSender /\ UNCHANGED xTasksWaitingToReceive
    PROVE  /\ xTasksWaitingToSend' \subseteq xTasksWaitingToSend
           /\ xTasksWaitingToReceive' \subseteq xTasksWaitingToReceive
           /\ xPendingReadyList' \subseteq
                 xPendingReadyList \cup xTasksWaitingToSend
                                   \cup xTasksWaitingToReceive
           /\ \A x \in xTasksWaitingToSend' \cup xTasksWaitingToReceive' :
                 x \notin ready' \cup xPendingReadyList'
           /\ xPendingReadyList' \cap ready' = {} /\ timed' \cap ready' = {}
           /\ uxSchedulerSuspended = 0 => xPendingReadyList' = {}
<1>0. ListsConsistent
  BY DEF Inv2
<1>1. xTasksWaitingToSend \cap xTasksWaitingToReceive = {}
  BY <1>0 DEF ListsConsistent
<1>2. CASE UNCHANGED <<listVars, ready, timed, xPendingReadyList>>
  BY <1>0, <1>2 DEF ListsConsistent, listVars
<1>3. CASE \E u \in xTasksWaitingToReceive :
              /\ xTasksWaitingToReceive' = xTasksWaitingToReceive \ {u}
              /\ Unblock({u})
              /\ UNCHANGED xTasksWaitingToSend
  BY <1>0, <1>1, <1>3 DEF ListsConsistent, Unblock
<1>4. CASE \E u \in xTasksWaitingToSend :
              /\ xTasksWaitingToSend' = xTasksWaitingToSend \ {u}
              /\ Unblock({u})
              /\ UNCHANGED xTasksWaitingToReceive
  BY <1>0, <1>1, <1>4 DEF ListsConsistent, Unblock
<1> QED
  BY <1>2, <1>3, <1>4 DEF WakeReceiver, WakeSender, Highest, listVars

LEMMA ListsStep == Inv2 /\ [Next]_vars => ListsConsistent'
<1> SUFFICES ASSUME Inv2, [Next]_vars PROVE ListsConsistent'
  OBVIOUS
<1> USE DEF ListsConsistent, Parked
<1>0. /\ SchedTypeOK /\ LockTypeOK /\ CallTypeOK /\ CallShape
      /\ LockDiscipline /\ ListsConsistent /\ RunnerReady
  BY DEF Inv2, Inv1, TypeOK
<1>1. ASSUME NEW t \in Tasks, TaskStep(t) PROVE ListsConsistent'
  <2> USE <1>0 DEF SchedTypeOK, LockTypeOK, CallTypeOK, At, Running, Goto
  <2>1. CASE Call(t)
    BY <2>1, RunnerOnNoList DEF Call, schedVars, listVars
  <2>2. CASE TrySend(t)
    <3>0. /\ t \in ready
          /\ t \notin xTasksWaitingToSend \cup xTasksWaitingToReceive
          /\ t \notin xPendingReadyList
      BY <2>2, RunnerOnNoList DEF TrySend
    <3>1. CASE WakeReceiver /\ UNCHANGED xTasksWaitingToSend
      <4>1. uxSchedulerSuspended' = 0
        BY <2>2 DEF TrySend, LockDiscipline, SuspendedLabels
      <4>2. \A x \in Tasks \ {t} : /\ pc'[x] = pc[x] /\ op'[x] = op[x]
                                  /\ path'[x] = path[x]
        BY <2>2 DEF TrySend, Return
      <4> QED BY <2>2, <3>0, <3>1, <4>1, <4>2, WakeLists DEF TrySend
    <3>2. CASE UNCHANGED <<listVars, ready, timed, xPendingReadyList>>
      BY <2>2, <3>0, <3>2 DEF TrySend, Return, listVars
    <3> QED BY <2>2, <3>1, <3>2 DEF TrySend
  <2>3. CASE TryReceive(t)
    <3>0. /\ t \in ready
          /\ t \notin xTasksWaitingToSend \cup xTasksWaitingToReceive
          /\ t \notin xPendingReadyList
      BY <2>3, RunnerOnNoList DEF TryReceive
    <3>1. CASE WakeSender /\ UNCHANGED xTasksWaitingToReceive
      <4>1. uxSchedulerSuspended' = 0
        BY <2>3 DEF TryReceive, LockDiscipline, SuspendedLabels
      <4>2. \A x \in Tasks \ {t} : /\ pc'[x] = pc[x] /\ op'[x] = op[x]
                                  /\ path'[x] = path[x]
        BY <2>3 DEF TryReceive, Return
      <4> QED BY <2>3, <3>0, <3>1, <4>1, <4>2, WakeLists DEF TryReceive
    <3>2. CASE UNCHANGED <<listVars, ready, timed, xPendingReadyList>>
      BY <2>3, <3>0, <3>2 DEF TryReceive, Return, listVars
    <3> QED BY <2>3, <3>1, <3>2 DEF TryReceive
  <2>4. CASE Delay(t) \/ SuspendScheduler(t)
    BY <2>4, RunnerOnNoList DEF Delay, SuspendScheduler, SuspendAll, listVars
  <2>5. CASE LockQueue(t) \/ CheckForTimeOut(t) \/ Test(t)
    BY <2>5, RunnerOnNoList DEF LockQueue, CheckForTimeOut, Test, schedVars,
       listVars
  <2>6. CASE Place(t)
    BY <2>6, RunnerOnNoList DEF Place, AddCurrentTaskToDelayedList, listVars
  <2>7. CASE UnlockTx(t)
    BY <2>7 DEF UnlockTx, Unblock, IsFirst, LockDiscipline, SuspendedLabels
  <2>8. CASE UnlockRx(t)
    BY <2>8 DEF UnlockRx, Unblock, IsFirst, LockDiscipline, SuspendedLabels
  <2>9. CASE Resume(t)
    <3>1. PICK X \in SUBSET timed, already \in BOOLEAN :
             /\ ResumeAll(X, already)
             /\ xTasksWaitingToSend' = xTasksWaitingToSend \ X
             /\ xTasksWaitingToReceive' = xTasksWaitingToReceive \ X
      BY <2>9 DEF Resume
    <3>2. \A x \in Tasks \ {t} : /\ pc'[x] = pc[x] /\ op'[x] = op[x]
                                /\ path'[x] = path[x]
      BY <2>9 DEF Resume, Return
    <3>3. path[t] = "block" /\ op[t] # "delay"
             => Parked(t)' /\ op'[t] = op[t]
      BY <2>9 DEF Resume, Return, Again
    <3>4. t \in xTasksWaitingToSend \cup xTasksWaitingToReceive
             => path[t] = "block"
      BY <2>9 DEF Resume
    <3>5. xPendingReadyList' = {}
      BY <3>1 DEF ResumeAll
    <3>6. /\ ready' = ready \cup xPendingReadyList \cup X
          /\ timed' = timed \ (xPendingReadyList \cup X)
      BY <3>1 DEF ResumeAll
    <3> QED BY <3>1, <3>2, <3>3, <3>4, <3>5, <3>6
  <2>10. CASE Yield(t)
    BY <2>10 DEF Yield, YieldWithinAPI, Again, listVars
  <2>11. CASE Recheck(t)
    BY <2>11, RunnerOnNoList DEF Recheck, Return, schedVars, listVars
  <2> QED
    BY <1>1, <2>1, <2>2, <2>3, <2>4, <2>5, <2>6, <2>7, <2>8, <2>9, <2>10,
       <2>11 DEF TaskStep
<1>2. CASE SendFromISR
  BY <1>0, <1>2, ZenonT(40) DEF SendFromISR, WakeReceiver, Unblock, Highest, callVars
<1>3. CASE ReceiveFromISR
  BY <1>0, <1>3 DEF ReceiveFromISR, WakeSender, Unblock, Highest, callVars
<1>4. CASE Tick
  BY <1>0, <1>4 DEF Tick, IncrementTick, callVars
<1>5. CASE PendSV
  BY <1>0, <1>5 DEF PendSV, SwitchContext, callVars, listVars
<1>6. CASE UNCHANGED vars
  BY <1>0, <1>6 DEF vars, schedVars, listVars, callVars
<1> QED BY <1>1, <1>2, <1>3, <1>4, <1>5, <1>6 DEF Next

LEMMA RunnerStep == Inv2 /\ [Next]_vars => RunnerReady'
<1> SUFFICES ASSUME Inv2, [Next]_vars PROVE RunnerReady'
  OBVIOUS
<1> USE DEF RunnerReady
<1>0. /\ SchedTypeOK /\ CallTypeOK /\ CallShape /\ LockDiscipline /\ RunnerReady
  BY DEF Inv2, Inv1, TypeOK
<1>1. ASSUME NEW t \in Tasks, TaskStep(t) PROVE RunnerReady'
  <2>0. /\ t = pxCurrentTCB /\ ~pendSV /\ pc \in [Tasks -> Labels]
        /\ path \in [Tasks -> {"none", "block", "retry", "expired"}]
    BY <1>0, <1>1 DEF TaskStep, Call, TrySend, TryReceive, Delay,
       SuspendScheduler, LockQueue, CheckForTimeOut, Test, Place, UnlockTx,
       UnlockRx, Resume, Yield, Recheck, At, Running, CallTypeOK
  <2> USE <2>0 DEF At, Running, Goto
  <2>1. CASE \/ Call(t) \/ LockQueue(t) \/ CheckForTimeOut(t) \/ Test(t)
             \/ Recheck(t)
    BY <1>0, <2>1 DEF Call, LockQueue, CheckForTimeOut, Test, Recheck, schedVars
  <2>2. CASE TrySend(t) \/ TryReceive(t)
    <3>1. t \in ready
      BY <1>0, <2>2 DEF TrySend, TryReceive
    <3>2. ready \subseteq ready' /\ pxCurrentTCB' = pxCurrentTCB
      BY <2>2 DEF TrySend, TryReceive, WakeReceiver, WakeSender, Unblock
    <3> QED BY <3>1, <3>2
  <2>3. CASE Delay(t) \/ SuspendScheduler(t)
    BY <1>0, <2>3 DEF Delay, SuspendScheduler, SuspendAll
  <2>4. CASE Place(t)
    BY <1>0, <2>4 DEF Place
  <2>5. CASE UnlockTx(t) \/ UnlockRx(t)
    <3>1. /\ ready \subseteq ready' /\ path' = path
          /\ pxCurrentTCB' = pxCurrentTCB
          /\ pc[t] \in {"unlockTx", "unlockRx"}
          /\ pc'[t] \in {"unlockRx", "resume"}
      BY <2>5 DEF UnlockTx, UnlockRx, Unblock
    <3> QED BY <1>0, <3>1
  <2>6. CASE Resume(t)
    <3>1. PICK X \in SUBSET timed, already \in BOOLEAN :
             /\ ResumeAll(X, already)
             /\ path[t] = "block" /\ ~already =>
                   pc'[t] = "yield" /\ path' = path
      BY <2>6 DEF Resume
    <3>2. uxSchedulerSuspended = 1 /\ pc[t] = "resume"
      BY <1>0, <2>6 DEF Resume, LockDiscipline, SuspendedLabels
    <3>3. CASE already
      <4>1. pendSV' /\ uxSchedulerSuspended' = 0
        <5>1. pendSV'
          BY <3>1, <3>3, Zenon DEF ResumeAll
        <5>2. uxSchedulerSuspended' = 0
          BY <3>1, <3>2 DEF ResumeAll
        <5> QED BY <5>1, <5>2
      <4> QED BY <4>1
    <3>4. CASE ~already /\ path[t] = "block"
      BY <3>1, <3>4 DEF ResumeAll
    <3>5. CASE path[t] # "block"
      <4>1. t \in ready
        BY <1>0, <3>2, <3>5
      <4> QED BY <3>1, <4>1 DEF ResumeAll
    <3> QED BY <3>3, <3>4, <3>5
  <2>7. CASE Yield(t)
    BY <1>0, <2>7 DEF Yield, YieldWithinAPI, LockDiscipline, SuspendedLabels, SchedTypeOK
  <2> QED BY <1>1, <2>1, <2>2, <2>3, <2>4, <2>5, <2>6, <2>7 DEF TaskStep
<1>2. CASE SendFromISR \/ ReceiveFromISR
  <2>1. ready \subseteq ready' /\ UNCHANGED <<pxCurrentTCB, pc, path, uxSchedulerSuspended>>
    BY <1>2 DEF SendFromISR, ReceiveFromISR, WakeReceiver, WakeSender, Unblock, callVars
  <2>2. pendSV => pendSV'
    BY <1>2 DEF SendFromISR, ReceiveFromISR, WakeReceiver, WakeSender, YieldIfHigher
  <2> QED BY <1>0, <2>1, <2>2
<1>3. CASE Tick
  <2>1. ready \subseteq ready' /\ UNCHANGED <<pxCurrentTCB, pc, path, uxSchedulerSuspended>>
    BY <1>3 DEF Tick, IncrementTick, callVars
  <2>2. pendSV => pendSV'
    BY <1>3 DEF Tick, IncrementTick
  <2> QED BY <1>0, <2>1, <2>2
<1>4. CASE PendSV
  BY <1>0, <1>4 DEF PendSV, SwitchContext, Highest, callVars, SchedTypeOK
<1>5. CASE UNCHANGED vars
  BY <1>0, <1>5 DEF vars, schedVars, callVars
<1> QED BY <1>1, <1>2, <1>3, <1>4, <1>5 DEF Next

-----------------------------------------------------------------------------
(* Priorities.                                                              *)

\* Waking a waiter asks for a switch when the waiter has a higher priority.
LEMMA WakePriority ==
    ASSUME Inv2, HighestPriorityRuns, WakeReceiver \/ WakeSender,
           uxSchedulerSuspended = 0,
           UNCHANGED <<pxCurrentTCB, uxSchedulerSuspended>>
    PROVE  HighestPriorityRuns'
<1>1. CASE UNCHANGED <<ready, pendSV>>
  BY <1>1 DEF HighestPriorityRuns
<1>2. CASE \E u \in Tasks : Unblock({u}) /\ YieldIfHigher({u})
  <2>1. PICK u \in Tasks : Unblock({u}) /\ YieldIfHigher({u})
    BY <1>2
  <2>2. ready' = ready \cup {u}
    BY <2>1 DEF Unblock
  <2>3. CASE Prio[u] > Prio[pxCurrentTCB]
    <3>1. pendSV'
      BY <2>1, <2>3, Zenon DEF YieldIfHigher
    <3> QED BY <3>1 DEF HighestPriorityRuns
  <2>4. CASE ~(Prio[u] > Prio[pxCurrentTCB])
    <3>1. pendSV' = pendSV
      BY <2>1, <2>4, Zenon DEF YieldIfHigher
    <3>2. Prio[u] <= Prio[pxCurrentTCB]
      BY <2>4, SchedulerAssumption DEF Inv2, Inv1, TypeOK, SchedTypeOK
    <3> QED BY <2>2, <3>1, <3>2 DEF HighestPriorityRuns
  <2> QED BY <2>3, <2>4
<1> QED
  BY <1>1, <1>2 DEF WakeReceiver, WakeSender, Highest, Inv2, Inv1, TypeOK, LockTypeOK

LEMMA PriorityStep ==
    Inv2 /\ HighestPriorityRuns /\ [Next]_vars => HighestPriorityRuns'
<1> SUFFICES ASSUME Inv2, HighestPriorityRuns, [Next]_vars
             PROVE  HighestPriorityRuns'
  OBVIOUS
<1> USE DEF HighestPriorityRuns
<1>0. /\ SchedTypeOK /\ CallTypeOK /\ LockDiscipline
  BY DEF Inv2, Inv1, TypeOK
<1>1. CASE UNCHANGED <<pxCurrentTCB, ready, pendSV, uxSchedulerSuspended>>
  BY <1>1
<1>2. ASSUME NEW t \in Tasks, TaskStep(t) PROVE HighestPriorityRuns'
  <2>1. CASE TrySend(t) \/ TryReceive(t)
    <3>1. uxSchedulerSuspended = 0
      BY <1>0, <2>1 DEF TrySend, TryReceive, At, Running, LockDiscipline,
         SuspendedLabels, SchedTypeOK
    <3> QED BY <1>1, <2>1, <3>1, WakePriority DEF TrySend, TryReceive
  <2>2. CASE Delay(t) \/ SuspendScheduler(t)
    BY <2>2 DEF Delay, SuspendScheduler, SuspendAll, At, Running
  <2>3. CASE Place(t)
    BY <2>3 DEF Place, AddCurrentTaskToDelayedList
  <2>4. CASE UnlockTx(t) \/ UnlockRx(t)
    <3>1. uxSchedulerSuspended = 1
      BY <1>0, <2>4 DEF UnlockTx, UnlockRx, At, Running, LockDiscipline,
         SuspendedLabels, SchedTypeOK
    <3>2. UNCHANGED <<pxCurrentTCB, pendSV, uxSchedulerSuspended>>
      BY <2>4 DEF UnlockTx, UnlockRx
    <3>3. \E W : Unblock(W)
      BY <2>4 DEF UnlockTx, UnlockRx
    <3>4. ready' = ready
      BY <3>1, <3>3 DEF Unblock
    <3> QED BY <1>1, <3>2, <3>4
  <2>5. CASE Resume(t)
    <3>1. PICK X \in SUBSET timed, already \in BOOLEAN : ResumeAll(X, already)
      BY <2>5 DEF Resume
    <3>2. uxSchedulerSuspended = 1 /\ ~pendSV
      BY <1>0, <2>5 DEF Resume, At, Running, LockDiscipline, SuspendedLabels
    <3>3. CASE already
      <4>1. pendSV'
        BY <3>1, <3>3, Zenon DEF ResumeAll
      <4>2. uxSchedulerSuspended' = 0
        BY <3>1, <3>2 DEF ResumeAll
      <4> QED BY <4>1, <4>2
    <3>4. CASE ~already
      <4>1. ~ \E u \in xPendingReadyList \cup X : Prio[u] >= Prio[pxCurrentTCB]
        BY <3>1, <3>4, Zenon DEF ResumeAll
      <4>2. \A u \in xPendingReadyList \cup X : Prio[u] <= Prio[pxCurrentTCB]
        BY <1>0, <3>1, <4>1, SchedulerAssumption DEF SchedTypeOK
      <4>3. \A u \in ready : Prio[u] <= Prio[pxCurrentTCB]
        BY <3>2
      <4>4. /\ ready' = ready \cup xPendingReadyList \cup X
            /\ pxCurrentTCB' = pxCurrentTCB
        BY <3>1 DEF ResumeAll
      <4> QED BY <4>2, <4>3, <4>4
    <3> QED BY <3>3, <3>4
  <2>6. CASE Yield(t)
    <3>1. uxSchedulerSuspended = 0
      BY <1>0, <2>6 DEF Yield, At, Running, LockDiscipline, SuspendedLabels,
         SchedTypeOK
    <3> QED BY <2>6, <3>1 DEF Yield, YieldWithinAPI
  <2>7. CASE \/ Call(t) \/ LockQueue(t) \/ CheckForTimeOut(t) \/ Test(t)
             \/ Recheck(t)
    BY <1>1, <2>7 DEF Call, LockQueue, CheckForTimeOut, Test, Recheck, schedVars
  <2> QED
    BY <1>2, <2>1, <2>2, <2>3, <2>4, <2>5, <2>6, <2>7 DEF TaskStep
<1>3. CASE SendFromISR \/ ReceiveFromISR
  <2>1. CASE uxSchedulerSuspended = 0
    BY <1>1, <1>3, <2>1, WakePriority DEF SendFromISR, ReceiveFromISR
  <2>2. CASE uxSchedulerSuspended # 0
    BY <1>3, <2>2 DEF SendFromISR, ReceiveFromISR, WakeReceiver, WakeSender,
       Unblock
  <2> QED BY <2>1, <2>2
<1>4. CASE Tick
  <2>1. PICK X \in SUBSET timed : IncrementTick(X)
    BY <1>4 DEF Tick
  <2>2. CASE uxSchedulerSuspended # 0
    BY <2>1, <2>2 DEF IncrementTick
  <2>3. CASE uxSchedulerSuspended = 0
    <3>1. /\ ready' = ready \cup X
          /\ UNCHANGED <<pxCurrentTCB, uxSchedulerSuspended>>
      BY <2>1, <2>3 DEF IncrementTick
    <3>2. CASE xYieldPending \/ \E u \in X : Prio[u] >= Prio[pxCurrentTCB]
      <4>1. pendSV'
        BY <2>1, <2>3, <3>2, Zenon DEF IncrementTick
      <4> QED BY <2>3, <3>1, <4>1
    <3>3. CASE ~(xYieldPending \/ \E u \in X : Prio[u] >= Prio[pxCurrentTCB])
      <4>1. pendSV' = pendSV
        BY <2>1, <2>3, <3>3, Zenon DEF IncrementTick
      <4>2. \A u \in X : Prio[u] <= Prio[pxCurrentTCB]
        BY <1>0, <3>3, SchedulerAssumption DEF SchedTypeOK
      <4> QED BY <3>1, <4>1, <4>2
    <3> QED BY <3>2, <3>3
  <2> QED BY <2>2, <2>3
<1>5. CASE PendSV
  BY <1>5 DEF PendSV, SwitchContext, Highest
<1>6. CASE UNCHANGED vars
  BY <1>1, <1>6 DEF vars, schedVars
<1> QED BY <1>2, <1>3, <1>4, <1>5, <1>6 DEF Next

LEMMA Inv2Step == Inv2 /\ [Next]_vars => Inv2'
BY Inv1Step, ListsStep, RunnerStep DEF Inv2

\* A task waits on one list at a time, inside the call the list is for, and is
\* never ready while it waits.
THEOREM ListsAreConsistent == Spec => []ListsConsistent
<1>1. Inv2 => ListsConsistent
  BY DEF Inv2
<1> QED BY Inv1Init, Inv2Init, Inv2Step, <1>1, PTL DEF Spec, Inv2

\* Preemption: no ready task waits behind one of lower priority without a
\* switch being on its way.
THEOREM HighestPriority == Spec => []HighestPriorityRuns
<1>1. Init => HighestPriorityRuns
  BY DEF Init, SchedInit, Highest, HighestPriorityRuns
<1>2. Init => Inv2
  BY Inv1Init, Inv2Init DEF Inv2
<1> QED BY <1>1, <1>2, Inv2Step, PriorityStep, PTL DEF Spec

-----------------------------------------------------------------------------
(* The queue implements the mailbox.                                        *)

\* What is in the queue, oldest item first: Mbox's mail.
Mail == [i \in 1 .. uxMessagesWaiting |-> storage[Position(i)]]

Callee == [t \in Tasks |-> IF op[t] = "delay" THEN "none" ELSE op[t]]

Patience == [t \in Tasks |-> IF path[t] = "expired" THEN "expired"
                             ELSE xTicksToWait[t]]

\* The write index is the read index plus the count plus one, round the ring.
RingShape ==
    pcReadFrom + uxMessagesWaiting + 1
        \in {pcWriteTo, pcWriteTo + Length, pcWriteTo + 2 * Length}

\* A send has something to send.
SendersHoldAnItem == \A t \in Tasks : op[t] = "send" => item[t] \in Values

MailShape ==
    /\ Mail \in Seq(Values \cup {None})
    /\ Len(Mail) = uxMessagesWaiting
    /\ \A i \in 1 .. uxMessagesWaiting : Mail[i] = storage[Position(i)]

LEMMA MailIsSeq == RingTypeOK => MailShape
<1> SUFFICES ASSUME RingTypeOK PROVE MailShape
  OBVIOUS
<1> USE QueueAssumption
<1>1. uxMessagesWaiting \in Nat
  BY DEF RingTypeOK
<1>2. ASSUME NEW i \in 1 .. uxMessagesWaiting
      PROVE  Position(i) \in Slots
  BY <1>2 DEF RingTypeOK, Slots, Position
<1>3. ASSUME NEW i \in 1 .. uxMessagesWaiting
      PROVE  storage[Position(i)] \in Values \cup {None}
  BY <1>2, <1>3 DEF RingTypeOK
<1>4. Mail \in [1 .. uxMessagesWaiting -> Values \cup {None}]
  BY <1>3 DEF Mail
<1>5. Mail \in Seq(Values \cup {None})
  BY <1>1, <1>4, SeqDef
<1>6. Len(Mail) = uxMessagesWaiting
  BY <1>1, <1>4, <1>5, LenProperties
<1> QED BY <1>5, <1>6 DEF Mail, MailShape

LEMMA MailAppended ==
    ASSUME RingTypeOK, RingTypeOK', RingShape, uxMessagesWaiting < Length,
           NEW v \in Values, CopyDataToQueue(v)
    PROVE  Mail' = Append(Mail, v) /\ RingShape'
<1> USE QueueAssumption DEF CopyDataToQueue
<1> DEFINE S == Values \cup {None}
           n == uxMessagesWaiting
<1>0. n \in Nat
  BY DEF RingTypeOK
<1>1. /\ Mail \in Seq(S) /\ Len(Mail) = n
      /\ \A i \in 1 .. n : Mail[i] = storage[Position(i)]
  BY MailIsSeq DEF MailShape
<1>2. /\ Mail' \in Seq(S) /\ Len(Mail') = n + 1
      /\ \A i \in 1 .. n + 1 : Mail'[i] = storage'[Position(i)']
  <2>1. MailShape'
    BY MailIsSeq, PTL
  <2> QED BY <2>1, <1>0 DEF MailShape, RingTypeOK
<1>3. /\ Append(Mail, v) \in Seq(S) /\ Len(Append(Mail, v)) = n + 1
      /\ \A i \in 1 .. n : Append(Mail, v)[i] = Mail[i]
      /\ Append(Mail, v)[n + 1] = v
  BY <1>1, AppendProperties
<1>4. n \in Nat /\ storage \in [Slots -> S] /\ pcWriteTo \in Slots
  BY DEF RingTypeOK
<1>5. ASSUME NEW i \in 1 .. n
      PROVE  Position(i)' = Position(i) /\ Position(i) \in Slots
             /\ Position(i) # pcWriteTo
  BY <1>5 DEF RingTypeOK, RingShape, Position, Slots
<1>6. ASSUME NEW i, i = n + 1 PROVE Position(i)' = pcWriteTo
  BY <1>6 DEF RingTypeOK, RingShape, Position, Slots
<1>7. \A i \in 1 .. n + 1 : Mail'[i] = Append(Mail, v)[i]
  <2> SUFFICES ASSUME NEW i \in 1 .. n + 1
               PROVE  Mail'[i] = Append(Mail, v)[i]
    OBVIOUS
  <2>1. CASE i \in 1 .. n
    BY <2>1, <1>1, <1>2, <1>3, <1>4, <1>5
  <2>2. CASE i = n + 1
    <3>1. Mail'[i] = storage'[pcWriteTo]
      BY <2>2, <1>2, <1>6
    <3>2. storage'[pcWriteTo] = v
      BY <1>4
    <3> QED BY <2>2, <3>1, <3>2, <1>3
  <2>3. i \in 1 .. n \/ i = n + 1
    BY <1>0
  <2> QED BY <2>1, <2>2, <2>3, Zenon
<1>8. Mail' = Append(Mail, v)
  BY <1>2, <1>3, <1>7, SeqEqual
<1>9. RingShape'
  BY DEF RingTypeOK, RingShape, Slots, Succ
<1> QED BY <1>8, <1>9

LEMMA MailTaken ==
    ASSUME RingTypeOK, RingTypeOK', RingShape, uxMessagesWaiting > 0,
           CopyDataFromQueue
    PROVE  /\ Mail # <<>> /\ Mail' = Tail(Mail)
           /\ Head(Mail) = storage[Succ(pcReadFrom)] /\ RingShape'
<1> USE QueueAssumption DEF CopyDataFromQueue
<1> DEFINE S == Values \cup {None}
           n == uxMessagesWaiting
<1>0. n \in Nat \ {0}
  BY DEF RingTypeOK
<1>1. /\ Mail \in Seq(S) /\ Len(Mail) = n
      /\ \A i \in 1 .. n : Mail[i] = storage[Position(i)]
  BY MailIsSeq DEF MailShape
<1>2. /\ Mail' \in Seq(S) /\ Len(Mail') = n - 1
      /\ \A i \in 1 .. n - 1 : Mail'[i] = storage[Position(i)']
  <2>1. MailShape'
    BY MailIsSeq, PTL
  <2> QED BY <2>1, <1>0 DEF MailShape, RingTypeOK
<1>3. Mail # <<>>
  BY <1>0, <1>1, EmptySeq
<1>4. /\ Tail(Mail) \in Seq(S) /\ Len(Tail(Mail)) = n - 1
      /\ \A i \in 1 .. n - 1 : Tail(Mail)[i] = Mail[i + 1]
  BY <1>1, <1>3, HeadTailProperties
<1>5. ASSUME NEW i \in 1 .. n - 1 PROVE Position(i)' = Position(i + 1)
  BY <1>5, <1>0 DEF RingTypeOK, Position, Slots, Succ
<1>6. \A i \in 1 .. n - 1 : Mail'[i] = Tail(Mail)[i]
  BY <1>0, <1>1, <1>2, <1>4, <1>5, SMTT(30)
<1>7. Mail' = Tail(Mail)
  BY <1>2, <1>4, <1>6, SeqEqual
<1>8. Head(Mail) = storage[Succ(pcReadFrom)]
  <2>1. Head(Mail) = Mail[1]
    BY <1>1, <1>3
  <2>2. Position(1) = Succ(pcReadFrom)
    BY DEF RingTypeOK, Position, Slots, Succ
  <2> QED BY <2>1, <2>2, <1>0, <1>1
<1>9. RingShape'
  BY DEF RingTypeOK, RingShape, Slots, Succ
<1> QED BY <1>3, <1>7, <1>8, <1>9

LEMMA MailKept ==
    ASSUME UNCHANGED ringVars
    PROVE  Mail' = Mail /\ (RingShape => RingShape')
BY DEF ringVars, Mail, Position, RingShape

\* What the proof of the refinement needs of a state.
MailInv == Inv1 /\ RingShape /\ SendersHoldAnItem

LEMMA MailInvInit == Init => MailInv
<1> SUFFICES ASSUME Init PROVE MailInv
  OBVIOUS
<1>1. RingShape /\ SendersHoldAnItem
  BY QueueAssumption DEF Init, RingShape, SendersHoldAnItem
<1> QED BY <1>1, Inv1Init DEF MailInv

LEMMA SendersHoldAnItemStep ==
    ASSUME CallTypeOK, SendersHoldAnItem, [Next]_vars
    PROVE  SendersHoldAnItem'
<1> USE DEF CallTypeOK, SendersHoldAnItem
<1>1. CASE UNCHANGED callVars
  BY <1>1 DEF callVars
<1>2. ASSUME NEW t \in Tasks, TaskStep(t) PROVE SendersHoldAnItem'
  <2>1. CASE Call(t)
    <3>1. PICK c \in Calls[t] :
             /\ op' = [op EXCEPT ![t] = c[1]]
             /\ IF c[1] = "send"
                THEN \E v \in Values : item' = [item EXCEPT ![t] = v]
                ELSE UNCHANGED item
      BY <2>1 DEF Call
    <3> QED BY <3>1
  <2>2. CASE TrySend(t) \/ TryReceive(t)
    BY <2>2 DEF TrySend, TryReceive, Return
  <2>3. CASE Resume(t) \/ Yield(t) \/ Recheck(t)
    BY <2>3 DEF Resume, Yield, Recheck, Return
  <2>4. CASE Delay(t)
    BY <2>4 DEF Delay
  <2> QED
    BY <1>2, <2>1, <2>2, <2>3, <2>4 DEF TaskStep, SuspendScheduler, LockQueue,
       CheckForTimeOut, Test, Place, UnlockTx, UnlockRx
<1>3. CASE SendFromISR \/ ReceiveFromISR \/ Tick \/ PendSV \/ UNCHANGED vars
  BY <1>3, <1>1 DEF SendFromISR, ReceiveFromISR, Tick, PendSV, vars
<1> QED BY <1>2, <1>3 DEF Next

\* What the tasks of the mailbox see when a call ends, or does not.
LEMMA CalleeReturns ==
    ASSUME CallTypeOK, NEW t \in Tasks, NEW r, Return(t, r)
    PROVE  Mbox!Return(t, r)
BY DEF CallTypeOK, Return, Mbox!Return

LEMMA CalleeStays ==
    ASSUME UNCHANGED <<op, path, xTicksToWait, item, result, ringVars>>
    PROVE  UNCHANGED Mbox!vars
BY MailKept DEF Mail, Mbox!vars

LEMMA RefineTrySend ==
    ASSUME MailInv, RingTypeOK', NEW t \in Tasks, TrySend(t)
    PROVE  /\ Mbox!Send(t) \/ Mbox!SendFails(t) \/ UNCHANGED Mbox!vars
           /\ RingShape'
<1>1. /\ RingTypeOK /\ CallTypeOK /\ RingShape
      /\ op[t] = "send" /\ path[t] = "none" /\ item[t] \in Values
  BY DEF MailInv, Inv1, TypeOK, CallShape, CallTypeOK, SendersHoldAnItem,
     TrySend, At
<1>2. Len(Mail) = uxMessagesWaiting
  BY <1>1, MailIsSeq DEF MailShape
<1>3. CASE /\ uxMessagesWaiting < Length
           /\ CopyDataToQueue(item[t]) /\ Return(t, "pass")
           /\ UNCHANGED item
  <2>1. Mail' = Append(Mail, item[t]) /\ RingShape'
    BY <1>1, <1>3, MailAppended
  <2>2. Mbox!Return(t, "pass")
    BY <1>1, <1>3, CalleeReturns
  <2> QED BY <1>1, <1>2, <1>3, <2>1, <2>2 DEF Mail, Mbox!Send
<1>4. CASE /\ uxMessagesWaiting = Length /\ xTicksToWait[t] = "zero"
           /\ Return(t, "full") /\ UNCHANGED <<item, ringVars>>
  <2>1. Mail' = Mail /\ RingShape'
    BY <1>1, <1>4, MailKept
  <2>2. Mbox!Return(t, "full")
    BY <1>1, <1>4, CalleeReturns
  <2> QED BY <1>1, <1>2, <1>4, <2>1, <2>2 DEF Mail, Mbox!SendFails
<1>5. CASE UNCHANGED <<op, path, xTicksToWait, item, result, ringVars>>
  BY <1>1, <1>5, CalleeStays, MailKept
<1> QED BY <1>3, <1>4, <1>5 DEF TrySend

LEMMA RefineTryReceive ==
    ASSUME MailInv, RingTypeOK', NEW t \in Tasks, TryReceive(t)
    PROVE  /\ \/ Mbox!Receive(t) \/ Mbox!ReceiveFails(t)
              \/ UNCHANGED Mbox!vars
           /\ RingShape'
<1>1. /\ RingTypeOK /\ CallTypeOK /\ RingShape
      /\ op[t] = "receive" /\ path[t] = "none"
  BY DEF MailInv, Inv1, TypeOK, CallShape, CallTypeOK, TryReceive, At
<1>2. /\ Len(Mail) = uxMessagesWaiting
      /\ Mail \in Seq(Values \cup {None})
  BY <1>1, MailIsSeq DEF MailShape
<1>3. CASE /\ uxMessagesWaiting > 0 /\ CopyDataFromQueue
           /\ item' = [item EXCEPT ![t] = storage[Succ(pcReadFrom)]]
           /\ Return(t, "pass")
  <2>1. /\ Mail # <<>> /\ Mail' = Tail(Mail)
        /\ Head(Mail) = storage[Succ(pcReadFrom)] /\ RingShape'
    BY <1>1, <1>3, MailTaken
  <2>2. Mbox!Return(t, "pass")
    BY <1>1, <1>3, CalleeReturns
  <2> QED BY <1>1, <1>3, <2>1, <2>2 DEF Mail, Mbox!Receive
<1>4. CASE /\ uxMessagesWaiting = 0 /\ xTicksToWait[t] = "zero"
           /\ Return(t, "empty") /\ UNCHANGED <<item, ringVars>>
  <2>1. Mail' = Mail /\ RingShape' /\ Mail = <<>>
    BY <1>1, <1>2, <1>4, MailKept
  <2>2. Mbox!Return(t, "empty")
    BY <1>1, <1>4, CalleeReturns
  <2> QED BY <1>1, <1>4, <2>1, <2>2 DEF Mail, Mbox!ReceiveFails
<1>5. CASE UNCHANGED <<op, path, xTicksToWait, item, result, ringVars>>
  BY <1>1, <1>5, CalleeStays, MailKept
<1> QED BY <1>3, <1>4, <1>5 DEF TryReceive

\* The steps that decide what becomes of a call.
LEMMA RefineCall ==
    ASSUME MailInv, NEW t \in Tasks, Call(t)
    PROVE  Mbox!Begin(t) /\ UNCHANGED ringVars
<1>1. CallTypeOK /\ op[t] = "none" /\ path[t] = "none" /\ Mail' = Mail
  BY MailKept DEF MailInv, Inv1, TypeOK, CallShape, CallTypeOK, Call, At
<1>2. PICK c \in Calls[t] :
         /\ op' = [op EXCEPT ![t] = c[1]]
         /\ xTicksToWait' = [xTicksToWait EXCEPT ![t] = c[2]]
         /\ IF c[1] = "send"
            THEN \E v \in Values : item' = [item EXCEPT ![t] = v]
            ELSE UNCHANGED item
  BY DEF Call
<1>3. c[1] \in {"send", "receive"} /\ c[2] \in {"zero", "finite", "infinite"}
  BY QueueAssumption
<1>4. Callee[t] = "none" /\ Callee' = [Callee EXCEPT ![t] = c[1]]
  BY <1>1, <1>2, <1>3 DEF CallTypeOK, Callee
<1>5. Patience' = [Patience EXCEPT ![t] = c[2]]
  BY <1>1, <1>2, <1>3 DEF CallTypeOK, Patience, Call
<1> QED
  BY <1>1, <1>2, <1>3, <1>4, <1>5 DEF Call, Mail, Callee, Patience, Mbox!Begin

LEMMA RefineCheckForTimeOut ==
    ASSUME MailInv, NEW t \in Tasks, CheckForTimeOut(t)
    PROVE  (Mbox!Expire(t) \/ UNCHANGED Mbox!vars) /\ UNCHANGED ringVars
<1>1. /\ CallTypeOK /\ op[t] \notin {"none", "delay"} /\ path[t] = "none"
      /\ Mail' = Mail
  BY MailKept DEF MailInv, Inv1, TypeOK, CallShape, CallTypeOK,
     CheckForTimeOut, At
<1>2. CASE UNCHANGED <<path, xTicksToWait>>
  BY <1>2, CalleeStays DEF CheckForTimeOut
<1>3. CASE /\ xTicksToWait[t] = "finite"
           /\ xTicksToWait' = [xTicksToWait EXCEPT ![t] = "zero"]
           /\ path' = [path EXCEPT ![t] = "expired"]
  <2>1. Patience[t] = "finite"
        /\ Patience' = [Patience EXCEPT ![t] = "expired"]
    BY <1>1, <1>3 DEF CallTypeOK, Patience
  <2> QED
    BY <1>1, <1>3, <2>1 DEF CheckForTimeOut, Mail, Patience, Mbox!Expire
<1> QED BY <1>2, <1>3 DEF CheckForTimeOut

LEMMA RefineResume ==
    ASSUME MailInv, NEW t \in Tasks, Resume(t)
    PROVE  (Mbox!SendFails(t) \/ UNCHANGED Mbox!vars) /\ UNCHANGED ringVars
<1>1. /\ CallTypeOK /\ Mail' = Mail /\ UNCHANGED <<item, ringVars>>
      /\ path[t] = "expired" => xTicksToWait[t] = "zero"
  BY MailKept DEF MailInv, Inv1, TypeOK, CallShape, Resume
<1>2. CASE UNCHANGED <<op, path, xTicksToWait, result>>
  BY <1>1, <1>2, CalleeStays
<1>3. CASE /\ path[t] \in {"retry", "block"}
           /\ path' = [path EXCEPT ![t] = "none"]
           /\ op' = [op EXCEPT ![t] = IF @ = "delay" THEN "none" ELSE @]
           /\ UNCHANGED <<xTicksToWait, result>>
  <2>1. Callee' = Callee /\ Patience' = Patience
    BY <1>1, <1>3 DEF CallTypeOK, Callee, Patience
  <2> QED BY <1>1, <1>3, <2>1 DEF Mail, Callee, Patience, Mbox!vars
<1>4. CASE path[t] = "expired" /\ op[t] = "send" /\ Return(t, "full")
  BY <1>1, <1>4, CalleeReturns DEF Mail, Mbox!SendFails
<1> QED BY <1>2, <1>3, <1>4 DEF Resume

LEMMA RefineYield ==
    ASSUME MailInv, NEW t \in Tasks, Yield(t)
    PROVE  UNCHANGED Mbox!vars /\ UNCHANGED ringVars
<1>1. /\ CallTypeOK /\ Mail' = Mail /\ path[t] = "block"
  BY MailKept DEF MailInv, Inv1, TypeOK, CallShape, Yield, At
<1>2. Callee' = Callee /\ Patience' = Patience
  BY <1>1 DEF CallTypeOK, Callee, Patience, Yield
<1> QED BY <1>1, <1>2 DEF Yield, Mail, Callee, Patience, Mbox!vars

LEMMA RefineRecheck ==
    ASSUME MailInv, NEW t \in Tasks, Recheck(t)
    PROVE  (Mbox!ReceiveFails(t) \/ Mbox!LastTry(t)) /\ UNCHANGED ringVars
<1>1. /\ RingTypeOK /\ CallTypeOK /\ Mail' = Mail
      /\ path[t] = "expired" /\ op[t] = "receive" /\ xTicksToWait[t] = "zero"
  BY MailKept DEF MailInv, Inv1, TypeOK, CallShape, Recheck, At
<1>2. Mail = <<>> <=> uxMessagesWaiting = 0
  BY <1>1, MailIsSeq, EmptySeq DEF MailShape
<1>3. CASE uxMessagesWaiting = 0 /\ Return(t, "empty")
  BY <1>1, <1>2, <1>3, CalleeReturns DEF Recheck, Mail, Mbox!ReceiveFails
<1>4. CASE /\ uxMessagesWaiting > 0 /\ path' = [path EXCEPT ![t] = "none"]
           /\ UNCHANGED <<op, xTicksToWait, result>>
  <2>1. Patience[t] = "expired"
        /\ Patience' = [Patience EXCEPT ![t] = "zero"]
    BY <1>1, <1>4 DEF CallTypeOK, Patience
  <2>2. uxMessagesWaiting # 0
    BY <1>4
  <2> QED
    BY <1>1, <1>2, <1>4, <2>1, <2>2 DEF Recheck, Mail, Patience, Mbox!LastTry
<1> QED BY <1>3, <1>4 DEF Recheck

\* The steps a mailbox knows nothing of.
LEMMA RefineDelay ==
    ASSUME MailInv, NEW t \in Tasks, Delay(t)
    PROVE  UNCHANGED Mbox!vars /\ UNCHANGED ringVars
<1>1. CallTypeOK /\ Mail' = Mail /\ op[t] = "none"
  BY MailKept DEF MailInv, Inv1, TypeOK, CallShape, Delay, At
<1>2. Callee' = Callee
  BY <1>1 DEF CallTypeOK, Callee, Delay
<1> QED BY <1>1, <1>2 DEF Delay, Mail, Callee, Mbox!vars

LEMMA RefineBlocking ==
    ASSUME MailInv, NEW t \in Tasks,
           \/ SuspendScheduler(t) \/ LockQueue(t) \/ Test(t) \/ Place(t)
           \/ UnlockTx(t) \/ UnlockRx(t)
    PROVE  UNCHANGED Mbox!vars /\ UNCHANGED ringVars
<1>1. /\ CallTypeOK /\ Mail' = Mail
      /\ UNCHANGED <<op, xTicksToWait, item, result, ringVars>>
  BY MailKept DEF MailInv, Inv1, TypeOK, SuspendScheduler, LockQueue, Test,
     Place, UnlockTx, UnlockRx
<1>2. \/ UNCHANGED path
      \/ /\ path[t] = "none"
         /\ path' = [path EXCEPT ![t] = "retry"]
      \/ /\ path[t] = "none"
         /\ path' = [path EXCEPT ![t] = "block"]
  BY DEF MailInv, Inv1, CallShape, At, SuspendScheduler, LockQueue, Test,
     Place, UnlockTx, UnlockRx
<1>3. Patience' = Patience
  BY <1>1, <1>2 DEF CallTypeOK, Patience
<1> QED BY <1>1, <1>3 DEF Mail, Patience, Mbox!vars

LEMMA RefineISR ==
    ASSUME MailInv, RingTypeOK', SendFromISR \/ ReceiveFromISR
    PROVE  (Mbox!SendFromISR \/ Mbox!ReceiveFromISR) /\ RingShape'
<1>1. RingTypeOK /\ RingShape /\ Len(Mail) = uxMessagesWaiting
  BY MailIsSeq DEF MailInv, Inv1, TypeOK, MailShape
<1>2. CASE SendFromISR
  <2>1. PICK v \in Values : CopyDataToQueue(v)
    BY <1>2 DEF SendFromISR
  <2>2. Mail' = Append(Mail, v) /\ RingShape'
    BY <1>1, <1>2, <2>1, MailAppended DEF SendFromISR
  <2> QED
    BY <1>1, <1>2, <2>2 DEF SendFromISR, callVars, Mail, Mbox!SendFromISR
<1>3. CASE ReceiveFromISR
  <2>1. Mail # <<>> /\ Mail' = Tail(Mail) /\ RingShape'
    BY <1>1, <1>3, MailTaken DEF ReceiveFromISR
  <2> QED
    BY <1>3, <2>1 DEF ReceiveFromISR, callVars, Mail, Mbox!ReceiveFromISR
<1> QED BY <1>2, <1>3

\* Every step of the queue is one operation of the mailbox, or none.
LEMMA MailStep ==
    ASSUME MailInv, Inv1', [Next]_vars
    PROVE  [Mbox!Next]_(Mbox!vars) /\ RingShape'
<1>0. RingShape /\ RingTypeOK'
  BY DEF MailInv, Inv1, TypeOK
<1>1. ASSUME NEW t \in Tasks, TaskStep(t)
      PROVE  [Mbox!Next]_(Mbox!vars) /\ RingShape'
  <2>1. CASE TrySend(t)
    BY <1>0, <2>1, RefineTrySend DEF Mbox!Next
  <2>2. CASE TryReceive(t)
    BY <1>0, <2>2, RefineTryReceive DEF Mbox!Next
  <2>3. CASE Call(t)
    BY <1>0, <2>3, RefineCall, MailKept DEF Mbox!Next
  <2>4. CASE CheckForTimeOut(t)
    BY <1>0, <2>4, RefineCheckForTimeOut, MailKept DEF Mbox!Next
  <2>5. CASE Resume(t)
    BY <1>0, <2>5, RefineResume, MailKept DEF Mbox!Next
  <2>6. CASE Yield(t)
    BY <1>0, <2>6, RefineYield, MailKept
  <2>7. CASE Recheck(t)
    BY <1>0, <2>7, RefineRecheck, MailKept DEF Mbox!Next
  <2>8. CASE Delay(t)
    BY <1>0, <2>8, RefineDelay, MailKept
  <2>9. CASE \/ SuspendScheduler(t) \/ LockQueue(t) \/ Test(t) \/ Place(t)
             \/ UnlockTx(t) \/ UnlockRx(t)
    BY <1>0, <2>9, RefineBlocking, MailKept
  <2> QED
    BY <1>1, <2>1, <2>2, <2>3, <2>4, <2>5, <2>6, <2>7, <2>8, <2>9 DEF TaskStep
<1>2. CASE SendFromISR \/ ReceiveFromISR
  BY <1>0, <1>2, RefineISR DEF Mbox!Next
<1>3. CASE Tick \/ PendSV \/ UNCHANGED vars
  BY <1>0, <1>3, CalleeStays, MailKept DEF Tick, PendSV, vars, callVars
<1> QED BY <1>1, <1>2, <1>3 DEF Next

LEMMA MailInit == Init => Mbox!Init
<1> SUFFICES ASSUME Init PROVE Mbox!Init
  OBVIOUS
<1>1. Mail = <<>>
  BY DEF Init, Mail
<1> QED BY <1>1 DEF Init, Mail, Mbox!Init

\* The queue is a mailbox, whatever its length, tasks, priorities and block
\* times: to its users every operation takes effect at one instant on one
\* bounded FIFO, however tasks are parked, woken, timed out and preempted.
THEOREM QueueIsMailbox == Spec => MailboxSpec
<1>1. MailInv /\ [Next]_vars => MailInv' /\ [Mbox!Next]_(Mbox!vars)
  <2> SUFFICES ASSUME MailInv, [Next]_vars
               PROVE  MailInv' /\ [Mbox!Next]_(Mbox!vars)
    OBVIOUS
  <2>1. Inv1'
    BY Inv1Step DEF MailInv
  <2>2. SendersHoldAnItem'
    BY SendersHoldAnItemStep DEF MailInv, Inv1, TypeOK
  <2> QED BY <2>1, <2>2, MailStep DEF MailInv
<1> QED BY MailInvInit, MailInit, <1>1, PTL DEF Spec, MailboxSpec, Mbox!Spec

=============================================================================
