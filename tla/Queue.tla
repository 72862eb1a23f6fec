-------------------------------- MODULE Queue --------------------------------
(***************************************************************************)
(* freertos_kernel/queue.c: a queue shared by tasks that block on it and   *)
(* by interrupt handlers that must not touch its event lists while a task  *)
(* is working on them.                                                     *)
(*                                                                         *)
(* Each critical section of the code is one action; interrupts (the tick,  *)
(* a driver posting or fetching, PendSV) may come between any two of them. *)
(* A blocking call goes                                                    *)
(*    try -> suspend -> lock -> timeout -> test -> place ->                *)
(*       unlockTx -> unlockRx -> resume -> yield -> try ...                *)
(* and path records, from the test on, why it is unlocking the queue.      *)
(***************************************************************************)
EXTENDS Scheduler

CONSTANTS
    Length,         \* uxLength
    Values,         \* what may be posted
    None,           \* the content of a slot or variable nothing was stored in
    Calls,          \* the calls each task makes: pairs <<operation, block time>>
    Sleepers,       \* the tasks that call vTaskDelay
    IsrCalls,       \* what interrupt handlers do: subset of {"send", "receive"}
    LockMax         \* bound: cTxLock and cRxLock stay at or below it

ASSUME QueueAssumption ==
    /\ Length \in Nat \ {0}
    /\ LockMax \in Nat
    /\ None \notin Values
    /\ Calls \in [Tasks -> SUBSET ({"send", "receive"} \X
                                   {"zero", "finite", "infinite"})]
    /\ Calls[Idle] = {} /\ Idle \notin Sleepers
    /\ IsrCalls \subseteq {"send", "receive"}

VARIABLES
    storage,                    \* the item slots, 0 .. Length-1
    pcWriteTo, pcReadFrom,      \* next slot to write, last slot read
    uxMessagesWaiting,          \* items in the queue
    cTxLock, cRxLock,           \* queueUNLOCKED (-1), or items while locked
    xTasksWaitingToSend,        \* the two event lists
    xTasksWaitingToReceive,
    pc,                         \* where each task is in the queue code
    op,                         \* "send", "receive", "delay" or "none"
    path,                       \* "block", "retry", "expired" or "none"
    xTicksToWait,               \* "zero", "finite" or "infinite"
    item,                       \* pvItemToQueue, or what pvBuffer received
    result                      \* what the task's last call returned

ringVars == <<storage, pcWriteTo, pcReadFrom, uxMessagesWaiting>>
lockVars == <<cTxLock, cRxLock>>
listVars == <<xTasksWaitingToSend, xTasksWaitingToReceive>>
callVars == <<pc, op, path, xTicksToWait, item, result>>
vars == <<schedVars, ringVars, lockVars, listVars, callVars>>

queueUNLOCKED == -1
queueLOCKED_UNMODIFIED == 0

Slots == 0 .. Length - 1

Init ==
    /\ SchedInit
    /\ storage = [i \in Slots |-> None]
    /\ pcWriteTo = 0 /\ pcReadFrom = Length - 1
    /\ uxMessagesWaiting = 0
    /\ cTxLock = queueUNLOCKED /\ cRxLock = queueUNLOCKED
    /\ xTasksWaitingToSend = {} /\ xTasksWaitingToReceive = {}
    /\ pc = [t \in Tasks |-> "user"]
    /\ op = [t \in Tasks |-> "none"]
    /\ path = [t \in Tasks |-> "none"]
    /\ xTicksToWait = [t \in Tasks |-> "zero"]
    /\ item = [t \in Tasks |-> None]
    /\ result = [t \in Tasks |-> "pass"]

-----------------------------------------------------------------------------
(* The ring of item slots.                                                  *)

\* Mutant: one slot too many.
SuccLate(i) == IF i + 1 > Length THEN 0 ELSE i + 1

\* The slot after i (pcTail marks the end of the storage).
Succ(i) == IF i + 1 = Length THEN 0 ELSE i + 1

\* Mutant: the pointer advances before the copy.
CopyDataToQueueAhead(v) ==
    /\ storage' = [storage EXCEPT ![Succ(pcWriteTo)] = v]
    /\ pcWriteTo' = Succ(pcWriteTo)
    /\ uxMessagesWaiting' = uxMessagesWaiting + 1
    /\ UNCHANGED pcReadFrom

\* prvCopyDataToQueue with queueSEND_TO_BACK
CopyDataToQueue(v) ==
    /\ storage' = [storage EXCEPT ![pcWriteTo] = v]
    /\ pcWriteTo' = Succ(pcWriteTo)
    /\ uxMessagesWaiting' = uxMessagesWaiting + 1
    /\ UNCHANGED pcReadFrom

\* prvCopyDataFromQueue and the decrement its callers do
CopyDataFromQueue ==
    /\ pcReadFrom' = Succ(pcReadFrom)
    /\ uxMessagesWaiting' = uxMessagesWaiting - 1
    /\ UNCHANGED <<storage, pcWriteTo>>

\* Mutants: nobody is woken.
WakeReceiverMissed ==
    UNCHANGED <<xTasksWaitingToReceive, ready, timed, xPendingReadyList,
                xYieldPending, pendSV>>
WakeSenderMissed ==
    UNCHANGED <<xTasksWaitingToSend, ready, timed, xPendingReadyList,
                xYieldPending, pendSV>>

\* Wake the head of an event list, if there is one, and yield to it if its
\* priority is higher than the current task's.
WakeReceiver ==
    \/ /\ xTasksWaitingToReceive = {}
       /\ UNCHANGED <<xTasksWaitingToReceive, ready, timed, xPendingReadyList,
                      xYieldPending, pendSV>>
    \/ \E u \in Highest(xTasksWaitingToReceive) :
          /\ xTasksWaitingToReceive' = xTasksWaitingToReceive \ {u}
          /\ Unblock({u})
          /\ YieldIfHigher({u})

WakeSender ==
    \/ /\ xTasksWaitingToSend = {}
       /\ UNCHANGED <<xTasksWaitingToSend, ready, timed, xPendingReadyList,
                      xYieldPending, pendSV>>
    \/ \E u \in Highest(xTasksWaitingToSend) :
          /\ xTasksWaitingToSend' = xTasksWaitingToSend \ {u}
          /\ Unblock({u})
          /\ YieldIfHigher({u})

-----------------------------------------------------------------------------
(* The calls a task makes.                                                  *)

At(t, label) == Running(t) /\ pc[t] = label

Goto(t, label) == pc' = [pc EXCEPT ![t] = label]

\* The call of t returns r to user code.
Return(t, r) ==
    /\ Goto(t, "user")
    /\ op' = [op EXCEPT ![t] = "none"]
    /\ path' = [path EXCEPT ![t] = "none"]
    /\ xTicksToWait' = [xTicksToWait EXCEPT ![t] = "zero"]
    /\ result' = [result EXCEPT ![t] = r]

\* The task calls xQueueSendToBack or xQueueReceive (sys_mbox_post, trypost,
\* fetch and tryfetch call them with the three kinds of block time).
Call(t) ==
    /\ At(t, "user")
    /\ \E c \in Calls[t] :
          /\ op' = [op EXCEPT ![t] = c[1]]
          /\ xTicksToWait' = [xTicksToWait EXCEPT ![t] = c[2]]
          /\ IF c[1] = "send"
             THEN \E v \in Values : item' = [item EXCEPT ![t] = v]
             ELSE UNCHANGED item
    /\ Goto(t, "try")
    /\ UNCHANGED <<path, result, schedVars, ringVars, lockVars, listVars>>

\* xQueueGenericSend, first critical section: store, or give up, or wait.
TrySend(t) ==
    /\ At(t, "try") /\ op[t] = "send"
    /\ \/ /\ uxMessagesWaiting < Length
          /\ CopyDataToQueue(item[t])
          /\ WakeReceiver
          /\ Return(t, "pass")
          /\ UNCHANGED <<item, xTasksWaitingToSend, lockVars>>
       \/ /\ uxMessagesWaiting = Length /\ xTicksToWait[t] = "zero"
          /\ Return(t, "full")
          /\ UNCHANGED <<item, listVars, lockVars, ringVars, ready, timed,
                         xPendingReadyList, xYieldPending, pendSV>>
       \/ /\ uxMessagesWaiting = Length /\ xTicksToWait[t] # "zero"
          /\ Goto(t, "suspend")
          /\ UNCHANGED <<op, path, xTicksToWait, item, result, listVars,
                         lockVars, ringVars, ready, timed, xPendingReadyList,
                         xYieldPending, pendSV>>
    /\ UNCHANGED <<pxCurrentTCB, uxSchedulerSuspended, uxPendedTicks>>

\* xQueueReceive, first critical section.
TryReceive(t) ==
    /\ At(t, "try") /\ op[t] = "receive"
    /\ \/ /\ uxMessagesWaiting > 0
          /\ CopyDataFromQueue
          /\ item' = [item EXCEPT ![t] = storage[Succ(pcReadFrom)]]
          /\ WakeSender
          /\ Return(t, "pass")
          /\ UNCHANGED <<xTasksWaitingToReceive, lockVars>>
       \/ /\ uxMessagesWaiting = 0 /\ xTicksToWait[t] = "zero"
          /\ Return(t, "empty")
          /\ UNCHANGED <<item, listVars, lockVars, ringVars, ready, timed,
                         xPendingReadyList, xYieldPending, pendSV>>
       \/ /\ uxMessagesWaiting = 0 /\ xTicksToWait[t] # "zero"
          /\ Goto(t, "suspend")
          /\ UNCHANGED <<op, path, xTicksToWait, item, result, listVars,
                         lockVars, ringVars, ready, timed, xPendingReadyList,
                         xYieldPending, pendSV>>
    /\ UNCHANGED <<pxCurrentTCB, uxSchedulerSuspended, uxPendedTicks>>

\* vTaskDelay, called by a task that has nothing else to do.
Delay(t) ==
    /\ At(t, "user") /\ t \in Sleepers
    /\ Goto(t, "place")
    /\ op' = [op EXCEPT ![t] = "delay"]
    /\ SuspendAll
    /\ UNCHANGED <<path, xTicksToWait, item, result, ringVars, lockVars,
                   listVars>>

-----------------------------------------------------------------------------
(* The blocking part: scheduler suspended, queue locked.                    *)

\* Mutant: the scheduler goes on.
SuspendSchedulerMissed(t) ==
    /\ At(t, "suspend")
    /\ Goto(t, "lock")
    /\ UNCHANGED <<op, path, xTicksToWait, item, result, schedVars, ringVars,
                   lockVars, listVars>>

\* vTaskSuspendAll, before the queue is locked.
SuspendScheduler(t) ==
    /\ At(t, "suspend")
    /\ SuspendAll
    /\ Goto(t, "lock")
    /\ UNCHANGED <<op, path, xTicksToWait, item, result, ringVars, lockVars,
                   listVars>>

\* Mutant: only one of the two locks is taken.
LockQueueTx(t) ==
    /\ At(t, "lock")
    /\ cTxLock' = IF cTxLock = queueUNLOCKED THEN queueLOCKED_UNMODIFIED
                                             ELSE cTxLock
    /\ Goto(t, "timeout")
    /\ UNCHANGED <<op, path, xTicksToWait, item, result, schedVars, ringVars,
                   listVars, cRxLock>>

\* prvLockQueue
LockQueue(t) ==
    /\ At(t, "lock")
    /\ cRxLock' = IF cRxLock = queueUNLOCKED THEN queueLOCKED_UNMODIFIED
                                             ELSE cRxLock
    /\ cTxLock' = IF cTxLock = queueUNLOCKED THEN queueLOCKED_UNMODIFIED
                                             ELSE cTxLock
    /\ Goto(t, "timeout")
    /\ UNCHANGED <<op, path, xTicksToWait, item, result, schedVars, ringVars,
                   listVars>>

\* xTaskCheckForTimeOut: only a finite wait can be over, and then *pxTicksToWait
\* is set to 0.
CheckForTimeOut(t) ==
    /\ At(t, "timeout")
    /\ \/ /\ Goto(t, "test")
          /\ UNCHANGED <<path, xTicksToWait>>
       \/ /\ xTicksToWait[t] = "finite"
          /\ xTicksToWait' = [xTicksToWait EXCEPT ![t] = "zero"]
          /\ path' = [path EXCEPT ![t] = "expired"]
          /\ Goto(t, "unlockTx")
    /\ UNCHANGED <<op, item, result, schedVars, ringVars, lockVars, listVars>>

\* prvIsQueueFull, prvIsQueueEmpty
MustWait(t) ==
    IF op[t] = "send" THEN uxMessagesWaiting = Length ELSE uxMessagesWaiting = 0

Test(t) ==
    /\ At(t, "test")
    /\ IF MustWait(t)
       THEN /\ Goto(t, "place")
            /\ UNCHANGED path
       ELSE /\ Goto(t, "unlockTx")
            /\ path' = [path EXCEPT ![t] = "retry"]
    /\ UNCHANGED <<op, xTicksToWait, item, result, schedVars, ringVars,
                   lockVars, listVars>>

\* vTaskPlaceOnEventList, or vTaskDelay's prvAddCurrentTaskToDelayedList.
Place(t) ==
    /\ At(t, "place")
    /\ path' = [path EXCEPT ![t] = "block"]
    /\ AddCurrentTaskToDelayedList(t, xTicksToWait[t] # "infinite")
    /\ \/ /\ op[t] = "send"
          /\ xTasksWaitingToSend' = xTasksWaitingToSend \cup {t}
          /\ UNCHANGED xTasksWaitingToReceive
          /\ Goto(t, "unlockTx")
       \/ /\ op[t] = "receive"
          /\ xTasksWaitingToReceive' = xTasksWaitingToReceive \cup {t}
          /\ UNCHANGED xTasksWaitingToSend
          /\ Goto(t, "unlockTx")
       \/ /\ op[t] = "delay"
          /\ UNCHANGED listVars
          /\ Goto(t, "resume")
    /\ UNCHANGED <<op, xTicksToWait, item, result, ringVars, lockVars,
                   pxCurrentTCB, xPendingReadyList, uxSchedulerSuspended,
                   xYieldPending, pendSV, uxPendedTicks>>

\* W may be what a loop that removes the head of list n times, or until the
\* list is empty, removes.
IsFirst(W, n, list) ==
    /\ W \subseteq list
    /\ \A u \in W, x \in list \ W : Prio[x] <= Prio[u]
    /\ Cardinality(W) <= n
    /\ Cardinality(W) < n => W = list

\* prvUnlockQueue, first critical section: one waiting receiver is woken for
\* each item an interrupt added while the queue was locked.
UnlockTx(t) ==
    /\ At(t, "unlockTx")
    /\ \E W \in SUBSET xTasksWaitingToReceive :
          /\ IsFirst(W, cTxLock, xTasksWaitingToReceive)
          /\ xTasksWaitingToReceive' = xTasksWaitingToReceive \ W
          /\ Unblock(W)
    /\ cTxLock' = queueUNLOCKED
    /\ Goto(t, "unlockRx")
    /\ UNCHANGED <<op, path, xTicksToWait, item, result, ringVars, cRxLock,
                   xTasksWaitingToSend, pxCurrentTCB, uxSchedulerSuspended,
                   pendSV, uxPendedTicks>>

\* prvUnlockQueue, second critical section: the same for waiting senders.
UnlockRx(t) ==
    /\ At(t, "unlockRx")
    /\ \E W \in SUBSET xTasksWaitingToSend :
          /\ IsFirst(W, cRxLock, xTasksWaitingToSend)
          /\ xTasksWaitingToSend' = xTasksWaitingToSend \ W
          /\ Unblock(W)
    /\ cRxLock' = queueUNLOCKED
    /\ Goto(t, "resume")
    /\ UNCHANGED <<op, path, xTicksToWait, item, result, ringVars, cTxLock,
                   xTasksWaitingToReceive, pxCurrentTCB, uxSchedulerSuspended,
                   pendSV, uxPendedTicks>>

\* A finished delay returns to user code, a queue call loops.
Again(t) == IF op[t] = "delay" THEN "user" ELSE "try"

\* xTaskResumeAll and what the call does next: a task that blocked yields
\* unless the resume already did, an expired send returns, an expired receive
\* looks at the queue once more.
Resume(t) ==
    /\ At(t, "resume")
    /\ \E X \in SUBSET timed, already \in BOOLEAN :
          /\ ResumeAll(X, already)
          /\ xTasksWaitingToSend' = xTasksWaitingToSend \ X
          /\ xTasksWaitingToReceive' = xTasksWaitingToReceive \ X
          /\ \/ /\ path[t] = "block" /\ ~already
                /\ Goto(t, "yield")
                /\ UNCHANGED <<op, path, xTicksToWait, result>>
             \/ /\ path[t] = "retry" \/ (path[t] = "block" /\ already)
                /\ Goto(t, Again(t))
                /\ path' = [path EXCEPT ![t] = "none"]
                /\ op' = [op EXCEPT ![t] = IF @ = "delay" THEN "none" ELSE @]
                /\ UNCHANGED <<xTicksToWait, result>>
             \/ /\ path[t] = "expired" /\ op[t] = "send"
                /\ Return(t, "full")
             \/ /\ path[t] = "expired" /\ op[t] = "receive"
                /\ Goto(t, "recheck")
                /\ UNCHANGED <<op, path, xTicksToWait, result>>
    /\ UNCHANGED <<item, ringVars, lockVars>>

Yield(t) ==
    /\ At(t, "yield")
    /\ YieldWithinAPI
    /\ Goto(t, Again(t))
    /\ path' = [path EXCEPT ![t] = "none"]
    /\ op' = [op EXCEPT ![t] = IF @ = "delay" THEN "none" ELSE @]
    /\ UNCHANGED <<xTicksToWait, item, result, ringVars, lockVars, listVars>>

\* xQueueReceive, timed out: give up only if the queue is empty.
Recheck(t) ==
    /\ At(t, "recheck")
    /\ \/ /\ uxMessagesWaiting = 0
          /\ Return(t, "empty")
       \/ /\ uxMessagesWaiting > 0
          /\ Goto(t, "try")
          /\ path' = [path EXCEPT ![t] = "none"]
          /\ UNCHANGED <<op, xTicksToWait, result>>
    /\ UNCHANGED <<item, schedVars, ringVars, lockVars, listVars>>

-----------------------------------------------------------------------------
(* Interrupts.                                                              *)

\* xQueueGenericSendFromISR, and the handler's portYIELD_FROM_ISR.
SendFromISR ==
    /\ "send" \in IsrCalls
    /\ uxMessagesWaiting < Length
    /\ cTxLock < LockMax
    /\ \E v \in Values : CopyDataToQueue(v)
    /\ IF cTxLock = queueUNLOCKED
       THEN /\ WakeReceiver
            /\ UNCHANGED cTxLock
       ELSE /\ cTxLock' = cTxLock + 1
            /\ UNCHANGED <<xTasksWaitingToReceive, ready, timed,
                           xPendingReadyList, xYieldPending, pendSV>>
    /\ UNCHANGED <<cRxLock, xTasksWaitingToSend, callVars, pxCurrentTCB,
                   uxSchedulerSuspended, uxPendedTicks>>

\* xQueueReceiveFromISR
ReceiveFromISR ==
    /\ "receive" \in IsrCalls
    /\ uxMessagesWaiting > 0
    /\ cRxLock < LockMax
    /\ CopyDataFromQueue
    /\ IF cRxLock = queueUNLOCKED
       THEN /\ WakeSender
            /\ UNCHANGED cRxLock
       ELSE /\ cRxLock' = cRxLock + 1
            /\ UNCHANGED <<xTasksWaitingToSend, ready, timed,
                           xPendingReadyList, xYieldPending, pendSV>>
    /\ UNCHANGED <<cTxLock, xTasksWaitingToReceive, callVars, pxCurrentTCB,
                   uxSchedulerSuspended, uxPendedTicks>>

\* Mutant: who timed out stays on its event list.
TickStillListed ==
    /\ \E X \in SUBSET timed : IncrementTick(X)
    /\ UNCHANGED <<ringVars, lockVars, listVars, callVars>>

\* The tick takes the tasks it wakes off the event lists too.
Tick ==
    /\ \E X \in SUBSET timed :
          /\ IncrementTick(X)
          /\ xTasksWaitingToSend' = xTasksWaitingToSend \ X
          /\ xTasksWaitingToReceive' = xTasksWaitingToReceive \ X
    /\ UNCHANGED <<ringVars, lockVars, callVars>>

PendSV == SwitchContext /\ UNCHANGED <<ringVars, lockVars, listVars, callVars>>

-----------------------------------------------------------------------------

TaskStep(t) ==
    \/ Call(t) \/ TrySend(t) \/ TryReceive(t) \/ Delay(t)
    \/ SuspendScheduler(t) \/ LockQueue(t) \/ CheckForTimeOut(t) \/ Test(t)
    \/ Place(t) \/ UnlockTx(t) \/ UnlockRx(t) \/ Resume(t) \/ Yield(t)
    \/ Recheck(t)

Next ==
    \/ \E t \in Tasks : TaskStep(t)
    \/ SendFromISR
    \/ ReceiveFromISR
    \/ Tick
    \/ PendSV

Spec == Init /\ [][Next]_vars

-----------------------------------------------------------------------------
(* Properties.                                                              *)

Labels == {"user", "try", "suspend", "lock", "timeout", "test", "place",
           "unlockTx", "unlockRx", "resume", "yield", "recheck"}
SuspendedLabels == {"lock", "timeout", "test", "place", "unlockTx",
                    "unlockRx", "resume"}

RingTypeOK ==
    /\ storage \in [Slots -> Values \cup {None}]
    /\ pcWriteTo \in Slots /\ pcReadFrom \in Slots
    /\ uxMessagesWaiting \in 0 .. Length

LockTypeOK ==
    /\ cTxLock \in -1 .. LockMax /\ cRxLock \in -1 .. LockMax
    /\ xTasksWaitingToSend \subseteq Tasks
    /\ xTasksWaitingToReceive \subseteq Tasks

CallTypeOK ==
    /\ pc \in [Tasks -> Labels]
    /\ op \in [Tasks -> {"none", "send", "receive", "delay"}]
    /\ path \in [Tasks -> {"none", "block", "retry", "expired"}]
    /\ xTicksToWait \in [Tasks -> {"zero", "finite", "infinite"}]
    /\ item \in [Tasks -> Values \cup {None}]
    /\ result \in [Tasks -> {"pass", "full", "empty"}]

TypeOK == SchedTypeOK /\ RingTypeOK /\ LockTypeOK /\ CallTypeOK

\* What the labels of a call say about its other variables.
CallShape ==
    \A t \in Tasks :
        /\ op[t] = "none" <=> pc[t] = "user"
        /\ op[t] = "delay" => pc[t] \in {"place", "resume", "yield"}
        /\ pc[t] \in {"unlockTx", "unlockRx", "resume"} <=>
              path[t] # "none" /\ pc[t] \notin {"yield", "recheck"}
        /\ pc[t] = "yield" => path[t] = "block"
        /\ op[t] = "delay" /\ pc[t] = "resume" => path[t] = "block"
        /\ pc[t] = "recheck" => path[t] = "expired" /\ op[t] = "receive"
        /\ path[t] = "expired" => xTicksToWait[t] = "zero"

\* vTaskSuspendAll and prvLockQueue work as a pair: whoever is between them
\* and the resume is the current task, and is alone there; the queue is locked
\* exactly while that task may be working on the event lists, so no interrupt
\* touches a list under it ("exclusive access to the event list is guaranteed
\* here", tasks.c).
LockDiscipline ==
    /\ uxSchedulerSuspended = 1 <=> pc[pxCurrentTCB] \in SuspendedLabels
    /\ \A t \in Tasks : pc[t] \in SuspendedLabels => t = pxCurrentTCB
    /\ cTxLock # queueUNLOCKED <=>
          /\ op[pxCurrentTCB] # "delay"
          /\ pc[pxCurrentTCB] \in {"timeout", "test", "place", "unlockTx"}
    /\ cRxLock # queueUNLOCKED <=>
          /\ op[pxCurrentTCB] # "delay"
          /\ pc[pxCurrentTCB] \in
                {"timeout", "test", "place", "unlockTx", "unlockRx"}

\* Where a call can be once its task was placed on an event list.
Parked(t) ==
    \/ pc[t] = "try"
    \/ pc[t] \in {"unlockTx", "unlockRx", "resume", "yield"} /\ path[t] = "block"

\* A task on an event list, or woken and pending, is blocked inside the call
\* the list is for, and is on no other list: a task queued twice, or left on a
\* list after its call ended, would be woken for nothing and lose the wake-up
\* another task needed.
ListsConsistent ==
    /\ \A t \in xTasksWaitingToSend \cup xTasksWaitingToReceive :
          t \notin ready \cup xPendingReadyList
    /\ \A t \in xTasksWaitingToSend : op[t] = "send" /\ Parked(t)
    /\ \A t \in xTasksWaitingToReceive : op[t] = "receive" /\ Parked(t)
    /\ \A t \in xPendingReadyList : op[t] # "delay" /\ Parked(t)
    /\ xPendingReadyList \cap ready = {} /\ timed \cap ready = {}
    /\ uxSchedulerSuspended = 0 => xPendingReadyList = {}

\* The task the processor executes is ready, except from the moment it parks
\* itself to the switch that takes the processor away.
RunnerReady ==
    \/ pxCurrentTCB \in ready
    \/ /\ pc[pxCurrentTCB] \in {"unlockTx", "unlockRx", "resume", "yield"}
       /\ path[pxCurrentTCB] = "block"
    \/ pendSV /\ uxSchedulerSuspended = 0

\* Tasks of operation o that are going to look at the queue again before
\* they can block: fresh callers, and those taken off their event list.
GoingToTry(o) ==
    {t \in Tasks :
        /\ op[t] = o
        /\ t \notin xTasksWaitingToSend \cup xTasksWaitingToReceive
        /\ \/ Parked(t)
           \/ /\ pc[t] \in {"unlockTx", "unlockRx", "resume"}
              /\ path[t] = "retry"}

Held(lock) == IF lock = queueUNLOCKED THEN 0 ELSE lock

\* While a receiver waits, every item in the queue is accounted for by a
\* receiver already on its way to take one, or by the lock count that unlocking
\* turns into wake-ups ...
ReceiversAccounted ==
    xTasksWaitingToReceive # {} =>
        uxMessagesWaiting <= Cardinality(GoingToTry("receive")) + Held(cTxLock)

\* ... and while a sender waits, so is every free slot.
SendersAccounted ==
    xTasksWaitingToSend # {} =>
        Length - uxMessagesWaiting
            <= Cardinality(GoingToTry("send")) + Held(cRxLock)

\* No lost wake-up: a post that comes between the test for emptiness and the
\* placing on the event list is not missed, several posts wake several
\* waiters, and a waiter that times out takes nobody's wake-up with it.
WakeupsAccounted == ReceiversAccounted /\ SendersAccounted

\* What was seen when the task decided to wait is still so, but for what the
\* lock count records.
PlacingAccounted ==
    pc[pxCurrentTCB] = "place" =>
        /\ op[pxCurrentTCB] = "receive" => uxMessagesWaiting <= cTxLock
        /\ op[pxCurrentTCB] = "send" => Length - uxMessagesWaiting <= cRxLock

\* A yield is never forgotten: unless a switch is about to be taken, no ready
\* task has a higher priority than the running one, whichever of the four
\* places that may ready a task (a send, a receive, the resume, the tick) did.
HighestPriorityRuns ==
    ~(pendSV /\ uxSchedulerSuspended = 0) =>
        \A t \in ready : Prio[t] <= Prio[pxCurrentTCB]

\* The queue is a Mailbox: what its users see is an atomic bounded FIFO.
Position(i) == IF pcReadFrom + i < Length THEN pcReadFrom + i
               ELSE pcReadFrom + i - Length

Mbox == INSTANCE Mailbox WITH
    mail <- [i \in 1 .. uxMessagesWaiting |-> storage[Position(i)]],
    call <- [t \in Tasks |-> IF op[t] = "delay" THEN "none" ELSE op[t]],
    wait <- [t \in Tasks |-> IF path[t] = "expired" THEN "expired"
                             ELSE xTicksToWait[t]]

MailboxSpec == Mbox!Spec

=============================================================================
