------------------------------ MODULE Scheduler ------------------------------
(***************************************************************************)
(* The single-core preemptive scheduler of freertos_kernel/tasks.c, as the *)
(* blocking calls of the kernel use it: which task runs, which are ready,  *)
(* and how a wake-up that arrives while the scheduler is suspended is kept *)
(* for later.  The module declares the state and the pieces of a step;     *)
(* a kernel object (Queue, EventGroup) EXTENDS it and builds its actions   *)
(* from them.                                                              *)
(*                                                                         *)
(* The lists of tasks.c are sets here.  A list's head is any member of the *)
(* highest priority, so the order among equal priorities is left open: it  *)
(* covers the FIFO order the lists keep.  Time is abstract: a tick may     *)
(* find the timeout of any timed sleeper expired (module TickTime models   *)
(* the tick counter itself).                                               *)
(***************************************************************************)
EXTENDS Integers, FiniteSets

CONSTANTS
    Tasks,      \* the tasks created with xTaskCreate, and the idle task
    Idle,       \* the idle task: always ready, never blocks
    Prio        \* uxPriority of each task

ASSUME SchedulerAssumption ==
    /\ IsFiniteSet(Tasks)
    /\ Idle \in Tasks
    /\ Prio \in [Tasks -> Nat]

VARIABLES
    pxCurrentTCB,           \* the task the processor executes
    ready,                  \* tasks whose state item is in a ready list
    timed,                  \* blocked tasks whose state item is in a delayed list
    xPendingReadyList,      \* woken while the scheduler was suspended
    uxSchedulerSuspended,   \* nesting of vTaskSuspendAll: 0 or 1
    xYieldPending,          \* a context switch is owed
    pendSV,                 \* the PendSV exception is pending
    uxPendedTicks           \* ticks counted while suspended: 0, or some (1)

schedVars == <<pxCurrentTCB, ready, timed, xPendingReadyList,
               uxSchedulerSuspended, xYieldPending, pendSV, uxPendedTicks>>

-----------------------------------------------------------------------------

\* The tasks that listGET_OWNER_OF_HEAD_ENTRY may return for a priority list.
Highest(S) == {t \in S : \A u \in S : Prio[u] <= Prio[t]}

\* Task t executes: PendSV is taken as soon as it is pending, before the
\* next instruction of the interrupted task.
Running(t) == pxCurrentTCB = t /\ ~pendSV

SchedInit ==
    /\ ready = Tasks
    /\ pxCurrentTCB \in Highest(Tasks)
    /\ timed = {} /\ xPendingReadyList = {}
    /\ uxSchedulerSuspended = 0
    /\ xYieldPending = FALSE /\ pendSV = FALSE
    /\ uxPendedTicks = 0

\* xTaskRemoveFromEventList for each task of W, taken off an event list.
Unblock(W) ==
    /\ IF uxSchedulerSuspended = 0
       THEN /\ ready' = ready \cup W
            /\ timed' = timed \ W
            /\ UNCHANGED xPendingReadyList
       ELSE /\ xPendingReadyList' = xPendingReadyList \cup W
            /\ UNCHANGED <<ready, timed>>
    /\ xYieldPending' = IF \E u \in W : Prio[u] > Prio[pxCurrentTCB]
                        THEN TRUE ELSE xYieldPending

\* Mutant: the caller does not yield.
YieldIfHigherMissed(W) == UNCHANGED pendSV

\* ... and the yield its caller asks for when a woken task has a higher
\* priority (queueYIELD_IF_USING_PREEMPTION, portYIELD_FROM_ISR).
YieldIfHigher(W) ==
    pendSV' = IF \E u \in W : Prio[u] > Prio[pxCurrentTCB]
              THEN TRUE ELSE pendSV

\* prvAddCurrentTaskToDelayedList: a finite wait goes to a delayed list, an
\* infinite one (portMAX_DELAY) to the suspended list.
AddCurrentTaskToDelayedList(t, finite) ==
    /\ ready' = ready \ {t}
    /\ timed' = IF finite THEN timed \cup {t} ELSE timed

\* vTaskSuspendAll
SuspendAll ==
    /\ uxSchedulerSuspended' = uxSchedulerSuspended + 1
    /\ UNCHANGED <<pxCurrentTCB, ready, timed, xPendingReadyList,
                   xYieldPending, pendSV, uxPendedTicks>>

\* xTaskResumeAll: pending tasks become ready, the pended ticks are unwound
\* (X are the sleepers they wake), and the owed switch is requested.  The
\* call returns already = TRUE when it requested one.
ResumeAll(X, already) ==
    /\ X \subseteq timed \ xPendingReadyList
    /\ uxPendedTicks = 0 => X = {}
    /\ uxSchedulerSuspended' = uxSchedulerSuspended - 1
    /\ ready' = ready \cup xPendingReadyList \cup X
    /\ timed' = timed \ (xPendingReadyList \cup X)
    /\ xPendingReadyList' = {}
    /\ uxPendedTicks' = 0
    /\ already = IF \E u \in xPendingReadyList \cup X :
                       Prio[u] >= Prio[pxCurrentTCB]
                 THEN TRUE ELSE xYieldPending
    /\ xYieldPending' = already
    /\ pendSV' = IF already THEN TRUE ELSE pendSV
    /\ UNCHANGED pxCurrentTCB

\* portYIELD_WITHIN_API
YieldWithinAPI ==
    /\ pendSV' = TRUE
    /\ UNCHANGED <<pxCurrentTCB, ready, timed, xPendingReadyList,
                   uxSchedulerSuspended, xYieldPending, uxPendedTicks>>

\* xPortPendSVHandler and vTaskSwitchContext.
SwitchContext ==
    /\ pendSV
    /\ pendSV' = FALSE
    /\ IF uxSchedulerSuspended # 0
       THEN /\ xYieldPending' = TRUE
            /\ UNCHANGED pxCurrentTCB
       ELSE /\ xYieldPending' = FALSE
            /\ pxCurrentTCB' \in Highest(ready)
    /\ UNCHANGED <<ready, timed, xPendingReadyList, uxSchedulerSuspended,
                   uxPendedTicks>>

\* xPortSysTickHandler and xTaskIncrementTick: X are the sleepers whose
\* timeout expired at this tick.
IncrementTick(X) ==
    /\ IF uxSchedulerSuspended = 0
       THEN /\ X \subseteq timed
            /\ ready' = ready \cup X
            /\ timed' = timed \ X
            /\ pendSV' = IF \/ xYieldPending
                            \/ \E u \in X : Prio[u] >= Prio[pxCurrentTCB]
                         THEN TRUE ELSE pendSV
            /\ UNCHANGED uxPendedTicks
       ELSE /\ X = {}
            /\ uxPendedTicks' = 1
            /\ pendSV' = IF xYieldPending THEN TRUE ELSE pendSV
            /\ UNCHANGED <<ready, timed>>
    /\ UNCHANGED <<pxCurrentTCB, xPendingReadyList, uxSchedulerSuspended,
                   xYieldPending>>

-----------------------------------------------------------------------------

SchedTypeOK ==
    /\ pxCurrentTCB \in Tasks
    /\ ready \subseteq Tasks
    /\ timed \subseteq Tasks
    /\ xPendingReadyList \subseteq Tasks
    /\ uxSchedulerSuspended \in {0, 1}
    /\ xYieldPending \in BOOLEAN
    /\ pendSV \in BOOLEAN
    /\ uxPendedTicks \in {0, 1}

=============================================================================
