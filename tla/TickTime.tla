------------------------------- MODULE TickTime -------------------------------
(***************************************************************************)
(* The time keeping of freertos_kernel/tasks.c: a tick counter that wraps, *)
(* two lists of sleepers that change places when it does, the cached time  *)
(* of the next wake-up, ticks pended while the scheduler is suspended, and *)
(* the two computations that must see through a wrap: xTaskCheckForTimeOut *)
(* and vTaskDelayUntil.                                                    *)
(*                                                                         *)
(* Besides the kernel's variables the module has a clock of all the ticks  *)
(* that ever came and, in terms of it, what each task asked for (wake,     *)
(* entered, total, last): the properties compare the two.  Priorities are  *)
(* left out: any task that is not asleep may be the one that runs.         *)
(***************************************************************************)
EXTENDS Integers

CONSTANTS
    Tasks,
    Idle,           \* the idle task, which never sleeps
    Sleepers,       \* tasks that call vTaskDelay,
    Periodic,       \* vTaskDelayUntil,
    Waiters,        \* and calls with a timeout
    Nobody,         \* not a task
    Wrap,           \* TickType_t holds 0 .. Wrap-1
    MaxNow,         \* bound: ticks in a behaviour
    MaxPended       \* bound: uxPendedTicks

portMAX_DELAY == Wrap - 1

ASSUME TickTimeAssumption ==
    /\ Idle \in Tasks /\ Nobody \notin Tasks
    /\ Sleepers \cup Periodic \cup Waiters \subseteq Tasks \ {Idle}
    /\ Wrap \in Nat /\ Wrap > 1
    /\ MaxNow \in Nat /\ MaxPended \in Nat

VARIABLES
    xTickCount, xNumOfOverflows, xNextTaskUnblockTime,
    delayed, overflowDelayed,   \* pxDelayedTaskList, pxOverflowDelayedTaskList
    xSuspendedTaskList,         \* waiting without a time limit
    xItemValue,                 \* xStateListItem's value: when to wake, wrapped
    xPendingReadyList,          \* woken by an event while suspended
    holder,                     \* who suspended the scheduler, or Nobody
    uxPendedTicks,
    unwinding,                  \* xTaskResumeAll is processing pended ticks
    phase,                      \* "none"; in a call with a timeout "wait", and
                                \* "checked" or "acted" until it resumes
    xTimeOnEntering, xOverflowCount, xTicksToWait,  \* its TimeOut_t
    pxPreviousWakeTime,         \* the argument of vTaskDelayUntil
    clock, wake, entered, total, last

timeVars == <<xTickCount, xNumOfOverflows, xNextTaskUnblockTime>>
sleepVars == <<delayed, overflowDelayed, xSuspendedTaskList, xItemValue,
               xPendingReadyList>>
suspendVars == <<holder, uxPendedTicks, unwinding>>
callVars == <<phase, xTimeOnEntering, xOverflowCount, xTicksToWait,
              pxPreviousWakeTime>>
historyVars == <<clock, wake, entered, total, last>>
vars == <<timeVars, sleepVars, suspendVars, callVars, historyVars>>

\* The time the kernel has to know of: every tick that came, but those it pends.
now == clock - uxPendedTicks

\* Mutant: a counter that does not wrap.
PlusUnwrapped(a, b) == a + b

\* Sums and differences of two TickType_t values.
Plus(a, b) == IF a + b < Wrap THEN a + b ELSE a + b - Wrap
Minus(a, b) == IF a >= b THEN a - b ELSE a - b + Wrap

Asleep == delayed \cup overflowDelayed \cup xSuspendedTaskList

Init ==
    /\ xTickCount = 0 /\ xNumOfOverflows = 0
    /\ xNextTaskUnblockTime = portMAX_DELAY
    /\ delayed = {} /\ overflowDelayed = {} /\ xSuspendedTaskList = {}
    /\ xPendingReadyList = {}
    /\ xItemValue = [t \in Tasks |-> 0]
    /\ holder = Nobody /\ uxPendedTicks = 0 /\ unwinding = FALSE
    /\ phase = [t \in Tasks |-> "none"]
    /\ xTimeOnEntering = [t \in Tasks |-> 0]
    /\ xOverflowCount = [t \in Tasks |-> 0]
    /\ xTicksToWait = [t \in Tasks |-> 0]
    /\ pxPreviousWakeTime = [t \in Tasks |-> 0]
    /\ clock = 0
    /\ wake = [t \in Tasks |-> 0] /\ entered = [t \in Tasks |-> 0]
    /\ total = [t \in Tasks |-> 0] /\ last = [t \in Tasks |-> 0]

-----------------------------------------------------------------------------
(* One tick.                                                                *)

\* Mutant: the value of any item of list.
IsHeadTimeAny(v, list) ==
    \/ list = {} /\ v = portMAX_DELAY
    \/ \E t \in list : v = xItemValue[t]

\* prvResetNextTaskUnblockTime: the value of the item at the head of list.
IsHeadTime(v, list) ==
    \/ list = {} /\ v = portMAX_DELAY
    \/ \E t \in list : /\ v = xItemValue[t]
                       /\ \A u \in list : v <= xItemValue[u]

\* Mutant: a sleeper is taken a tick too late.
StaysAsleepLonger(t) == xItemValue[t] >= xTickCount'

\* The loop of xTaskIncrementTick stops at the first item that is not due.
StaysAsleep(t) == xItemValue[t] > xTickCount'

\* xTaskIncrementTick with the scheduler running: count, change the lists when
\* the count wraps to 0, and, when the cached time has come, take every due
\* sleeper off the (sorted) list.
CountTick ==
    /\ xTickCount' = Plus(xTickCount, 1)
    /\ \E list \in {IF xTickCount' = 0 THEN overflowDelayed ELSE delayed},
          next \in 0 .. portMAX_DELAY :
          /\ IF xTickCount' = 0 THEN IsHeadTime(next, list)
                                ELSE next = xNextTaskUnblockTime
          /\ IF xTickCount' >= next
             THEN /\ delayed' = {t \in list : StaysAsleep(t)}
                  /\ xNextTaskUnblockTime' \in 0 .. portMAX_DELAY
                  /\ IsHeadTime(xNextTaskUnblockTime', delayed')
             ELSE /\ delayed' = list
                  /\ xNextTaskUnblockTime' = next
    /\ IF xTickCount' = 0
       THEN /\ overflowDelayed' = delayed
            /\ xNumOfOverflows' = xNumOfOverflows + 1
       ELSE UNCHANGED <<overflowDelayed, xNumOfOverflows>>
    /\ UNCHANGED <<xSuspendedTaskList, xItemValue, xPendingReadyList>>

\* The tick interrupt.
Tick ==
    /\ ~unwinding
    /\ clock < MaxNow /\ clock' = clock + 1
    /\ IF holder = Nobody
       THEN CountTick /\ UNCHANGED uxPendedTicks
       ELSE /\ uxPendedTicks < MaxPended
            /\ uxPendedTicks' = uxPendedTicks + 1
            /\ UNCHANGED <<timeVars, sleepVars>>
    /\ UNCHANGED <<holder, unwinding, callVars, wake, entered, total, last>>

-----------------------------------------------------------------------------
(* Suspending the scheduler.                                                *)

SuspendAll(t) ==
    /\ holder = Nobody /\ ~unwinding
    /\ t \notin Asleep
    /\ holder' = t
    /\ UNCHANGED <<uxPendedTicks, unwinding, timeVars, sleepVars, callVars,
                   historyVars>>

\* xTaskResumeAll, a critical section: first the tasks events woke, and if
\* there were any the cached time anew ...
ResumeAll(t) ==
    /\ holder = t /\ ~unwinding
    /\ holder' = Nobody
    /\ unwinding' = TRUE
    /\ delayed' = delayed \ xPendingReadyList
    /\ overflowDelayed' = overflowDelayed \ xPendingReadyList
    /\ xSuspendedTaskList' = xSuspendedTaskList \ xPendingReadyList
    /\ xPendingReadyList' = {}
    /\ phase' = [phase EXCEPT ![t] = CASE @ = "checked" -> "wait"
                                        [] @ = "acted"   -> "none"
                                        [] OTHER         -> @]
    /\ IF xPendingReadyList = {}
       THEN UNCHANGED xNextTaskUnblockTime
       ELSE /\ xNextTaskUnblockTime' \in 0 .. portMAX_DELAY
            /\ IsHeadTime(xNextTaskUnblockTime', delayed')
    /\ UNCHANGED <<xTickCount, xNumOfOverflows, xItemValue, uxPendedTicks,
                   xTimeOnEntering, xOverflowCount, xTicksToWait,
                   pxPreviousWakeTime, historyVars>>

\* Mutant: the pended ticks count as one.
UnwindTickOnce ==
    /\ unwinding
    /\ IF uxPendedTicks > 0
       THEN CountTick /\ uxPendedTicks' = 0 /\ UNCHANGED unwinding
       ELSE unwinding' = FALSE /\ UNCHANGED <<uxPendedTicks, timeVars, sleepVars>>
    /\ UNCHANGED <<holder, callVars, historyVars>>

\* ... then the pended ticks, one by one.
UnwindTick ==
    /\ unwinding
    /\ IF uxPendedTicks > 0
       THEN /\ CountTick
            /\ uxPendedTicks' = uxPendedTicks - 1
            /\ UNCHANGED unwinding
       ELSE /\ unwinding' = FALSE
            /\ UNCHANGED <<uxPendedTicks, timeVars, sleepVars>>
    /\ UNCHANGED <<holder, callVars, historyVars>>

\* xTaskRemoveFromEventList takes t off the event list it waits on.
Event(t) ==
    /\ ~unwinding
    /\ t \in Asleep \ xPendingReadyList
    /\ phase[t] \in {"wait", "checked"}
    /\ IF holder = Nobody
       THEN /\ delayed' = delayed \ {t}
            /\ overflowDelayed' = overflowDelayed \ {t}
            /\ xSuspendedTaskList' = xSuspendedTaskList \ {t}
            /\ UNCHANGED xPendingReadyList
       ELSE /\ xPendingReadyList' = xPendingReadyList \cup {t}
            /\ UNCHANGED <<delayed, overflowDelayed, xSuspendedTaskList>>
    /\ UNCHANGED <<timeVars, xItemValue, suspendVars, callVars, historyVars>>

-----------------------------------------------------------------------------
(* Going to sleep.                                                          *)

\* prvAddCurrentTaskToDelayedList: a wake time that wrapped goes to the
\* overflow list.
AddCurrentTaskToDelayedList(t, ticks) ==
    LET xTimeToWake == Plus(xTickCount, ticks)
    IN  /\ xItemValue' = [xItemValue EXCEPT ![t] = xTimeToWake]
        /\ wake' = [wake EXCEPT ![t] = now + ticks]
        /\ IF xTimeToWake < xTickCount
           THEN /\ overflowDelayed' = overflowDelayed \cup {t}
                /\ UNCHANGED <<delayed, xNextTaskUnblockTime>>
           ELSE /\ delayed' = delayed \cup {t}
                /\ xNextTaskUnblockTime' =
                      IF xTimeToWake < xNextTaskUnblockTime
                      THEN xTimeToWake ELSE xNextTaskUnblockTime
                /\ UNCHANGED overflowDelayed
        /\ UNCHANGED <<xSuspendedTaskList, xPendingReadyList, xTickCount,
                       xNumOfOverflows>>

\* t, having suspended the scheduler, is still to act.
Acting(t) == holder = t /\ ~unwinding /\ t \notin Asleep

\* vTaskDelay (the part with the scheduler suspended).
Delay(t, ticks) ==
    /\ Acting(t) /\ phase[t] = "none" /\ t \in Sleepers
    /\ AddCurrentTaskToDelayedList(t, ticks)
    /\ phase' = [phase EXCEPT ![t] = "acted"]
    /\ UNCHANGED <<suspendVars, xTimeOnEntering, xOverflowCount, xTicksToWait,
                   pxPreviousWakeTime, clock, entered, total, last>>

\* Mutant: no case for counts that wrapped.
ShouldDelayUnwrapped(previous, toWake) == toWake > xTickCount

\* vTaskDelayUntil's four cases of which of the counts have wrapped.
ShouldDelay(previous, toWake) ==
    IF xTickCount < previous
    THEN toWake < previous /\ toWake > xTickCount
    ELSE toWake < previous \/ toWake > xTickCount

DelayUntil(t, increment) ==
    /\ Acting(t) /\ phase[t] = "none" /\ t \in Periodic
    /\ LET previous == pxPreviousWakeTime[t]
           toWake == Plus(previous, increment)
       IN  /\ pxPreviousWakeTime' = [pxPreviousWakeTime EXCEPT ![t] = toWake]
           /\ last' = [last EXCEPT ![t] = @ + increment]
           /\ IF ShouldDelay(previous, toWake)
              THEN AddCurrentTaskToDelayedList(t, Minus(toWake, xTickCount))
              ELSE UNCHANGED <<timeVars, sleepVars, wake>>
    /\ phase' = [phase EXCEPT ![t] = "acted"]
    /\ UNCHANGED <<suspendVars, xTimeOnEntering, xOverflowCount, xTicksToWait,
                   clock, entered, total>>

\* A periodic task reads the tick count for its first vTaskDelayUntil.
StartPeriod(t) ==
    /\ holder = Nobody /\ ~unwinding /\ t \in Periodic
    /\ t \notin Asleep /\ phase[t] = "none"
    /\ pxPreviousWakeTime' = [pxPreviousWakeTime EXCEPT ![t] = xTickCount]
    /\ last' = [last EXCEPT ![t] = now]
    /\ UNCHANGED <<timeVars, sleepVars, suspendVars, phase, xTimeOnEntering,
                   xOverflowCount, xTicksToWait, clock, wake, entered, total>>

-----------------------------------------------------------------------------
(* A call with a timeout (xQueueReceive and its like).                      *)

\* vTaskInternalSetTimeOutState at the first pass that finds it must wait.
SetTimeOutState(t, ticks) ==
    /\ holder = Nobody /\ ~unwinding /\ t \in Waiters
    /\ t \notin Asleep /\ phase[t] = "none"
    /\ phase' = [phase EXCEPT ![t] = "wait"]
    /\ xTimeOnEntering' = [xTimeOnEntering EXCEPT ![t] = xTickCount]
    /\ xOverflowCount' = [xOverflowCount EXCEPT ![t] = xNumOfOverflows]
    /\ xTicksToWait' = [xTicksToWait EXCEPT ![t] = ticks]
    /\ entered' = [entered EXCEPT ![t] = now]
    /\ total' = [total EXCEPT ![t] = ticks]
    /\ UNCHANGED <<timeVars, sleepVars, suspendVars, pxPreviousWakeTime, clock,
                   wake, last>>

\* The call returns: its TimeOut_t goes out of scope.
EndWait(t, next) ==
    /\ phase' = [phase EXCEPT ![t] = next]
    /\ xTimeOnEntering' = [xTimeOnEntering EXCEPT ![t] = 0]
    /\ xOverflowCount' = [xOverflowCount EXCEPT ![t] = 0]
    /\ xTicksToWait' = [xTicksToWait EXCEPT ![t] = 0]
    /\ entered' = [entered EXCEPT ![t] = 0]
    /\ total' = [total EXCEPT ![t] = 0]

Elapsed(t) == Minus(xTickCount, xTimeOnEntering[t])

\* Mutants: any overflow counts as a timeout; a timeout is noticed a tick late.
TimedOutByOverflow(t) ==
    /\ xTicksToWait[t] # portMAX_DELAY
    /\ \/ xNumOfOverflows # xOverflowCount[t]
       \/ Elapsed(t) >= xTicksToWait[t]
TimedOutLate(t) ==
    /\ xTicksToWait[t] # portMAX_DELAY
    /\ \/ /\ xNumOfOverflows # xOverflowCount[t]
          /\ xTickCount >= xTimeOnEntering[t]
       \/ Elapsed(t) > xTicksToWait[t]

\* What xTaskCheckForTimeOut returns.
TimedOut(t) ==
    /\ xTicksToWait[t] # portMAX_DELAY
    /\ \/ /\ xNumOfOverflows # xOverflowCount[t]
          /\ xTickCount >= xTimeOnEntering[t]
       \/ Elapsed(t) >= xTicksToWait[t]

\* xTaskCheckForTimeOut.  A call that timed out is left; otherwise the time
\* that remains is kept for the next pass.
CheckForTimeOut(t) ==
    /\ Acting(t) /\ phase[t] = "wait"
    /\ IF TimedOut(t)
       THEN EndWait(t, "acted")
       ELSE /\ phase' = [phase EXCEPT ![t] = "checked"]
            /\ IF xTicksToWait[t] = portMAX_DELAY
               THEN UNCHANGED <<xTimeOnEntering, xOverflowCount, xTicksToWait>>
               ELSE /\ xTicksToWait' = [xTicksToWait EXCEPT ![t] = @ - Elapsed(t)]
                    /\ xTimeOnEntering' = [xTimeOnEntering EXCEPT ![t] = xTickCount]
                    /\ xOverflowCount' = [xOverflowCount EXCEPT ![t] = xNumOfOverflows]
            /\ UNCHANGED <<entered, total>>
    /\ UNCHANGED <<timeVars, sleepVars, suspendVars, pxPreviousWakeTime, clock,
                   wake, last>>

\* vTaskPlaceOnEventList with what remains of the wait.
Block(t) ==
    /\ Acting(t) /\ phase[t] = "checked"
    /\ IF xTicksToWait[t] = portMAX_DELAY
       THEN /\ xSuspendedTaskList' = xSuspendedTaskList \cup {t}
            /\ UNCHANGED <<timeVars, delayed, overflowDelayed, xItemValue,
                           xPendingReadyList, wake>>
       ELSE AddCurrentTaskToDelayedList(t, xTicksToWait[t])
    /\ UNCHANGED <<suspendVars, callVars, clock, entered, total, last>>

\* The call finds what it waited for and returns.
Served(t) ==
    /\ ~unwinding /\ holder # t
    /\ t \notin Asleep /\ phase[t] = "wait"
    /\ EndWait(t, "none")
    /\ UNCHANGED <<timeVars, sleepVars, suspendVars, pxPreviousWakeTime, clock,
                   wake, last>>

Next ==
    \/ Tick
    \/ UnwindTick
    \/ \E t \in Tasks :
          \/ SuspendAll(t) \/ ResumeAll(t) \/ Event(t)
          \/ \E ticks \in 1 .. portMAX_DELAY :
                Delay(t, ticks) \/ DelayUntil(t, ticks) \/ SetTimeOutState(t, ticks)
          \/ StartPeriod(t) \/ CheckForTimeOut(t) \/ Block(t) \/ Served(t)

Spec == Init /\ [][Next]_vars
-----------------------------------------------------------------------------
(* Properties.                                                              *)

Ticks == 0 .. portMAX_DELAY

TypeOK ==
    /\ xTickCount \in Ticks /\ xNumOfOverflows \in Nat
    /\ xNextTaskUnblockTime \in Ticks
    /\ delayed \subseteq Tasks /\ overflowDelayed \subseteq Tasks
    /\ xSuspendedTaskList \subseteq Tasks
    /\ xItemValue \in [Tasks -> Ticks]
    /\ xPendingReadyList \subseteq Asleep
    /\ holder \in Tasks \cup {Nobody}
    /\ uxPendedTicks \in Nat /\ unwinding \in BOOLEAN
    /\ phase \in [Tasks -> {"none", "wait", "checked", "acted"}]
    /\ xTimeOnEntering \in [Tasks -> Ticks]
    /\ xOverflowCount \in [Tasks -> Nat]
    /\ xTicksToWait \in [Tasks -> Ticks]
    /\ pxPreviousWakeTime \in [Tasks -> Ticks]
    /\ clock \in Nat /\ now \in Nat
    /\ wake \in [Tasks -> Nat] /\ entered \in [Tasks -> Nat]
    /\ total \in [Tasks -> Ticks] /\ last \in [Tasks -> Nat]

\* A sleeper never sleeps past the time it asked to be woken at: not when that
\* time lies beyond a wrap of the tick count, not when the scheduler was
\* suspended over it, and not when the cached next wake-up time is stale.
NoOversleep == \A t \in delayed \cup overflowDelayed : wake[t] > now

\* The time the current period of wrapped values began.
Base == now - xTickCount

\* Why NoOversleep holds: the two lists hold the wake times of this and of the
\* next period of the counter, and the cached time is never too late.
SleepersFiled ==
    /\ \A t \in delayed : /\ wake[t] = Base + xItemValue[t]
                           /\ xNextTaskUnblockTime <= xItemValue[t]
                           /\ t \notin overflowDelayed
    /\ \A t \in overflowDelayed : wake[t] = Base + Wrap + xItemValue[t]

\* A tick ends a sleep exactly when it was to end, whatever woke others before.
WokenWhenDue ==
    [][\A t \in Asleep \ Asleep' : now' # now => wake[t] = now']_vars

\* The configASSERT of taskSWITCH_DELAYED_LISTS: nobody is left on the list
\* that becomes the overflow list.
DelayedListEmptyAtSwitch == xTickCount = portMAX_DELAY => delayed = {}

Finite(t) == phase[t] = "wait" /\ xTicksToWait[t] # portMAX_DELAY

\* When t's TimeOut_t was last set.
SetAt(t) == entered[t] + total[t] - xTicksToWait[t]

\* xTaskCheckForTimeOut ends no wait early, however often the wait was
\* interrupted and resumed with the remaining time ...
NeverTimesOutEarly ==
    \A t \in Tasks :
        Finite(t) /\ TimedOut(t) => now >= entered[t] + total[t]

\* ... and ends it at the first check after its time, if that check comes
\* within one period of the counter (49 days; the code sees through one wrap,
\* and through the second only in part).
TimesOutWhenDue ==
    \A t \in Tasks :
        Finite(t) /\ now >= entered[t] + total[t] /\ now - SetAt(t) < Wrap
            => TimedOut(t)

\* A periodic task that calls vTaskDelayUntil within one period of the counter
\* is woken at multiples of its increment, and is not put to sleep when it is
\* already late.
PeriodKept ==
    [][\A t \in Tasks, increment \in 1 .. portMAX_DELAY :
          DelayUntil(t, increment) /\ now - last[t] < Wrap =>
              IF last[t] + increment > now
              THEN t \in Asleep' /\ wake'[t] = last[t] + increment
              ELSE t \notin Asleep']_vars

=============================================================================
