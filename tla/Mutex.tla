-------------------------------- MODULE Mutex --------------------------------
(***************************************************************************)
(* Mutexes with priority inheritance: xQueueSemaphoreTake and              *)
(* xQueueGenericSend on a queue of type queueQUEUE_IS_MUTEX, with          *)
(* xTaskPriorityInherit and its two inverses in tasks.c.  lwIP's core lock *)
(* and heap lock are such mutexes (sys_mutex_lock, sys_mutex_unlock).      *)
(*                                                                         *)
(* No interrupt may use a mutex.  Between vTaskSuspendAll and              *)
(* xTaskResumeAll a caller is therefore interrupted by nothing but ticks,  *)
(* which are kept until it resumes, and the stretch is one action.  A task *)
(* may sleep on something else while it holds a mutex, as a sender does    *)
(* that waits in linkoutput for a descriptor with the core lock held.      *)
(***************************************************************************)
EXTENDS Naturals, Sequences, FiniteSets

CONSTANTS
    Tasks, Idle,        \* Idle is always ready and takes no mutex
    Nobody,             \* NULL
    BasePriority,       \* uxBasePriority of each task
    Mutexes,            \* numbers: callers take several in increasing order
    Uses,               \* the mutexes that each task takes
    Waits,              \* and with which waits: "zero", "finite", "infinite"
    Sleepers            \* tasks that also wait for other events

ASSUME MutexAssumption ==
    /\ IsFiniteSet(Tasks) /\ Idle \in Tasks /\ Nobody \notin Tasks
    /\ BasePriority \in [Tasks -> Nat]
    /\ BasePriority[Idle] = 0       \* tskIDLE_PRIORITY
    /\ IsFiniteSet(Mutexes) /\ Mutexes \subseteq Nat
    /\ Uses \in [Tasks -> SUBSET Mutexes] /\ Uses[Idle] = {}
    /\ Waits \in [Tasks -> SUBSET {"zero", "finite", "infinite"}]
    /\ Sleepers \subseteq Tasks \ {Idle}

VARIABLES
    pxCurrentTCB, pendSV,       \* the running task; a switch is requested
    ready,                      \* tasks on the ready lists
    uxPriority,                 \* current priority of each task
    uxTopReadyPriority,         \* the bit map of non-empty ready lists
    uxMutexesHeld,
    xMutexHolder,               \* of each mutex; Nobody when it is free
    xTasksWaitingToReceive,     \* event list of each mutex
    pc,                         \* where each task is in its call
    want, wait,                 \* the call's mutex and remaining wait
    xInheritanceOccurred        \* a local variable of the call

schedVars == <<pxCurrentTCB, pendSV, ready>>
prioVars == <<uxPriority, uxTopReadyPriority>>
mutexVars == <<uxMutexesHeld, xMutexHolder, xTasksWaitingToReceive>>
callVars == <<pc, want, wait, xInheritanceOccurred>>
vars == <<schedVars, prioVars, mutexVars, callVars>>

Places == {"user", "asleep", "try", "suspend", "parked", "recheck",
           "disinherit", "halted"}

TypeOK ==
    /\ pxCurrentTCB \in Tasks /\ pendSV \in BOOLEAN
    /\ ready \subseteq Tasks
    /\ uxPriority \in [Tasks -> Nat] /\ uxTopReadyPriority \subseteq Nat
    /\ uxMutexesHeld \in [Tasks -> Nat]
    /\ xMutexHolder \in [Mutexes -> Tasks \cup {Nobody}]
    /\ xTasksWaitingToReceive \in [Mutexes -> Seq(Tasks)]
    /\ pc \in [Tasks -> Places]
    /\ want \in [Tasks -> Mutexes \cup {Nobody}]
    /\ wait \in [Tasks -> {"zero", "finite", "infinite", "expired"}]
    /\ xInheritanceOccurred \in [Tasks -> BOOLEAN]

Init ==
    /\ ready = Tasks /\ pendSV = TRUE /\ pxCurrentTCB = Idle
    /\ uxPriority = BasePriority
    /\ uxTopReadyPriority = {BasePriority[t] : t \in Tasks}
    /\ uxMutexesHeld = [t \in Tasks |-> 0]
    /\ xMutexHolder = [m \in Mutexes |-> Nobody]
    /\ xTasksWaitingToReceive = [m \in Mutexes |-> <<>>]
    /\ pc = [t \in Tasks |-> "user"]
    /\ want = [t \in Tasks |-> Nobody]
    /\ wait = [t \in Tasks |-> "zero"]
    /\ xInheritanceOccurred = [t \in Tasks |-> FALSE]

-----------------------------------------------------------------------------
(* Lists and priorities.                                                    *)

Halted == \E t \in Tasks : pc[t] = "halted"
Running(t) == pxCurrentTCB = t /\ ~pendSV /\ ~Halted
Held(t) == {m \in Mutexes : xMutexHolder[m] = t}
Waiters(m) == {xTasksWaitingToReceive[m][i] :
                  i \in 1 .. Len(xTasksWaitingToReceive[m])}

\* The bit map once "members" are what the ready lists hold, if the list of
\* priority p may have become empty (taskRESET_READY_PRIORITY).
Reset(bits, p, members) ==
    IF \E u \in members : uxPriority[u] = p THEN bits ELSE bits \ {p}

\* Mutant: the bit of the list that task h leaves is never reset.
BitsMovedKeepsOld(h, p, cleared) ==
    IF h \notin ready THEN uxTopReadyPriority ELSE uxTopReadyPriority \cup {p}

\* The bit map after task h has changed from its priority to p: if it is on a
\* ready list it leaves it, the bit of priority "cleared" is reset if that
\* list and the one it left are empty, and it enters the list of p.
BitsMoved(h, p, cleared) ==
    IF h \notin ready THEN uxTopReadyPriority
    ELSE {p} \cup
         IF \E u \in ready \ {h} : uxPriority[u] = uxPriority[h]
         THEN uxTopReadyPriority
         ELSE Reset(uxTopReadyPriority, cleared, ready \ {h})

\* vListInsert puts t behind the first n items, those of its own or a higher
\* priority.
InsertsAfter(list, t, n) ==
    /\ \A i \in 1 .. n : uxPriority[list[i]] >= uxPriority[t]
    /\ n < Len(list) => uxPriority[list[n + 1]] < uxPriority[t]

Insert(list, t, n) ==
    SubSeq(list, 1, n) \o <<t>> \o SubSeq(list, n + 1, Len(list))

\* uxListRemove of an event list's n-th item.
Remove(list, n) == SubSeq(list, 1, n - 1) \o SubSeq(list, n + 1, Len(list))

Goto(t, place) == pc' = [pc EXCEPT ![t] = place]

-----------------------------------------------------------------------------
(* Taking a mutex: xQueueSemaphoreTake.                                     *)

\* A call, for a mutex above all those the task holds.
Take(t, m, w) ==
    /\ Running(t) /\ pc[t] = "user"
    /\ m \in Uses[t] /\ w \in Waits[t]
    /\ \A n \in Held(t) : n < m
    /\ want' = [want EXCEPT ![t] = m]
    /\ wait' = [wait EXCEPT ![t] = w]
    /\ xInheritanceOccurred' = [xInheritanceOccurred EXCEPT ![t] = FALSE]
    /\ Goto(t, "try")
    /\ UNCHANGED <<schedVars, prioVars, mutexVars>>

\* Mutant: the holder takes the mutex without counting it.
TryTakesUncounted(t) ==
    /\ Running(t) /\ pc[t] = "try" /\ xMutexHolder[want[t]] = Nobody
    /\ xMutexHolder' = [xMutexHolder EXCEPT ![want[t]] = t]
    /\ Goto(t, "user")
    /\ UNCHANGED <<schedVars, prioVars, uxMutexesHeld, xTasksWaitingToReceive,
                   want, wait, xInheritanceOccurred>>

\* The critical section at the head of the loop finds the mutex free.
TryTakes(t) ==
    /\ Running(t) /\ pc[t] = "try" /\ xMutexHolder[want[t]] = Nobody
    /\ xMutexHolder' = [xMutexHolder EXCEPT ![want[t]] = t]
    /\ uxMutexesHeld' = [uxMutexesHeld EXCEPT ![t] = @ + 1]
    /\ Goto(t, "user")
    /\ UNCHANGED <<schedVars, prioVars, xTasksWaitingToReceive, want, wait,
                   xInheritanceOccurred>>

\* It finds the mutex held.  With no wait left it returns, after an assertion.
TryFails(t) ==
    /\ Running(t) /\ pc[t] = "try" /\ xMutexHolder[want[t]] # Nobody
    /\ Goto(t, IF wait[t] # "zero" THEN "suspend"
               ELSE IF xInheritanceOccurred[t] THEN "halted" ELSE "user")
    /\ UNCHANGED <<schedVars, prioVars, mutexVars, want, wait,
                   xInheritanceOccurred>>

\* With the scheduler suspended: the wait is over ...
SuspendTimesOut(t) ==
    /\ Running(t) /\ pc[t] = "suspend" /\ wait[t] \in {"finite", "expired"}
    /\ wait' = [wait EXCEPT ![t] = "zero"]
    /\ Goto(t, "recheck")
    /\ UNCHANGED <<schedVars, prioVars, mutexVars, want,
                   xInheritanceOccurred>>

\* ... or the mutex has been given ...
SuspendFindsFree(t) ==
    /\ Running(t) /\ pc[t] = "suspend" /\ wait[t] \in {"finite", "infinite"}
    /\ xMutexHolder[want[t]] = Nobody
    /\ Goto(t, "try")
    /\ UNCHANGED <<schedVars, prioVars, mutexVars, want, wait,
                   xInheritanceOccurred>>

\* Mutant: no inheritance.
InheritsNever(h, t) == FALSE

\* ... or the holder inherits the caller's priority and the caller blocks
\* (xTaskPriorityInherit, vTaskPlaceOnEventList, xTaskResumeAll).
Inherits(h, t) == uxPriority[h] < uxPriority[t]

Park(t) ==
    LET m == want[t]
        h == xMutexHolder[m]
        bits == IF Inherits(h, t)
                THEN BitsMoved(h, uxPriority[t], uxPriority[h])
                ELSE uxTopReadyPriority
    IN  /\ Running(t) /\ pc[t] = "suspend" /\ wait[t] \in {"finite", "infinite"}
        /\ h # Nobody
        /\ xInheritanceOccurred' =
             [xInheritanceOccurred EXCEPT ![t] =
                Inherits(h, t) \/ BasePriority[h] < uxPriority[t]]
        /\ uxPriority' = IF Inherits(h, t)
                         THEN [uxPriority EXCEPT ![h] = uxPriority[t]]
                         ELSE uxPriority
        /\ \E n \in 0 .. Len(xTasksWaitingToReceive[m]) :
              /\ InsertsAfter(xTasksWaitingToReceive[m], t, n)
              /\ xTasksWaitingToReceive' =
                   [xTasksWaitingToReceive EXCEPT ![m] = Insert(@, t, n)]
        /\ ready' = ready \ {t}
        /\ uxTopReadyPriority' =
             IF \E u \in ready \ {t} : uxPriority'[u] = uxPriority[t]
             THEN bits ELSE bits \ {uxPriority[t]}
        /\ pendSV' = TRUE
        /\ Goto(t, "parked")
        /\ UNCHANGED <<pxCurrentTCB, uxMutexesHeld, xMutexHolder, want, wait>>

\* Made ready again, it goes round the loop.
Resume(t) ==
    /\ Running(t) /\ pc[t] = "parked"
    /\ Goto(t, "try")
    /\ UNCHANGED <<schedVars, prioVars, mutexVars, want, wait,
                   xInheritanceOccurred>>

\* Mutant: a waiter that timed out leaves its priority with the holder.
RecheckForgets(t) ==
    /\ Running(t) /\ pc[t] = "recheck"
    /\ Goto(t, IF xMutexHolder[want[t]] = Nobody THEN "try" ELSE "user")
    /\ UNCHANGED <<schedVars, prioVars, mutexVars, want, wait,
                   xInheritanceOccurred>>

\* Timed out: prvIsQueueEmpty in a critical section of its own.
Recheck(t) ==
    /\ Running(t) /\ pc[t] = "recheck"
    /\ Goto(t, IF xMutexHolder[want[t]] = Nobody THEN "try"
               ELSE IF xInheritanceOccurred[t] THEN "disinherit" ELSE "user")
    /\ UNCHANGED <<schedVars, prioVars, mutexVars, want, wait,
                   xInheritanceOccurred>>

\* Mutant: the other waiters are forgotten.
HighestWaitingNone(m) == BasePriority[Idle]

\* prvGetDisinheritPriorityAfterTimeout.  An event list item follows its task's
\* priority without moving in the list.
HighestWaiting(m) ==
    IF xTasksWaitingToReceive[m] = <<>> THEN BasePriority[Idle]
    ELSE uxPriority[Head(xTasksWaitingToReceive[m])]

\* vTaskPriorityDisinheritAfterTimeout; the bit it resets is the new
\* priority's.
DisinheritAfterTimeout(t) ==
    LET m == want[t]
        h == xMutexHolder[m]
        p == IF BasePriority[h] < HighestWaiting(m) THEN HighestWaiting(m)
             ELSE BasePriority[h]
        changes == h # Nobody /\ uxPriority[h] # p /\ uxMutexesHeld[h] = 1
    IN  /\ Running(t) /\ pc[t] = "disinherit"
        /\ uxPriority' = IF changes THEN [uxPriority EXCEPT ![h] = p]
                         ELSE uxPriority
        /\ uxTopReadyPriority' = IF changes THEN BitsMoved(h, p, p)
                                 ELSE uxTopReadyPriority
        /\ Goto(t, "user")
        /\ UNCHANGED <<schedVars, mutexVars, want, wait, xInheritanceOccurred>>

-----------------------------------------------------------------------------
(* Giving a mutex: xQueueGenericSend, prvCopyDataToQueue.                    *)

\* Mutant: the count is tested before it is decremented.
GivesBackAtZero(t) == uxPriority[t] # BasePriority[t] /\ uxMutexesHeld[t] = 0

GivesBack(t) == uxPriority[t] # BasePriority[t] /\ uxMutexesHeld[t] = 1

\* The priority goes back to its base with the last mutex
\* (xTaskPriorityDisinherit).  Then the first waiter is woken; a switch is
\* requested for a woken task of higher priority, or, if nobody waits, when the
\* priority went back.
Give(t, m) ==
    LET list == xTasksWaitingToReceive[m]
        back == GivesBack(t)
        bits == IF back
                THEN BitsMoved(t, BasePriority[t], uxPriority[t])
                ELSE uxTopReadyPriority
    IN  /\ Running(t) /\ pc[t] = "user" /\ xMutexHolder[m] = t
        /\ xMutexHolder' = [xMutexHolder EXCEPT ![m] = Nobody]
        /\ uxMutexesHeld' = [uxMutexesHeld EXCEPT ![t] = @ - 1]
        /\ uxPriority' = IF back
                         THEN [uxPriority EXCEPT ![t] = BasePriority[t]]
                         ELSE uxPriority
        /\ IF list = <<>>
           THEN /\ pendSV' = back
                /\ uxTopReadyPriority' = bits
                /\ UNCHANGED <<ready, xTasksWaitingToReceive>>
           ELSE LET u == Head(list)
                IN  /\ xTasksWaitingToReceive' =
                         [xTasksWaitingToReceive EXCEPT ![m] = Tail(@)]
                    /\ ready' = ready \cup {u}
                    /\ uxTopReadyPriority' = bits \cup {uxPriority[u]}
                    /\ pendSV' = (uxPriority[u] > uxPriority'[t])
        /\ UNCHANGED <<pxCurrentTCB, callVars>>

-----------------------------------------------------------------------------
(* The rest of the kernel: other waits, ticks and context switches.          *)

\* A task waits for something else, which an interrupt brings it.
Sleep(t) ==
    /\ Running(t) /\ pc[t] = "user" /\ t \in Sleepers
    /\ ready' = ready \ {t}
    /\ uxTopReadyPriority' = Reset(uxTopReadyPriority, uxPriority[t], ready')
    /\ pendSV' = TRUE
    /\ Goto(t, "asleep")
    /\ UNCHANGED <<pxCurrentTCB, uxPriority, mutexVars, want, wait,
                   xInheritanceOccurred>>

Wake(t) ==
    /\ pc[t] = "asleep" /\ ~Halted
    /\ ready' = ready \cup {t}
    /\ uxTopReadyPriority' = uxTopReadyPriority \cup {uxPriority[t]}
    /\ pendSV' = (pendSV \/ uxPriority[t] > uxPriority[pxCurrentTCB])
    /\ Goto(t, "user")
    /\ UNCHANGED <<pxCurrentTCB, uxPriority, mutexVars, want, wait,
                   xInheritanceOccurred>>

\* A finite wait ends: xTaskIncrementTick takes the n-th waiter off the event
\* list and the delayed list.  (Two waits that end in one tick are two of these
\* steps; ticks that were kept while the scheduler was suspended follow it.)
Tick(m, n) ==
    LET t == xTasksWaitingToReceive[m][n]
    IN  /\ n \in 1 .. Len(xTasksWaitingToReceive[m])
        /\ wait[t] = "finite" /\ ~Halted
        /\ wait' = [wait EXCEPT ![t] = "expired"]
        /\ xTasksWaitingToReceive' =
             [xTasksWaitingToReceive EXCEPT ![m] = Remove(@, n)]
        /\ ready' = ready \cup {t}
        /\ uxTopReadyPriority' = uxTopReadyPriority \cup {uxPriority[t]}
        /\ pendSV' = (pendSV \/ uxPriority[t] >= uxPriority[pxCurrentTCB])
        /\ UNCHANGED <<pxCurrentTCB, uxPriority, uxMutexesHeld, xMutexHolder,
                       pc, want, xInheritanceOccurred>>

\* taskSELECT_HIGHEST_PRIORITY_TASK: the next task of the list that the highest
\* bit names.
SwitchContext(t) ==
    /\ pendSV /\ ~Halted /\ t \in ready
    /\ uxPriority[t] \in uxTopReadyPriority
    /\ \A p \in uxTopReadyPriority : p <= uxPriority[t]
    /\ pxCurrentTCB' = t /\ pendSV' = FALSE
    /\ UNCHANGED <<ready, prioVars, mutexVars, callVars>>

-----------------------------------------------------------------------------
TaskStep(t) ==
    \/ TryTakes(t) \/ TryFails(t)
    \/ SuspendTimesOut(t) \/ SuspendFindsFree(t) \/ Park(t) \/ Resume(t)
    \/ Recheck(t) \/ DisinheritAfterTimeout(t)

Next ==
    \/ \E t \in Tasks :
          \/ TaskStep(t) \/ Sleep(t) \/ Wake(t) \/ SwitchContext(t)
          \/ \E m \in Mutexes, w \in Waits[t] : Take(t, m, w)
          \/ \E m \in Mutexes : Give(t, m)
    \/ \E m \in Mutexes : \E n \in 1 .. Len(xTasksWaitingToReceive[m]) :
          Tick(m, n)

\* A pended switch is taken and a call goes on when its task runs; a holder
\* that runs again and again gives its mutexes; what a task sleeps for comes.
\* Nothing makes a task that runs outside its calls stop.
Fairness ==
    /\ WF_vars(\E t \in Tasks : SwitchContext(t))
    /\ \A t \in Tasks :
          /\ WF_vars(TaskStep(t)) /\ WF_vars(Wake(t))
          /\ \A m \in Mutexes : SF_vars(Give(t, m))

Spec == Init /\ [][Next]_vars /\ Fairness

-----------------------------------------------------------------------------
(* Properties.                                                               *)

\* A task's count of held mutexes is what it holds, whatever waits, timeouts
\* and inheritance did between its calls (xTaskPriorityDisinherit asserts that
\* it is not zero and relies on it to give a priority back).
HeldCounted == \A t \in Tasks : uxMutexesHeld[t] = Cardinality(Held(t))

\* A task that holds no mutex has its own priority again: no inherited
\* priority survives the mutex it was inherited for, neither through a give
\* nor through a waiter's timeout that crosses one.
BaseWhenNoneHeld ==
    \A t \in Tasks : Held(t) = {} => uxPriority[t] = BasePriority[t]

\* No holder runs below a task that waits for its mutex: there is no stretch
\* in which a task of middle priority keeps both from running.
NoInversion ==
    \A m \in Mutexes : \A t \in Waiters(m) :
        xMutexHolder[m] # Nobody => uxPriority[xMutexHolder[m]] >= uxPriority[t]

\* An inherited priority is that of a task still waiting for a mutex of the
\* holder, or of one that has timed out and has yet to take it back.
InheritedForAWaiter ==
    \A h \in Tasks : uxPriority[h] # BasePriority[h] =>
        \E t \in Tasks :
            /\ uxPriority[t] = uxPriority[h] /\ want[t] \in Held(h)
            /\ pc[t] \in {"parked", "try", "suspend", "recheck", "disinherit"}

\* The bit map names exactly the ready lists that hold a task: the assertion
\* in taskSELECT_HIGHEST_PRIORITY_TASK holds, and no ready task is passed over.
BitsNameReadyLists ==
    uxTopReadyPriority = {uxPriority[t] : t \in ready}

\* A task whose wait has run out has not inherited its priority to the holder: "For
\* inheritance to have occurred there must have been an initial timeout, and an
\* adjusted timeout cannot become 0, as if it were 0 the function would have
\* exited" (xQueueSemaphoreTake, and the assertion below it).
AssertionHolds == ~Halted

\* The task that runs has the highest priority of all ready tasks.
HighestPriorityRuns ==
    \A t \in ready : ~pendSV => uxPriority[t] <= uxPriority[pxCurrentTCB]

\* The task of highest priority gets the mutex it waits for without limit,
\* although tasks of middle priority may never stop running.
HighestGetsMutex ==
    \A t \in Tasks :
        (\A u \in Tasks \ {t} : BasePriority[u] < BasePriority[t]) =>
            (pc[t] = "parked" /\ wait[t] = "infinite") ~> (want[t] \in Held(t))
=============================================================================
