--------------------------------- MODULE Boot ---------------------------------
(***************************************************************************)
(* The firmware from main to its running tasks.  main creates the kernel   *)
(* objects of lwIP, adds the network interface, which lets the Ethernet    *)
(* controller raise interrupts, and only later starts the scheduler, which *)
(* creates the timer queue that the transmit interrupt posts to.  What     *)
(* keeps the interrupts away until then is the critical nesting count,     *)
(* which starts as 0xaaaaaaaa: no critical section unmasks them.           *)
(*                                                                         *)
(* The network is external.  An unmasked interrupt is taken before the     *)
(* running task goes on.  Queues and rings are modelled by their counts    *)
(* (Queue, EnetRx and EnetTx have the detail); the core lock only as far   *)
(* as main uses it.                                                        *)
(***************************************************************************)
EXTENDS Naturals, Sequences

CONSTANTS
    None,
    TxBdNumber,     \* ENET_TXBD_NUM
    MaxFrame        \* bound: frames that arrive

\* The gratuitous ARP and a reply to each frame fit into the transmit ring.
ASSUME BootAssumption ==
    MaxFrame \in Nat /\ TxBdNumber \in Nat /\ MaxFrame < TxBdNumber

VARIABLES
    main,               \* main's next operation, an index into Program
    objects,            \* kernel objects that exist
    nested,             \* uxCriticalNesting is not 0 between critical sections
    basepri,            \* interrupts of API priority are masked
    pxCurrentTCB,
    ready, blocked,     \* tasks
    xMutexHolder,       \* of the core lock
    uxMutexesHeld,      \* by each task
    active,             \* the controller receives
    full,               \* frames in the receive ring
    queued,             \* frames in the transmit ring
    rxf, txf,           \* interrupts pending
    mbox,               \* messages for tcpip_thread
    timerQueue,         \* calls pended to the timer task
    arrived, handled,   \* frames, in all
    halted              \* "no", or where the firmware stopped: "assert", "exit"

schedVars == <<nested, basepri, pxCurrentTCB, ready, blocked>>
lockVars == <<xMutexHolder, uxMutexesHeld>>
enetVars == <<active, full, queued, rxf, txf, arrived>>
postVars == <<mbox, timerQueue, handled>>
vars == <<main, objects, schedVars, lockVars, enetVars, postVars, halted>>

Tasks == {"idle", "echo", "aescrc", "tcpip", "timer"}

\* NULL is no task.
ASSUME NoneAssumption == None \notin Tasks

\* DEFAULT_THREAD_PRIO, TCPIP_THREAD_PRIO, configTIMER_TASK_PRIORITY, main.
Priority == [idle |-> 0, echo |-> 3, aescrc |-> 4, tcpip |-> 8, timer |-> 17]

\* What main and the functions it calls do, in order: each operation with
\* what it creates.
Op(do, what) == [do |-> do, what |-> what]
Under(do) == <<Op("lock", None), Op(do, None), Op("unlock", None)>>
Program ==
    <<Op("object", "tcpip_mbox"), Op("object", "lock_tcpip_core"), Op("task", "tcpip")>>
    \o Under("netif_add") \o Under("set_default") \o Under("set_up")
    \o <<Op("task", "echo"), Op("task", "aescrc"), Op("task", "idle"),
         Op("object", "xTimerQueue"), Op("task", "timer"), Op("start", None)>>

Running == main > Len(Program)

Init ==
    /\ main = 1 /\ objects = {}
    /\ nested = TRUE /\ basepri = FALSE
    /\ pxCurrentTCB = None /\ ready = {} /\ blocked = {}
    /\ xMutexHolder = None /\ uxMutexesHeld = [t \in Tasks |-> 0]
    /\ active = FALSE /\ full = 0 /\ queued = 0 /\ rxf = FALSE /\ txf = FALSE
    /\ mbox = 0 /\ timerQueue = 0 /\ arrived = 0 /\ handled = 0
    /\ halted = "no"

-----------------------------------------------------------------------------
(* The controller.                                                          *)

Arrive ==
    /\ active /\ arrived < MaxFrame
    /\ arrived' = arrived + 1 /\ full' = full + 1 /\ rxf' = TRUE
    /\ UNCHANGED <<main, objects, schedVars, lockVars, active, queued, txf,
                   postVars, halted>>

Transmit ==
    /\ queued > 0
    /\ queued' = queued - 1 /\ txf' = TRUE
    /\ UNCHANGED <<main, objects, schedVars, lockVars, active, full, rxf, arrived,
                   postVars, halted>>

-----------------------------------------------------------------------------
(* Interrupts.                                                              *)

Taken(pending) == pending /\ ~basepri /\ halted = "no"

\* A failed configASSERT, and a task that returns, disable the interrupts and
\* loop.
Halt(where) == halted' = where /\ basepri' = TRUE

Highest(S) == CHOOSE t \in S : \A u \in S : Priority[u] <= Priority[t]

\* A message for a task that waits for one readies it.
Wake(t) ==
    /\ ready' = IF t \in blocked THEN ready \cup {t} ELSE ready
    /\ blocked' = blocked \ {t}
    /\ pxCurrentTCB' = Highest(ready')
    /\ UNCHANGED <<nested, basepri>>

\* xQueueSendFromISR asserts that there is a queue.
PostFromISR(queue, Post) ==
    IF queue \in objects
    THEN Post /\ UNCHANGED halted
    ELSE /\ Halt("assert")
         /\ UNCHANGED <<nested, pxCurrentTCB, ready, blocked, postVars>>

\* Every frame in the ring is posted to tcpip_thread.
ReceiveIRQ ==
    /\ Taken(rxf)
    /\ rxf' = FALSE /\ full' = 0
    /\ PostFromISR("tcpip_mbox", /\ mbox' = mbox + full
                                 /\ UNCHANGED <<timerQueue, handled>>
                                 /\ Wake("tcpip"))
    /\ UNCHANGED <<main, objects, lockVars, active, queued, txf, arrived>>

\* xEventGroupSetBitsFromISR pends a call to the timer task.
TransmitIRQ ==
    /\ Taken(txf)
    /\ txf' = FALSE
    /\ PostFromISR("xTimerQueue", /\ timerQueue' = timerQueue + 1
                                  /\ UNCHANGED <<mbox, handled>>
                                  /\ Wake("timer"))
    /\ UNCHANGED <<main, objects, lockVars, active, full, queued, rxf, arrived>>

-----------------------------------------------------------------------------
(* main.                                                                    *)

\* No interrupt is due, and main is at operation do.
At(do) ==
    /\ halted = "no" /\ ~Taken(rxf) /\ ~Taken(txf)
    /\ ~Running /\ Program[main].do = do
    /\ main' = main + 1

\* Mutant: the nesting count starts as 0.
CriticalSectionUnmasks == basepri' = FALSE /\ UNCHANGED nested

\* vPortEnterCritical masks, vPortExitCritical unmasks if the count is 0.
CriticalSection ==
    /\ basepri' = nested
    /\ UNCHANGED nested

\* A queue or a mutex is created, by critical sections.
CreateObject ==
    /\ At("object")
    /\ objects' = objects \cup {Program[main].what}
    /\ CriticalSection
    /\ UNCHANGED <<pxCurrentTCB, ready, blocked, lockVars, enetVars, postVars, halted>>

\* prvAddNewTaskToReadyList before the scheduler runs: the current task is the
\* latest of those of the highest priority.
CreateTask ==
    /\ At("task")
    /\ LET t == Program[main].what
       IN  /\ pxCurrentTCB' = IF \/ pxCurrentTCB = None
                                 \/ Priority[pxCurrentTCB] <= Priority[t]
                              THEN t ELSE pxCurrentTCB
           /\ ready' = ready \cup {t}
    /\ CriticalSection
    /\ UNCHANGED <<objects, blocked, lockVars, enetVars, postVars, halted>>

\* LOCK_TCPIP_CORE: whatever is pxCurrentTCB becomes the mutex's holder.
Lock ==
    /\ At("lock")
    /\ xMutexHolder' = pxCurrentTCB
    /\ uxMutexesHeld' = [uxMutexesHeld EXCEPT ![pxCurrentTCB] = @ + 1]
    /\ CriticalSection
    /\ UNCHANGED <<objects, pxCurrentTCB, ready, blocked, enetVars, postVars, halted>>

\* Mutant: the holder's count is not taken back.
UnlockStillCounted ==
    /\ At("unlock")
    /\ xMutexHolder' = None
    /\ CriticalSection
    /\ UNCHANGED <<uxMutexesHeld, halted>>
    /\ UNCHANGED <<objects, pxCurrentTCB, ready, blocked, enetVars, postVars>>

\* UNLOCK_TCPIP_CORE: xTaskPriorityDisinherit asserts that the holder is the
\* current task and holds a mutex.
Unlock ==
    /\ At("unlock")
    /\ IF xMutexHolder = pxCurrentTCB /\ uxMutexesHeld[pxCurrentTCB] > 0
       THEN /\ uxMutexesHeld' = [uxMutexesHeld EXCEPT ![pxCurrentTCB] = @ - 1]
            /\ xMutexHolder' = None
            /\ CriticalSection
            /\ UNCHANGED halted
       ELSE Halt("assert") /\ UNCHANGED <<lockVars, nested>>
    /\ UNCHANGED <<objects, pxCurrentTCB, ready, blocked, enetVars, postVars>>

\* netif_add's init function creates the transmit event and starts the controller.
NetifAdd ==
    /\ At("netif_add")
    /\ objects' = objects \cup {"enetTransmitAccessEvent"}
    /\ active' = TRUE
    /\ CriticalSection
    /\ UNCHANGED <<pxCurrentTCB, ready, blocked, lockVars, full, queued, rxf, txf,
                   arrived, postVars, halted>>

SetDefault ==
    /\ At("set_default")
    /\ UNCHANGED <<objects, schedVars, lockVars, enetVars, postVars, halted>>

\* netif_set_up announces the address with a gratuitous ARP.
SetUp ==
    /\ At("set_up")
    /\ queued' = queued + 1
    /\ CriticalSection
    /\ UNCHANGED <<objects, pxCurrentTCB, ready, blocked, lockVars, active, full, rxf,
                   txf, arrived, postVars, halted>>

\* Mutant: the first task starts with the mask that main left.
StartSchedulerMasked ==
    /\ At("start")
    /\ nested' = FALSE
    /\ UNCHANGED <<basepri, objects, pxCurrentTCB, ready, blocked, lockVars, enetVars,
                   postVars, halted>>

\* xPortStartScheduler clears the nesting count; vPortSVCHandler clears BASEPRI
\* and resumes the current task.
StartScheduler ==
    /\ At("start")
    /\ nested' = FALSE
    /\ basepri' = FALSE
    /\ UNCHANGED <<objects, pxCurrentTCB, ready, blocked, lockVars, enetVars, postVars,
                   halted>>

-----------------------------------------------------------------------------
(* The tasks.  No interrupt is due, and t is the current task.              *)

Runs(t) ==
    /\ halted = "no" /\ ~Taken(rxf) /\ ~Taken(txf)
    /\ Running /\ pxCurrentTCB = t

\* The current task waits for a message.
Wait ==
    /\ ready' = ready \ {pxCurrentTCB}
    /\ blocked' = blocked \cup {pxCurrentTCB}
    /\ pxCurrentTCB' = Highest(ready')
    /\ UNCHANGED <<nested, basepri>>

\* The timer task calls what was pended (here: it sets the event's bits).
TimerTask ==
    /\ Runs("timer")
    /\ IF timerQueue > 0
       THEN timerQueue' = timerQueue - 1 /\ UNCHANGED schedVars
       ELSE Wait /\ UNCHANGED timerQueue
    /\ UNCHANGED <<main, objects, lockVars, enetVars, mbox, handled, halted>>

\* tcpip_thread handles a packet, and may reply.
TcpipThread ==
    /\ Runs("tcpip")
    /\ IF mbox > 0
       THEN /\ mbox' = mbox - 1 /\ handled' = handled + 1
            /\ queued' \in {queued, queued + 1}
            /\ UNCHANGED schedVars
       ELSE Wait /\ UNCHANGED <<mbox, handled, queued>>
    /\ UNCHANGED <<main, objects, lockVars, active, full, rxf, txf, arrived, timerQueue,
                   halted>>

\* aescrc_test_task computes and prints without waiting for anything, then
\* returns, to prvTaskExitError.
AesCrcTestTask ==
    /\ Runs("aescrc")
    /\ Halt("exit")
    /\ UNCHANGED <<main, objects, nested, pxCurrentTCB, ready, blocked,
                   lockVars, enetVars, postVars>>

MainNext ==
    \/ CreateObject \/ CreateTask \/ Lock \/ Unlock
    \/ NetifAdd \/ SetDefault \/ SetUp
    \/ StartScheduler

Next ==
    \/ Arrive \/ Transmit \/ ReceiveIRQ \/ TransmitIRQ
    \/ MainNext
    \/ TimerTask \/ TcpipThread \/ AesCrcTestTask

Spec == Init /\ [][Next]_vars

-----------------------------------------------------------------------------
(* Properties.                                                              *)

TypeOK ==
    /\ main \in 1 .. Len(Program) + 1
    /\ objects \subseteq {"tcpip_mbox", "lock_tcpip_core", "xTimerQueue",
                          "enetTransmitAccessEvent"}
    /\ nested \in BOOLEAN /\ basepri \in BOOLEAN
    /\ pxCurrentTCB \in Tasks \cup {None}
    /\ ready \subseteq Tasks /\ blocked \subseteq Tasks
    /\ xMutexHolder \in Tasks \cup {None} /\ uxMutexesHeld \in [Tasks -> 0 .. 1]
    /\ active \in BOOLEAN /\ rxf \in BOOLEAN /\ txf \in BOOLEAN
    /\ full \in 0 .. MaxFrame /\ queued \in 0 .. TxBdNumber
    /\ mbox \in 0 .. MaxFrame /\ timerQueue \in Nat
    /\ arrived \in 0 .. MaxFrame /\ handled \in 0 .. MaxFrame
    /\ halted \in {"no", "assert", "exit"}

\* No assertion of the kernel fails while the firmware comes up: no interrupt
\* posts to a queue that is not there yet, and whoever main was taken for when
\* it took the core lock it still is when it gives it back.
AssertionsHold == halted # "assert"

\* No frame is overlooked, also of those that arrive while main has the
\* interrupts masked: when a task less urgent than tcpip_thread gets to its end,
\* all that arrived are handled.
NothingOverlooked ==
    [][halted = "no" /\ halted' = "exit" => handled = arrived]_vars
=============================================================================
