------------------------------- MODULE BootProofs -------------------------------
(***************************************************************************)
(* The firmware comes up without a failed assertion and overlooks no       *)
(* frame, for every number of frames and every size of the transmit ring   *)
(* that takes their replies.                                               *)
(***************************************************************************)
EXTENDS Boot, TLAPS

USE BootAssumption, NoneAssumption

\* What main does, operation by operation.
LEMMA ProgramIs ==
    /\ Len(Program) = 18
    /\ Program[1] = Op("object", "tcpip_mbox")
    /\ Program[2] = Op("object", "lock_tcpip_core")
    /\ Program[3] = Op("task", "tcpip")
    /\ \A i \in {4, 7, 10} : Program[i] = Op("lock", None)
    /\ Program[5] = Op("netif_add", None)
    /\ Program[8] = Op("set_default", None)
    /\ Program[11] = Op("set_up", None)
    /\ \A i \in {6, 9, 12} : Program[i] = Op("unlock", None)
    /\ Program[13] = Op("task", "echo")
    /\ Program[14] = Op("task", "aescrc")
    /\ Program[15] = Op("task", "idle")
    /\ Program[16] = Op("object", "xTimerQueue")
    /\ Program[17] = Op("task", "timer")
    /\ Program[18] = Op("start", None)
  BY DEF Program, Under

LEMMA Priorities ==
    /\ Priority["idle"] = 0 /\ Priority["echo"] = 3 /\ Priority["aescrc"] = 4
    /\ Priority["tcpip"] = 8 /\ Priority["timer"] = 17
  BY DEF Priority

\* The kernel's choice of a task: one of the highest priority.
LEMMA HighestIs ==
    ASSUME NEW S, S \subseteq Tasks, S # {}
    PROVE  Highest(S) \in S /\ \A u \in S : Priority[u] <= Priority[Highest(S)]
  <1>1. \E t \in S : \A u \in S : Priority[u] <= Priority[t]
    <2>1. CASE "timer" \in S
      BY <2>1, Priorities DEF Tasks
    <2>2. CASE "timer" \notin S /\ "tcpip" \in S
      BY <2>2, Priorities DEF Tasks
    <2>3. CASE "timer" \notin S /\ "tcpip" \notin S /\ "aescrc" \in S
      BY <2>3, Priorities DEF Tasks
    <2>4. CASE "timer" \notin S /\ "tcpip" \notin S /\ "aescrc" \notin S /\ "echo" \in S
      BY <2>4, Priorities DEF Tasks
    <2>5. CASE "timer" \notin S /\ "tcpip" \notin S /\ "aescrc" \notin S /\ "echo" \notin S
      <3>1. S = {"idle"}
        BY <2>5 DEF Tasks
      <3> QED BY <3>1, Priorities
    <2> QED BY <2>1, <2>2, <2>3, <2>4, <2>5
  <1> QED BY <1>1 DEF Highest

-----------------------------------------------------------------------------
(* The invariant.                                                           *)

\* main runs with the interrupts masked from its first operation on.
Masked ==
    /\ main <= 18 => nested /\ halted = "no"
    /\ main \in 2 .. 18 => basepri
    /\ main > 18 /\ halted = "no" => ~basepri

\* What exists by when.
Created ==
    /\ main > 1 => "tcpip_mbox" \in objects
    /\ main > 16 => "xTimerQueue" \in objects
    /\ ready \cap blocked = {}
    /\ main <= 3 => ready = {} /\ pxCurrentTCB = None
    /\ main \in 4 .. 13 => ready = {"tcpip"}
    /\ main = 14 => ready = {"tcpip", "echo"}
    /\ main = 15 => ready = {"tcpip", "echo", "aescrc"}
    /\ main \in 16 .. 17 => ready = {"tcpip", "echo", "aescrc", "idle"}
    /\ main > 17 => ready \cup blocked = Tasks
    /\ main <= 18 => blocked = {}
    /\ blocked \subseteq {"tcpip", "timer"}

\* The current task is the one that main is taken for, then the most urgent.
Current ==
    /\ main \in 4 .. 17 => pxCurrentTCB = "tcpip"
    /\ main > 17 => /\ pxCurrentTCB \in ready
                    /\ \A t \in ready : Priority[t] <= Priority[pxCurrentTCB]

\* main holds the core lock in the name of tcpip_thread.
LockHeld ==
    IF main \in {5, 6, 8, 9, 11, 12}
    THEN xMutexHolder = "tcpip" /\ uxMutexesHeld["tcpip"] = 1
    ELSE uxMutexesHeld["tcpip"] = 0

\* Every frame that arrived is in the ring, with an interrupt to come, or a
\* message to tcpip_thread, or handled; only the ARP and replies are sent.
Accounted ==
    /\ ~active => arrived = 0
    /\ main <= 5 => ~active
    /\ arrived = full + mbox + handled
    /\ full > 0 <=> rxf
    /\ main <= 11 => queued = 0 /\ ~txf
    /\ queued <= handled + 1
    /\ "tcpip" \in blocked => mbox = 0

BootInv ==
    /\ TypeOK /\ Masked /\ Created /\ Current /\ LockHeld /\ Accounted
    /\ AssertionsHold

\* The numbers among the types, and the rest of them.
CountsOK ==
    /\ main \in 1 .. 19
    /\ uxMutexesHeld \in [Tasks -> 0 .. 1]
    /\ full \in 0 .. MaxFrame /\ queued \in 0 .. TxBdNumber
    /\ mbox \in 0 .. MaxFrame /\ timerQueue \in Nat
    /\ arrived \in 0 .. MaxFrame /\ handled \in 0 .. MaxFrame

FlagsOK ==
    /\ objects \subseteq {"tcpip_mbox", "lock_tcpip_core", "xTimerQueue",
                          "enetTransmitAccessEvent"}
    /\ nested \in BOOLEAN /\ basepri \in BOOLEAN
    /\ pxCurrentTCB \in Tasks \cup {None}
    /\ ready \subseteq Tasks /\ blocked \subseteq Tasks
    /\ xMutexHolder \in Tasks \cup {None}
    /\ active \in BOOLEAN /\ rxf \in BOOLEAN /\ txf \in BOOLEAN
    /\ halted \in {"no", "assert", "exit"}

LEMMA TypeParts == TypeOK <=> CountsOK /\ FlagsOK
<1>1. 1 .. Len(Program) + 1 = 1 .. 19
  BY ProgramIs
<1> QED BY <1>1, Zenon DEF TypeOK, CountsOK, FlagsOK

LEMMA BootInvInit == Init => BootInv
<1> SUFFICES ASSUME Init PROVE BootInv
  OBVIOUS
<1>1. CountsOK
  BY DEF Init, CountsOK
<1>2. FlagsOK
  BY DEF Init, FlagsOK
<1>3. Masked /\ Created /\ Current /\ AssertionsHold
  BY DEF Init, Masked, Created, Current, AssertionsHold
<1>4. LockHeld
  BY DEF Init, LockHeld, Tasks
<1>5. Accounted
  BY DEF Init, Accounted
<1> QED BY <1>1, <1>2, <1>3, <1>4, <1>5, TypeParts DEF BootInv

\* main is at an operation of a kind at those places of the program only.
LEMMA AtPlaces ==
    BootInv =>
        /\ main \in 1 .. 19 /\ (Running <=> main = 19)
        /\ At("object") => main \in {1, 2, 16}
        /\ At("task") => main \in {3, 13, 14, 15, 17}
        /\ At("lock") => main \in {4, 7, 10}
        /\ At("unlock") => main \in {6, 9, 12}
        /\ At("netif_add") => main = 5
        /\ At("set_default") => main = 8
        /\ At("set_up") => main = 11
        /\ At("start") => main = 18
<1> SUFFICES ASSUME BootInv
             PROVE  /\ main \in 1 .. 19 /\ (Running <=> main = 19)
                    /\ At("object") => main \in {1, 2, 16}
                    /\ At("task") => main \in {3, 13, 14, 15, 17}
                    /\ At("lock") => main \in {4, 7, 10}
                    /\ At("unlock") => main \in {6, 9, 12}
                    /\ At("netif_add") => main = 5
                    /\ At("set_default") => main = 8
                    /\ At("set_up") => main = 11
                    /\ At("start") => main = 18
  OBVIOUS
<1>1. main \in 1 .. 19 /\ (Running <=> main = 19)
  BY ProgramIs DEF BootInv, TypeOK, Running
<1>2. \A do : At(do) => main \in 1 .. 18 /\ Program[main].do = do
  BY <1>1 DEF At
<1>3. /\ \A i \in {1, 2, 16} : Program[i].do = "object"
      /\ \A i \in {3, 13, 14, 15, 17} : Program[i].do = "task"
      /\ \A i \in {4, 7, 10} : Program[i].do = "lock"
      /\ \A i \in {6, 9, 12} : Program[i].do = "unlock"
      /\ Program[5].do = "netif_add" /\ Program[8].do = "set_default"
      /\ Program[11].do = "set_up" /\ Program[18].do = "start"
  BY ProgramIs DEF Op
<1> QED BY <1>1, <1>2, <1>3

LEMMA CreateObjectStep == BootInv /\ CreateObject => BootInv'
<1> SUFFICES ASSUME BootInv, CreateObject PROVE BootInv'
  OBVIOUS
<1>1. main \in {1, 2, 16} /\ main' = main + 1
  BY AtPlaces DEF CreateObject, At
<1>2. /\ objects' = objects \cup {Program[main].what} /\ basepri' = nested
      /\ UNCHANGED <<nested, pxCurrentTCB, ready, blocked, lockVars, enetVars, postVars, halted>>
  BY DEF CreateObject, CriticalSection
<1>3. /\ Program[1].what = "tcpip_mbox" /\ Program[2].what = "lock_tcpip_core"
      /\ Program[16].what = "xTimerQueue"
  BY ProgramIs DEF Op
<1>4. CountsOK'
  BY <1>1, <1>2, TypeParts DEF CountsOK, BootInv, lockVars, enetVars, postVars
<1>5. FlagsOK'
  BY <1>1, <1>2, <1>3, TypeParts DEF FlagsOK, BootInv, lockVars, enetVars
<1>6. Masked' /\ Created' /\ Current' /\ AssertionsHold'
  BY <1>1, <1>2, <1>3 DEF BootInv, Masked, Created, Current, AssertionsHold
<1>7. LockHeld' /\ Accounted'
  BY <1>1, <1>2 DEF BootInv, LockHeld, Accounted, lockVars, enetVars, postVars
<1> QED BY <1>4, <1>5, <1>6, <1>7, TypeParts, PTL DEF BootInv

LEMMA CreateTaskStep == BootInv /\ CreateTask => BootInv'
<1> SUFFICES ASSUME BootInv, CreateTask PROVE BootInv'
  OBVIOUS
<1>1. main \in {3, 13, 14, 15, 17} /\ main' = main + 1
  BY AtPlaces DEF CreateTask, At
<1> DEFINE t == Program[main].what
<1>2. /\ basepri' = nested /\ ready' = ready \cup {t}
      /\ pxCurrentTCB' = IF pxCurrentTCB = None \/ Priority[pxCurrentTCB] <= Priority[t]
                         THEN t ELSE pxCurrentTCB
      /\ UNCHANGED <<nested, objects, blocked, lockVars, enetVars, postVars, halted>>
  BY DEF CreateTask, CriticalSection
<1>3. /\ main = 3 => t = "tcpip" /\ pxCurrentTCB = None
      /\ main = 13 => t = "echo"
      /\ main = 14 => t = "aescrc"
      /\ main = 15 => t = "idle"
      /\ main = 17 => t = "timer"
      /\ main > 3 => pxCurrentTCB = "tcpip"
  <2>1. /\ Program[3].what = "tcpip" /\ Program[13].what = "echo"
        /\ Program[14].what = "aescrc" /\ Program[15].what = "idle"
        /\ Program[17].what = "timer"
    BY ProgramIs DEF Op
  <2> QED BY <1>1, <2>1 DEF BootInv, Current, Created
<1> HIDE DEF t
<1>4. CountsOK'
  BY <1>1, <1>2, TypeParts DEF CountsOK, BootInv, lockVars, enetVars, postVars
<1>5. FlagsOK'
  BY <1>1, <1>2, <1>3, TypeParts DEF FlagsOK, BootInv, lockVars, enetVars, Tasks
<1>6. Masked' /\ AssertionsHold'
  BY <1>1, <1>2 DEF BootInv, Masked, AssertionsHold
<1>7. Created' /\ Current'
  <2>1. CASE main = 3
    BY <1>2, <1>3, <2>1, <1>1, Priorities DEF BootInv, Created, Current
  <2>2. CASE main \in {13, 14, 15}
    <3>1. /\ pxCurrentTCB' = "tcpip" /\ main' \in {14, 15, 16} /\ blocked' = {}
          /\ ready' = ready \cup {t} /\ "tcpip_mbox" \in objects'
      <4>1. t \in {"echo", "aescrc", "idle"} /\ pxCurrentTCB = "tcpip" /\ "tcpip" # None
        BY <1>3, <2>2 DEF Tasks
      <4>2. ~ (Priority["tcpip"] <= Priority[t])
        BY <4>1, Priorities
      <4>3. pxCurrentTCB' = "tcpip"
        BY <1>2, <4>1, <4>2
      <4> QED BY <1>1, <1>2, <2>2, <4>3 DEF BootInv, Created
    <3>2. /\ main = 13 => ready' = {"tcpip", "echo"}
          /\ main = 14 => ready' = {"tcpip", "echo", "aescrc"}
          /\ main = 15 => ready' = {"tcpip", "echo", "aescrc", "idle"}
      BY <1>3, <3>1 DEF BootInv, Created
    <3> QED BY <1>1, <2>2, <3>1, <3>2 DEF Created, Current
  <2>3. CASE main = 17
    <3>1. /\ main' = 18 /\ pxCurrentTCB' = "timer" /\ blocked' = {} /\ objects' = objects
          /\ ready' = {"tcpip", "echo", "aescrc", "idle", "timer"}
          /\ {"tcpip_mbox", "xTimerQueue"} \subseteq objects
      BY <1>1, <1>2, <1>3, <2>3, Priorities DEF BootInv, Created
    <3>2. Created'
      BY <3>1 DEF Created, Tasks
    <3>3. Current'
      BY <3>1, Priorities DEF Current
    <3> QED BY <3>2, <3>3
  <2> QED BY <1>1, <2>1, <2>2, <2>3
<1>8. LockHeld' /\ Accounted'
  BY <1>1, <1>2 DEF BootInv, LockHeld, Accounted, lockVars, enetVars, postVars
<1> QED BY <1>4, <1>5, <1>6, <1>7, <1>8, TypeParts, PTL DEF BootInv

LEMMA LockStep == BootInv /\ Lock => BootInv'
<1> SUFFICES ASSUME BootInv, Lock PROVE BootInv'
  OBVIOUS
<1>1. main \in {4, 7, 10} /\ main' = main + 1
  BY AtPlaces DEF Lock, At
<1>2. /\ xMutexHolder' = "tcpip" /\ basepri' = nested
      /\ uxMutexesHeld' = [uxMutexesHeld EXCEPT !["tcpip"] = @ + 1]
      /\ UNCHANGED <<nested, objects, pxCurrentTCB, ready, blocked, enetVars, postVars, halted>>
  <2>1. pxCurrentTCB = "tcpip"
    BY <1>1 DEF BootInv, Current
  <2> QED BY <2>1 DEF Lock, CriticalSection
<1>3. CountsOK' /\ LockHeld'
  <2>1. uxMutexesHeld["tcpip"] = 0 /\ uxMutexesHeld \in [Tasks -> 0 .. 1] /\ "tcpip" \in Tasks
    BY <1>1, TypeParts DEF BootInv, LockHeld, CountsOK, Tasks
  <2>2. uxMutexesHeld' \in [Tasks -> 0 .. 1] /\ uxMutexesHeld'["tcpip"] = 1
    BY <1>2, <2>1
  <2> QED BY <1>1, <1>2, <2>2, TypeParts DEF CountsOK, LockHeld, BootInv, enetVars, postVars
<1>4. FlagsOK'
  BY <1>2, TypeParts DEF FlagsOK, BootInv, enetVars, Tasks
<1>5. Masked' /\ Created' /\ Current' /\ AssertionsHold' /\ Accounted'
  BY <1>1, <1>2 DEF BootInv, Masked, Created, Current, AssertionsHold, Accounted, enetVars,
     postVars
<1> QED BY <1>3, <1>4, <1>5, TypeParts, PTL DEF BootInv

\* main is the holder that it was taken for, so the assertion holds.
LEMMA UnlockStep == BootInv /\ Unlock => BootInv'
<1> SUFFICES ASSUME BootInv, Unlock PROVE BootInv'
  OBVIOUS
<1>1. main \in {6, 9, 12} /\ main' = main + 1
  BY AtPlaces DEF Unlock, At
<1>2. pxCurrentTCB = "tcpip" /\ xMutexHolder = "tcpip" /\ uxMutexesHeld["tcpip"] = 1
  BY <1>1 DEF BootInv, LockHeld, Current
<1>3. /\ xMutexHolder' = None /\ basepri' = nested
      /\ uxMutexesHeld' = [uxMutexesHeld EXCEPT !["tcpip"] = @ - 1]
      /\ UNCHANGED <<nested, objects, pxCurrentTCB, ready, blocked, enetVars, postVars, halted>>
  BY <1>2 DEF Unlock, CriticalSection
<1>4. CountsOK' /\ LockHeld'
  <2>1. uxMutexesHeld \in [Tasks -> 0 .. 1] /\ "tcpip" \in Tasks
    BY TypeParts DEF BootInv, CountsOK, Tasks
  <2>2. uxMutexesHeld' \in [Tasks -> 0 .. 1] /\ uxMutexesHeld'["tcpip"] = 0
    BY <1>2, <1>3, <2>1
  <2> QED BY <1>1, <1>3, <2>2, TypeParts DEF CountsOK, LockHeld, BootInv, enetVars, postVars
<1>5. FlagsOK'
  BY <1>3, TypeParts DEF FlagsOK, BootInv, enetVars
<1>6. Masked' /\ Created' /\ Current' /\ AssertionsHold' /\ Accounted'
  BY <1>1, <1>3 DEF BootInv, Masked, Created, Current, AssertionsHold, Accounted, enetVars,
     postVars
<1> QED BY <1>4, <1>5, <1>6, TypeParts, PTL DEF BootInv

LEMMA NetifSteps == BootInv /\ (NetifAdd \/ SetDefault \/ SetUp) => BootInv'
<1> SUFFICES ASSUME BootInv, NetifAdd \/ SetDefault \/ SetUp PROVE BootInv'
  OBVIOUS
<1>1. main \in {5, 8, 11} /\ main' = main + 1 /\ (main = 11 <=> SetUp)
  BY AtPlaces DEF NetifAdd, SetDefault, SetUp, At
<1>2. /\ objects \subseteq objects' /\ objects' \subseteq objects \cup {"enetTransmitAccessEvent"}
      /\ basepri' \in {nested, basepri} /\ (active => active') /\ active' \in BOOLEAN
      /\ (active' => active \/ main = 5)
      /\ queued' = IF main = 11 THEN queued + 1 ELSE queued
      /\ UNCHANGED <<nested, pxCurrentTCB, ready, blocked, lockVars, full, rxf, txf, arrived,
                     postVars, halted>>
  <2>1. CASE NetifAdd
    BY <2>1, <1>1, AtPlaces DEF NetifAdd, CriticalSection, At
  <2>2. CASE SetDefault
    BY <2>2, <1>1, AtPlaces, TypeParts DEF SetDefault, schedVars, enetVars, BootInv, FlagsOK, At
  <2>3. CASE SetUp
    BY <2>3, <1>1, TypeParts DEF SetUp, CriticalSection, BootInv, FlagsOK
  <2> QED BY <2>1, <2>2, <2>3
<1>3. CountsOK' /\ Accounted'
  <2>1. main = 11 => queued = 0
    BY DEF BootInv, Accounted
  <2>2. CountsOK'
    BY <1>1, <1>2, <2>1, TypeParts DEF CountsOK, BootInv, lockVars, postVars
  <2>3. Accounted'
    BY <1>1, <1>2, <2>1, TypeParts DEF CountsOK, Accounted, BootInv, postVars
  <2> QED BY <2>2, <2>3
<1>4. FlagsOK'
  BY <1>2, TypeParts DEF FlagsOK, BootInv, lockVars
<1>5. Masked' /\ Created' /\ Current' /\ AssertionsHold' /\ LockHeld'
  BY <1>1, <1>2 DEF BootInv, Masked, Created, Current, AssertionsHold, LockHeld, lockVars
<1> QED BY <1>3, <1>4, <1>5, TypeParts, PTL DEF BootInv

LEMMA StartStep == BootInv /\ StartScheduler => BootInv'
<1> SUFFICES ASSUME BootInv, StartScheduler PROVE BootInv'
  OBVIOUS
<1>1. main = 18 /\ main' = 19
  BY AtPlaces DEF StartScheduler, At
<1>2. /\ nested' = FALSE /\ basepri' = FALSE
      /\ UNCHANGED <<objects, pxCurrentTCB, ready, blocked, lockVars, enetVars, postVars, halted>>
  BY DEF StartScheduler
<1>3. CountsOK' /\ LockHeld' /\ Accounted'
  BY <1>1, <1>2, TypeParts DEF CountsOK, LockHeld, Accounted, BootInv, lockVars, enetVars, postVars
<1>4. FlagsOK'
  BY <1>2, TypeParts DEF FlagsOK, BootInv, lockVars, enetVars
<1>5. Masked' /\ Created' /\ Current' /\ AssertionsHold'
  BY <1>1, <1>2 DEF BootInv, Masked, Created, Current, AssertionsHold
<1> QED BY <1>3, <1>4, <1>5, TypeParts, PTL DEF BootInv

-----------------------------------------------------------------------------
(* The controller, the interrupts and the tasks.                            *)

LEMMA ControllerSteps == BootInv /\ (Arrive \/ Transmit) => BootInv'
<1> SUFFICES ASSUME BootInv, Arrive \/ Transmit PROVE BootInv'
  OBVIOUS
<1>1. UNCHANGED <<main, objects, schedVars, lockVars, active, postVars, halted>>
  BY DEF Arrive, Transmit
<1>2. \/ /\ active /\ arrived < MaxFrame
         /\ arrived' = arrived + 1 /\ full' = full + 1 /\ rxf' = TRUE
         /\ queued' = queued /\ txf' = txf
      \/ /\ queued > 0 /\ queued' = queued - 1 /\ txf' = TRUE
         /\ UNCHANGED <<full, rxf, arrived>>
  BY DEF Arrive, Transmit
<1>3. CountsOK' /\ Accounted'
  <2>1. CountsOK /\ Accounted
    BY TypeParts DEF BootInv
  <2>2. CountsOK'
    BY <1>1, <1>2, <2>1 DEF CountsOK, Accounted, lockVars, postVars
  <2>3. /\ ~active' => arrived' = 0
        /\ main' <= 5 => ~active'
        /\ main' <= 11 => queued' = 0 /\ ~txf'
        /\ "tcpip" \in blocked' => mbox' = 0
    BY <1>1, <1>2, <2>1 DEF CountsOK, Accounted, schedVars, postVars
  <2>4. arrived' = full' + mbox' + handled' /\ queued' <= handled' + 1
    BY <1>1, <1>2, <2>1 DEF CountsOK, Accounted, postVars
  <2>5. full' > 0 <=> rxf'
    BY <1>2, <2>1 DEF CountsOK, Accounted
  <2> QED BY <2>2, <2>3, <2>4, <2>5 DEF Accounted
<1>4. FlagsOK'
  BY <1>1, <1>2, TypeParts DEF FlagsOK, BootInv, schedVars, lockVars
<1>5. Masked' /\ Created' /\ Current' /\ AssertionsHold' /\ LockHeld'
  BY <1>1 DEF BootInv, Masked, Created, Current, AssertionsHold, LockHeld, schedVars, lockVars
<1> QED BY <1>3, <1>4, <1>5, TypeParts, PTL DEF BootInv

\* Waking a task leaves the most urgent one current.
LEMMA Woken ==
    ASSUME BootInv, main = 19, NEW t, Wake(t)
    PROVE  /\ UNCHANGED <<nested, basepri>>
           /\ ready' \cap blocked' = {} /\ ready' \cup blocked' = Tasks
           /\ blocked' = blocked \ {t}
           /\ pxCurrentTCB' \in ready'
           /\ \A u \in ready' : Priority[u] <= Priority[pxCurrentTCB']
<1>1. /\ ready \cap blocked = {} /\ ready \cup blocked = Tasks /\ pxCurrentTCB \in ready
  BY DEF BootInv, Created, Current
<1>2. /\ ready' = IF t \in blocked THEN ready \cup {t} ELSE ready
      /\ blocked' = blocked \ {t} /\ pxCurrentTCB' = Highest(ready')
      /\ UNCHANGED <<nested, basepri>>
  BY DEF Wake
<1>3. ready' \subseteq Tasks /\ ready' # {} /\ ready' \cap blocked' = {} /\ ready' \cup blocked' = Tasks
  BY <1>1, <1>2
<1> QED BY <1>2, <1>3, HighestIs

\* What a step of the running system has to keep for the tasks' part to hold.
LEMMA TasksKept ==
    ASSUME BootInv, main = 19, main' = 19, UNCHANGED <<objects, lockVars, halted, nested, basepri>>,
           ready' \cap blocked' = {}, ready' \cup blocked' = Tasks,
           blocked' \subseteq {"tcpip", "timer"},
           pxCurrentTCB' \in ready',
           \A u \in ready' : Priority[u] <= Priority[pxCurrentTCB']
    PROVE  Masked' /\ Created' /\ Current' /\ AssertionsHold' /\ LockHeld'
<1>1. Masked' /\ AssertionsHold' /\ LockHeld'
  BY DEF BootInv, Masked, AssertionsHold, LockHeld, lockVars
<1>2. Created'
  BY DEF BootInv, Created
<1>3. Current'
  BY DEF Current
<1> QED BY <1>1, <1>2, <1>3

\* An interrupt is taken only once the scheduler runs: until then main has them
\* masked, and before its first operation nothing can have raised one.
LEMMA TakenWhenRunning ==
    ASSUME BootInv, Taken(rxf) \/ Taken(txf)
    PROVE  main = 19 /\ halted = "no" /\ {"tcpip_mbox", "xTimerQueue"} \subseteq objects
<1>1. ~basepri /\ halted = "no" /\ (rxf \/ txf)
  BY DEF Taken
<1>2. main \in 1 .. 19
  BY AtPlaces
<1>3. main # 1
  <2>1. main = 1 => arrived = 0 /\ ~txf
    BY DEF BootInv, Accounted
  <2>2. arrived = 0 => ~rxf
    BY TypeParts DEF BootInv, Accounted, CountsOK
  <2> QED BY <1>1, <2>1, <2>2
<1>4. main = 19
  BY <1>1, <1>2, <1>3 DEF BootInv, Masked
<1> QED BY <1>1, <1>4 DEF BootInv, Created

LEMMA ReceiveStep == BootInv /\ ReceiveIRQ => BootInv'
<1> SUFFICES ASSUME BootInv, ReceiveIRQ PROVE BootInv'
  OBVIOUS
<1>1. main = 19 /\ "tcpip_mbox" \in objects
  BY TakenWhenRunning DEF ReceiveIRQ
<1>2. /\ rxf' = FALSE /\ full' = 0 /\ mbox' = mbox + full /\ Wake("tcpip")
      /\ UNCHANGED <<main, objects, lockVars, active, queued, txf, arrived, timerQueue, handled, halted>>
  BY <1>1 DEF ReceiveIRQ, PostFromISR
<1>3. /\ UNCHANGED <<nested, basepri>>
      /\ ready' \cap blocked' = {} /\ ready' \cup blocked' = Tasks
      /\ blocked' = blocked \ {"tcpip"}
      /\ pxCurrentTCB' \in ready'
      /\ \A u \in ready' : Priority[u] <= Priority[pxCurrentTCB']
  BY <1>1, <1>2, Woken
<1>4. blocked' \subseteq {"tcpip", "timer"}
  BY <1>3 DEF BootInv, Created
<1>5. Masked' /\ Created' /\ Current' /\ AssertionsHold' /\ LockHeld'
  BY <1>1, <1>2, <1>3, <1>4, TasksKept
<1>6. CountsOK'
  BY <1>2, TypeParts DEF CountsOK, Accounted, BootInv, lockVars
<1>7. Accounted'
  <2>1. CountsOK /\ Accounted
    BY TypeParts DEF BootInv
  <2>2. arrived' = full' + mbox' + handled' /\ queued' <= handled' + 1 /\ ~ (full' > 0)
    BY <1>2, <2>1 DEF CountsOK, Accounted
  <2> QED BY <1>1, <1>2, <1>3, <2>1, <2>2 DEF Accounted
<1>8. FlagsOK'
  BY <1>2, <1>3, TypeParts DEF FlagsOK, BootInv, lockVars
<1> QED BY <1>5, <1>6, <1>7, <1>8, TypeParts, PTL DEF BootInv

LEMMA TransmitStep == BootInv /\ TransmitIRQ => BootInv'
<1> SUFFICES ASSUME BootInv, TransmitIRQ PROVE BootInv'
  OBVIOUS
<1>1. main = 19 /\ "xTimerQueue" \in objects
  BY TakenWhenRunning DEF TransmitIRQ
<1>2. /\ txf' = FALSE /\ timerQueue' = timerQueue + 1 /\ Wake("timer")
      /\ UNCHANGED <<main, objects, lockVars, active, full, queued, rxf, arrived, mbox, handled, halted>>
  BY <1>1 DEF TransmitIRQ, PostFromISR
<1>3. /\ UNCHANGED <<nested, basepri>>
      /\ ready' \cap blocked' = {} /\ ready' \cup blocked' = Tasks
      /\ blocked' = blocked \ {"timer"}
      /\ pxCurrentTCB' \in ready'
      /\ \A u \in ready' : Priority[u] <= Priority[pxCurrentTCB']
  BY <1>1, <1>2, Woken
<1>4. blocked' \subseteq {"tcpip", "timer"}
  BY <1>3 DEF BootInv, Created
<1>5. Masked' /\ Created' /\ Current' /\ AssertionsHold' /\ LockHeld'
  BY <1>1, <1>2, <1>3, <1>4, TasksKept
<1>6. CountsOK' /\ Accounted'
  BY <1>1, <1>2, <1>3, TypeParts DEF CountsOK, Accounted, BootInv, lockVars
<1>7. FlagsOK'
  BY <1>2, <1>3, TypeParts DEF FlagsOK, BootInv, lockVars
<1> QED BY <1>5, <1>6, <1>7, TypeParts, PTL DEF BootInv

\* Only the timer task and tcpip_thread ever wait; the idle task stays ready.
LEMMA Waiting ==
    ASSUME BootInv, main = 19, pxCurrentTCB \in {"tcpip", "timer"}, Wait
    PROVE  /\ UNCHANGED <<nested, basepri>>
           /\ ready' \cap blocked' = {} /\ ready' \cup blocked' = Tasks
           /\ blocked' = blocked \cup {pxCurrentTCB}
           /\ blocked' \subseteq {"tcpip", "timer"}
           /\ pxCurrentTCB' \in ready'
           /\ \A u \in ready' : Priority[u] <= Priority[pxCurrentTCB']
<1>1. /\ ready \cap blocked = {} /\ ready \cup blocked = Tasks /\ pxCurrentTCB \in ready
      /\ blocked \subseteq {"tcpip", "timer"}
  BY DEF BootInv, Created, Current
<1>2. /\ ready' = ready \ {pxCurrentTCB} /\ blocked' = blocked \cup {pxCurrentTCB}
      /\ pxCurrentTCB' = Highest(ready') /\ UNCHANGED <<nested, basepri>>
  BY DEF Wait
<1>3. ready' \subseteq Tasks /\ ready' \cap blocked' = {} /\ ready' \cup blocked' = Tasks
  BY <1>1, <1>2
<1>4. "idle" \in ready'
  BY <1>1, <1>2 DEF Tasks
<1> QED BY <1>1, <1>2, <1>3, <1>4, HighestIs

LEMMA TimerStep == BootInv /\ TimerTask => BootInv'
<1> SUFFICES ASSUME BootInv, TimerTask PROVE BootInv'
  OBVIOUS
<1>1. main = 19 /\ pxCurrentTCB = "timer"
  BY AtPlaces DEF TimerTask, Runs
<1>2. /\ IF timerQueue > 0
         THEN timerQueue' = timerQueue - 1 /\ UNCHANGED schedVars
         ELSE Wait /\ UNCHANGED timerQueue
      /\ UNCHANGED <<main, objects, lockVars, enetVars, mbox, handled, halted>>
  BY DEF TimerTask
<1>3. /\ UNCHANGED <<nested, basepri>>
      /\ ready' \cap blocked' = {} /\ ready' \cup blocked' = Tasks
      /\ blocked' \in {blocked, blocked \cup {"timer"}}
      /\ blocked' \subseteq {"tcpip", "timer"}
      /\ pxCurrentTCB' \in ready'
      /\ \A u \in ready' : Priority[u] <= Priority[pxCurrentTCB']
  <2>1. CASE timerQueue > 0
    <3>1. UNCHANGED <<nested, basepri, pxCurrentTCB, ready, blocked>>
      BY <1>2, <2>1 DEF schedVars
    <3>2. /\ ready \cap blocked = {} /\ ready \cup blocked = Tasks
          /\ blocked \subseteq {"tcpip", "timer"} /\ pxCurrentTCB \in ready
          /\ \A u \in ready : Priority[u] <= Priority[pxCurrentTCB]
      BY <1>1 DEF BootInv, Created, Current
    <3> QED BY <3>1, <3>2
  <2>2. CASE ~ (timerQueue > 0)
    BY <1>1, <1>2, <2>2, Waiting
  <2> QED BY <2>1, <2>2
<1>4. Masked' /\ Created' /\ Current' /\ AssertionsHold' /\ LockHeld'
  BY <1>1, <1>2, <1>3, TasksKept
<1>5. CountsOK' /\ Accounted'
  BY <1>1, <1>2, <1>3, TypeParts DEF CountsOK, Accounted, BootInv, lockVars, enetVars
<1>6. FlagsOK'
  BY <1>2, <1>3, TypeParts DEF FlagsOK, BootInv, lockVars, enetVars
<1> QED BY <1>4, <1>5, <1>6, TypeParts, PTL DEF BootInv

LEMMA TcpipStep == BootInv /\ TcpipThread => BootInv'
<1> SUFFICES ASSUME BootInv, TcpipThread PROVE BootInv'
  OBVIOUS
<1>1. main = 19 /\ pxCurrentTCB = "tcpip"
  BY AtPlaces DEF TcpipThread, Runs
<1>2. /\ IF mbox > 0
         THEN /\ mbox' = mbox - 1 /\ handled' = handled + 1
              /\ queued' \in {queued, queued + 1}
              /\ UNCHANGED schedVars
         ELSE Wait /\ UNCHANGED <<mbox, handled, queued>>
      /\ UNCHANGED <<main, objects, lockVars, active, full, rxf, txf, arrived, timerQueue, halted>>
  BY DEF TcpipThread
<1>3. /\ UNCHANGED <<nested, basepri>>
      /\ ready' \cap blocked' = {} /\ ready' \cup blocked' = Tasks
      /\ blocked' \subseteq {"tcpip", "timer"}
      /\ pxCurrentTCB' \in ready'
      /\ \A u \in ready' : Priority[u] <= Priority[pxCurrentTCB']
  <2>1. CASE mbox > 0
    <3>1. UNCHANGED <<nested, basepri, pxCurrentTCB, ready, blocked>>
      BY <1>2, <2>1 DEF schedVars
    <3>2. /\ ready \cap blocked = {} /\ ready \cup blocked = Tasks
          /\ blocked \subseteq {"tcpip", "timer"} /\ pxCurrentTCB \in ready
          /\ \A u \in ready : Priority[u] <= Priority[pxCurrentTCB]
      BY <1>1 DEF BootInv, Created, Current
    <3> QED BY <3>1, <3>2
  <2>2. CASE ~ (mbox > 0)
    BY <1>1, <1>2, <2>2, Waiting
  <2> QED BY <2>1, <2>2
<1>4. Masked' /\ Created' /\ Current' /\ AssertionsHold' /\ LockHeld'
  BY <1>1, <1>2, <1>3, TasksKept
<1>5. "tcpip" \notin blocked
  BY <1>1 DEF BootInv, Created, Current
<1>6. CountsOK' /\ Accounted'
  <2>1. CountsOK /\ Accounted
    BY TypeParts DEF BootInv
  <2>2. CASE mbox > 0
    <3>1. handled < MaxFrame /\ queued <= handled + 1
      BY <2>1, <2>2 DEF CountsOK, Accounted
    <3>2. CountsOK'
      BY <1>2, <2>1, <2>2, <3>1 DEF CountsOK, lockVars
    <3>3. arrived' = full' + mbox' + handled' /\ queued' <= handled' + 1
      BY <1>2, <2>1, <2>2 DEF CountsOK, Accounted
    <3>4. "tcpip" \notin blocked'
      BY <1>2, <1>5, <2>2 DEF schedVars
    <3> QED BY <1>1, <1>2, <2>1, <3>2, <3>3, <3>4 DEF Accounted
  <2>3. CASE ~ (mbox > 0)
    BY <1>1, <1>2, <2>1, <2>3 DEF CountsOK, Accounted, lockVars
  <2> QED BY <2>2, <2>3
<1>7. FlagsOK'
  BY <1>2, <1>3, TypeParts DEF FlagsOK, BootInv, lockVars
<1> QED BY <1>4, <1>6, <1>7, TypeParts, PTL DEF BootInv

LEMMA AesCrcStep == BootInv /\ AesCrcTestTask => BootInv' /\ handled = arrived
<1> SUFFICES ASSUME BootInv, AesCrcTestTask PROVE BootInv' /\ handled = arrived
  OBVIOUS
<1>1. /\ main = 19 /\ pxCurrentTCB = "aescrc" /\ halted = "no" /\ ~Taken(rxf)
      /\ halted' = "exit" /\ basepri' = TRUE
      /\ UNCHANGED <<main, objects, nested, pxCurrentTCB, ready, blocked, lockVars, enetVars, postVars>>
  BY AtPlaces DEF AesCrcTestTask, Runs, Halt
<1>2. handled = arrived
  <2>1. ~rxf
    BY <1>1 DEF Taken, BootInv, Masked
  <2>2. "tcpip" \notin ready
    BY <1>1, Priorities DEF BootInv, Current
  <2>3. "tcpip" \in blocked
    BY <1>1, <2>2 DEF BootInv, Created, Tasks
  <2> QED BY <2>1, <2>3, TypeParts DEF BootInv, Accounted, CountsOK
<1>3. CountsOK' /\ Accounted'
  BY <1>1, TypeParts DEF CountsOK, Accounted, BootInv, lockVars, enetVars, postVars
<1>4. FlagsOK'
  BY <1>1, TypeParts DEF FlagsOK, BootInv, lockVars, enetVars
<1>5. Masked' /\ Created' /\ Current' /\ AssertionsHold' /\ LockHeld'
  BY <1>1 DEF BootInv, Masked, Created, Current, AssertionsHold, LockHeld, lockVars
<1> QED BY <1>2, <1>3, <1>4, <1>5, TypeParts, PTL DEF BootInv

LEMMA BootInvStep == BootInv /\ [Next]_vars => BootInv'
<1>1. BootInv /\ UNCHANGED vars => BootInv'
  <2> SUFFICES ASSUME BootInv, UNCHANGED vars PROVE BootInv'
    OBVIOUS
  <2> USE DEF vars, schedVars, lockVars, enetVars, postVars
  <2>1. CountsOK' /\ FlagsOK'
    BY TypeParts DEF CountsOK, FlagsOK, BootInv
  <2>2. Masked' /\ Created' /\ Current' /\ LockHeld' /\ Accounted' /\ AssertionsHold'
    BY DEF Masked, Created, Current, LockHeld, Accounted, AssertionsHold, BootInv
  <2> QED BY <2>1, <2>2, TypeParts, PTL DEF BootInv
<1> QED BY <1>1, CreateObjectStep, CreateTaskStep, LockStep, UnlockStep, NetifSteps, StartStep,
           ControllerSteps, ReceiveStep, TransmitStep, TimerStep, TcpipStep, AesCrcStep
        DEF Next, MainNext

-----------------------------------------------------------------------------
(* The theorems.                                                            *)

\* Every variable keeps its type: no ring and no queue gets more than it takes,
\* and main stays within its program.
THEOREM TypeCorrect == Spec => []TypeOK
<1>1. BootInv => TypeOK
  BY DEF BootInv
<1> QED BY <1>1, BootInvInit, BootInvStep, PTL DEF Spec

\* The kernel's assertions hold while the firmware comes up: an interrupt finds
\* the queue that it posts to, and the core lock is given back by the task in
\* whose name main took it.
THEOREM ComesUp == Spec => []AssertionsHold
<1>1. BootInv => AssertionsHold
  BY DEF BootInv
<1> QED BY <1>1, BootInvInit, BootInvStep, PTL DEF Spec

\* When aescrc_test_task ends the firmware, every frame that arrived has been
\* handled, those that arrived while main had the interrupts masked included.
THEOREM FramesHandled == Spec => NothingOverlooked
<1>1. BootInv /\ [Next]_vars => [halted = "no" /\ halted' = "exit" => handled = arrived]_vars
  <2> SUFFICES ASSUME BootInv, Next, halted = "no", halted' = "exit" PROVE handled = arrived
    OBVIOUS
  <2>1. AesCrcTestTask
    <3>1. ReceiveIRQ \/ TransmitIRQ => halted' # "exit"
      BY DEF ReceiveIRQ, TransmitIRQ, PostFromISR, Halt
    <3>2. Unlock => halted' # "exit"
      BY DEF Unlock, Halt
    <3>3. /\ ~Arrive /\ ~Transmit /\ ~CreateObject /\ ~CreateTask /\ ~Lock /\ ~NetifAdd
          /\ ~SetDefault /\ ~SetUp /\ ~StartScheduler /\ ~TimerTask /\ ~TcpipThread
      BY DEF Arrive, Transmit, CreateObject, CreateTask, Lock, NetifAdd, SetDefault, SetUp,
             StartScheduler, TimerTask, TcpipThread
    <3> QED BY <3>1, <3>2, <3>3 DEF Next, MainNext
  <2> QED BY <2>1, AesCrcStep
<1> QED BY <1>1, BootInvInit, BootInvStep, PTL DEF Spec, NothingOverlooked
=============================================================================
