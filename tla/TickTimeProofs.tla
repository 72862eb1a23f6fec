---------------------------- MODULE TickTimeProofs ----------------------------
(* Theorems about TickTime, for every width of the tick counter and any      *)
(* number of tasks.                                                          *)
EXTENDS TickTime, TLAPS

\* Sums and differences stay in the counter's range.
LEMMA PlusMinusInTicks ==
    ASSUME NEW a \in Ticks, NEW b \in Ticks
    PROVE  Plus(a, b) \in Ticks /\ Minus(a, b) \in Ticks
BY TickTimeAssumption DEF Ticks, Plus, Minus, portMAX_DELAY

\* A call that goes on waiting has time left.
TimeLeft ==
    \A t \in Tasks : phase[t] \in {"wait", "checked"} => xTicksToWait[t] # 0

\* Tasks are held pending only while the scheduler is suspended.
PendingHeld ==
    /\ holder = Nobody => xPendingReadyList = {}
    /\ unwinding => holder = Nobody

\* The inductive invariant of the sleeping lists.
SleepInv == TypeOK /\ SleepersFiled /\ NoOversleep /\ TimeLeft /\ PendingHeld

LEMMA SleepInit == Init => SleepInv
<1> SUFFICES ASSUME Init PROVE SleepInv
  OBVIOUS
<1>1. 0 \in Ticks /\ portMAX_DELAY \in Ticks
  BY TickTimeAssumption DEF Ticks, portMAX_DELAY
<1>2. TypeOK
  <2>1. now = 0
    BY DEF Init, now
  <2> QED BY <1>1, <2>1, Zenon DEF Init, TypeOK
<1>3. SleepersFiled /\ NoOversleep /\ TimeLeft /\ PendingHeld
  BY DEF Init, SleepersFiled, NoOversleep, TimeLeft, PendingHeld, now
<1> QED BY <1>2, <1>3 DEF SleepInv

\* What the head's time is.
LEMMA HeadTime ==
    ASSUME NEW v \in Ticks, NEW list, IsHeadTime(v, list)
    PROVE  \A t \in list : v <= xItemValue[t]
<1>1. CASE list = {}
  BY <1>1
<1>2. CASE list # {}
  <2>1. \E t \in list : v = xItemValue[t] /\ \A u \in list : v <= xItemValue[u]
    BY <1>2, Zenon DEF IsHeadTime
  <2> QED BY <2>1, Zenon
<1> QED BY <1>1, <1>2

\* A tick keeps both lists right and wakes whoever is due.
LEMMA CountTickStep ==
    ASSUME SleepInv, CountTick, now' = now + 1, UNCHANGED wake
    PROVE  /\ SleepersFiled' /\ NoOversleep'
           /\ delayed' \subseteq delayed \cup overflowDelayed
           /\ overflowDelayed' \subseteq overflowDelayed
           /\ xTickCount' \in Ticks /\ xNextTaskUnblockTime' \in Ticks
           /\ xNumOfOverflows' \in Nat
<1> USE TickTimeAssumption DEF portMAX_DELAY, Ticks
<1>0. TypeOK /\ SleepersFiled /\ NoOversleep
  BY DEF SleepInv
<1>1. PICK list \in {IF xTickCount' = 0 THEN overflowDelayed ELSE delayed},
           next \in Ticks :
         /\ IF xTickCount' = 0 THEN IsHeadTime(next, list)
                               ELSE next = xNextTaskUnblockTime
         /\ IF xTickCount' >= next
            THEN /\ delayed' = {t \in list : xItemValue[t] > xTickCount'}
                 /\ xNextTaskUnblockTime' \in 0 .. portMAX_DELAY
                 /\ IsHeadTime(xNextTaskUnblockTime', delayed')
            ELSE /\ delayed' = list
                 /\ xNextTaskUnblockTime' = next
  BY DEF CountTick, StaysAsleep
<1>2. /\ now' = now + 1 /\ xItemValue' = xItemValue
      /\ xTickCount' = Plus(xTickCount, 1)
  BY DEF CountTick, StaysAsleep
<1>3. /\ xTickCount \in Ticks /\ now \in Nat
      /\ \A t \in delayed \cup overflowDelayed :
            t \in Tasks /\ xItemValue[t] \in Ticks /\ wake[t] \in Nat
  BY <1>0 DEF TypeOK
<1>4. CASE xTickCount = portMAX_DELAY
  <2>1. xTickCount' = 0 /\ Base' = Base + Wrap
    BY <1>2, <1>3, <1>4 DEF Plus, Base
  <2>2. delayed = {}
    <3>1. SUFFICES ASSUME NEW t \in delayed PROVE FALSE
      OBVIOUS
    <3>2. wake[t] = Base + xItemValue[t] /\ wake[t] > now
      BY <1>0 DEF SleepersFiled, NoOversleep
    <3> QED BY <1>3, <1>4, <3>2 DEF Base
  <2>3. list = overflowDelayed /\ overflowDelayed' = {}
    BY <1>1, <2>1, <2>2 DEF CountTick, StaysAsleep
  <2>4. \A t \in list : next <= xItemValue[t]
    BY <1>1, <2>1, HeadTime
  <2>5. /\ delayed' \subseteq list /\ xNextTaskUnblockTime' \in Ticks
        /\ \A t \in delayed' : /\ xItemValue[t] > 0
                               /\ xNextTaskUnblockTime' <= xItemValue[t]
    <3>1. CASE 0 >= next
      <4>1. /\ delayed' = {t \in list : xItemValue[t] > 0}
            /\ xNextTaskUnblockTime' \in Ticks
            /\ IsHeadTime(xNextTaskUnblockTime', delayed')
        BY <1>1, <2>1, <3>1
      <4> QED BY <4>1, HeadTime
    <3>2. CASE ~(0 >= next)
      <4>1. delayed' = list /\ xNextTaskUnblockTime' = next
        BY <1>1, <2>1, <3>2
      <4> QED BY <1>3, <2>3, <2>4, <3>2, <4>1
    <3> QED BY <3>1, <3>2
  <2>6. \A t \in delayed' : wake[t] = Base + Wrap + xItemValue[t]
    BY <1>0, <2>3, <2>5 DEF SleepersFiled
  <2>7. SleepersFiled'
    BY <1>2, <1>3, <2>1, <2>3, <2>5, <2>6 DEF SleepersFiled, Base
  <2>8. NoOversleep'
    <3>1. now' = Base + Wrap
      BY <1>2, <1>3, <1>4 DEF Base
    <3> QED BY <1>3, <2>3, <2>5, <2>6, <3>1 DEF NoOversleep, Base
  <2> QED
    BY <1>0, <2>1, <2>3, <2>5, <2>7, <2>8 DEF TypeOK, CountTick, StaysAsleep
<1>5. CASE xTickCount # portMAX_DELAY
  <2>1. /\ xTickCount' = xTickCount + 1 /\ xTickCount' \in Ticks
        /\ Base' = Base
    BY <1>2, <1>3, <1>5 DEF Plus, Base
  <2>2. /\ list = delayed /\ overflowDelayed' = overflowDelayed
        /\ next = xNextTaskUnblockTime /\ xNumOfOverflows' = xNumOfOverflows
    BY <1>1, <1>3, <2>1 DEF CountTick, StaysAsleep
  <2>3. /\ delayed' \subseteq delayed /\ xNextTaskUnblockTime' \in Ticks
        /\ \A t \in delayed' : /\ xItemValue[t] > xTickCount'
                               /\ xNextTaskUnblockTime' <= xItemValue[t]
    <3>1. CASE xTickCount' >= next
      <4>1. /\ delayed' = {t \in list : xItemValue[t] > xTickCount'}
            /\ xNextTaskUnblockTime' \in Ticks
            /\ IsHeadTime(xNextTaskUnblockTime', delayed')
        BY <1>1, <3>1
      <4> QED BY <2>2, <4>1, HeadTime
    <3>2. CASE ~(xTickCount' >= next)
      <4>1. delayed' = list /\ xNextTaskUnblockTime' = next
        BY <1>1, <3>2
      <4> QED BY <1>0, <1>3, <2>1, <2>2, <3>2, <4>1 DEF SleepersFiled
    <3> QED BY <3>1, <3>2
  <2>4. SleepersFiled'
    BY <1>0, <1>2, <2>1, <2>2, <2>3 DEF SleepersFiled, Base
  <2>5. NoOversleep'
    <3>1. \A t \in delayed' : wake[t] > now + 1
      BY <1>0, <1>3, <2>1, <2>3 DEF SleepersFiled, Base
    <3>2. \A t \in overflowDelayed : wake[t] > now + 1
      BY <1>0, <1>3, <2>1 DEF SleepersFiled, Base
    <3> QED BY <1>2, <2>2, <3>1, <3>2 DEF NoOversleep
  <2> QED
    BY <1>0, <2>1, <2>2, <2>3, <2>4, <2>5 DEF TypeOK
<1> QED BY <1>4, <1>5

\* Going to sleep files the sleeper on the right list.
LEMMA DelayStep ==
    ASSUME SleepInv, NEW t \in Tasks, NEW ticks \in Ticks \ {0},
           t \notin Asleep, AddCurrentTaskToDelayedList(t, ticks), UNCHANGED now
    PROVE  /\ SleepersFiled' /\ NoOversleep'
           /\ delayed' \subseteq Tasks /\ overflowDelayed' \subseteq Tasks
           /\ Asleep \subseteq Asleep' /\ xNextTaskUnblockTime' \in Ticks
           /\ xItemValue' \in [Tasks -> Ticks] /\ wake' \in [Tasks -> Nat]
<1> USE TickTimeAssumption DEF portMAX_DELAY, Ticks
<1>0. TypeOK /\ SleepersFiled /\ NoOversleep
  BY DEF SleepInv
<1> DEFINE v == Plus(xTickCount, ticks)
<1>1. /\ xItemValue' = [xItemValue EXCEPT ![t] = v]
      /\ wake' = [wake EXCEPT ![t] = now + ticks]
      /\ xTickCount' = xTickCount /\ xSuspendedTaskList' = xSuspendedTaskList
  BY DEF AddCurrentTaskToDelayedList
<1>2. v \in Ticks /\ xTickCount \in Ticks /\ now \in Nat
  BY <1>0, PlusMinusInTicks DEF TypeOK
<1>3. xItemValue' \in [Tasks -> Ticks] /\ wake' \in [Tasks -> Nat]
  BY <1>0, <1>1, <1>2 DEF TypeOK
<1>4. /\ \A u \in Tasks \ {t} : xItemValue'[u] = xItemValue[u] /\ wake'[u] = wake[u]
      /\ xItemValue'[t] = v /\ wake'[t] = now + ticks /\ Base' = Base
  BY <1>0, <1>1 DEF TypeOK, Base
<1>5. t \notin delayed /\ t \notin overflowDelayed
  BY DEF Asleep
<1>6. CASE v < xTickCount
  <2>1. /\ overflowDelayed' = overflowDelayed \cup {t} /\ delayed' = delayed
        /\ xNextTaskUnblockTime' = xNextTaskUnblockTime
    BY <1>6 DEF AddCurrentTaskToDelayedList
  <2>2. v = xTickCount + ticks - Wrap
    BY <1>2, <1>6 DEF Plus
  <2>3. SleepersFiled'
    <3>1. \A u \in delayed' : u \in Tasks \ {t}
      BY <1>0, <1>5, <2>1 DEF TypeOK
    <3>2. \A u \in overflowDelayed' \ {t} : u \in Tasks \ {t} /\ u \in overflowDelayed
      BY <1>0, <1>5, <2>1 DEF TypeOK
    <3>3. wake'[t] = Base' + Wrap + xItemValue'[t]
      BY <1>2, <1>4, <2>2 DEF Base
    <3> QED BY <1>0, <1>4, <1>5, <2>1, <3>1, <3>2, <3>3 DEF SleepersFiled
  <2>4. NoOversleep'
    BY <1>0, <1>2, <1>4, <2>1 DEF NoOversleep, TypeOK
  <2> QED
    BY <1>0, <1>1, <1>3, <2>1, <2>3, <2>4 DEF TypeOK, Asleep
<1>7. CASE ~(v < xTickCount)
  <2>1. /\ delayed' = delayed \cup {t} /\ overflowDelayed' = overflowDelayed
        /\ xNextTaskUnblockTime' = IF v < xNextTaskUnblockTime
                                   THEN v ELSE xNextTaskUnblockTime
    BY <1>7 DEF AddCurrentTaskToDelayedList
  <2>2. v = xTickCount + ticks
    BY <1>2, <1>7 DEF Plus
  <2>3. /\ xNextTaskUnblockTime \in Ticks /\ xNextTaskUnblockTime' \in Ticks
        /\ xNextTaskUnblockTime' <= v
        /\ xNextTaskUnblockTime' <= xNextTaskUnblockTime
    BY <1>0, <1>2, <2>1 DEF TypeOK
  <2>4. SleepersFiled'
    <3>1. \A u \in overflowDelayed' : u \in Tasks \ {t}
      BY <1>0, <1>5, <2>1 DEF TypeOK
    <3>2. \A u \in delayed' \ {t} : u \in Tasks \ {t} /\ u \in delayed
      BY <1>0, <1>5, <2>1 DEF TypeOK
    <3>3. wake'[t] = Base' + xItemValue'[t]
      BY <1>2, <1>4, <2>2 DEF Base
    <3>4. \A u \in delayed' \ {t} : xNextTaskUnblockTime' <= xItemValue'[u]
      BY <1>0, <1>4, <2>3, <3>2 DEF SleepersFiled, TypeOK
    <3> QED
      BY <1>0, <1>4, <1>5, <2>1, <2>3, <3>1, <3>2, <3>3, <3>4 DEF SleepersFiled
  <2>5. NoOversleep'
    BY <1>0, <1>2, <1>4, <2>1 DEF NoOversleep, TypeOK
  <2> QED
    BY <1>0, <1>1, <1>3, <2>1, <2>3, <2>4, <2>5 DEF TypeOK, Asleep
<1> QED BY <1>6, <1>7

-----------------------------------------------------------------------------

\* Every other step leaves the filed sleepers where they are, or removes some.
LEMMA FewerSleepers ==
    ASSUME SleepInv, delayed' \subseteq delayed,
           overflowDelayed' \subseteq overflowDelayed,
           UNCHANGED <<xTickCount, xItemValue, wake, now>>,
           \A t \in delayed' : xNextTaskUnblockTime' <= xItemValue[t]
    PROVE  SleepersFiled' /\ NoOversleep'
<1>1. SleepersFiled /\ NoOversleep /\ Base' = Base
  BY DEF SleepInv, Base
<1> QED BY <1>1 DEF SleepersFiled, NoOversleep

\* The steps, by what they do to the sleepers.
LEMMA StepKinds ==
    ASSUME SleepInv, [Next]_vars
    PROVE  \/ UNCHANGED <<timeVars, sleepVars, wake, now>>
           \/ /\ CountTick /\ now' = now + 1
              /\ xPendingReadyList = {} /\ UNCHANGED wake
           \/ \E t \in Tasks : ResumeAll(t) \/ Event(t)
           \/ \E t \in Tasks, ticks \in Ticks \ {0} :
                 /\ t \notin Asleep
                 /\ AddCurrentTaskToDelayedList(t, ticks)
                 /\ UNCHANGED now
           \/ \E t \in Tasks :
                 /\ xSuspendedTaskList' = xSuspendedTaskList \cup {t}
                 /\ UNCHANGED <<timeVars, delayed, overflowDelayed, xItemValue,
                                xPendingReadyList, wake, now>>
<1>0. TypeOK /\ TimeLeft /\ PendingHeld
  BY DEF SleepInv
<1>1. CASE Tick \/ UnwindTick
  <2>1. clock \in Nat /\ uxPendedTicks \in Nat
    BY <1>0 DEF TypeOK
  <2>2. CASE Tick /\ holder = Nobody
    BY <1>0, <2>1, <2>2 DEF Tick, PendingHeld, now
  <2>3. CASE Tick /\ holder # Nobody
    BY <2>1, <2>3 DEF Tick, now
  <2>4. CASE UnwindTick /\ uxPendedTicks > 0
    <3>1. CountTick /\ UNCHANGED wake /\ now' = now + 1
      BY <2>1, <2>4 DEF UnwindTick, historyVars, now
    <3> QED BY <1>0, <2>4, <3>1 DEF UnwindTick, PendingHeld
  <2>5. CASE UnwindTick /\ ~(uxPendedTicks > 0)
    BY <2>5 DEF UnwindTick, historyVars, now
  <2> QED BY <1>1, <2>2, <2>3, <2>4, <2>5
<1>2. ASSUME NEW t \in Tasks, NEW ticks \in 1 .. portMAX_DELAY, Delay(t, ticks)
      PROVE  \E n \in Ticks \ {0} : AddCurrentTaskToDelayedList(t, n)
             /\ t \notin Asleep /\ UNCHANGED now
  <2>1. UNCHANGED now
    BY <1>2 DEF Delay, suspendVars, now
  <2> QED BY <1>2, <2>1, TickTimeAssumption DEF Delay, Acting, Ticks, portMAX_DELAY
<1>3. ASSUME NEW t \in Tasks, NEW increment \in 1 .. portMAX_DELAY,
             DelayUntil(t, increment)
      PROVE  \/ UNCHANGED <<timeVars, sleepVars, wake, now>>
             \/ \E n \in Ticks \ {0} : AddCurrentTaskToDelayedList(t, n)
                /\ t \notin Asleep /\ UNCHANGED now
  <2> DEFINE toWake == Plus(pxPreviousWakeTime[t], increment)
  <2>0. UNCHANGED now
    BY <1>3 DEF DelayUntil, suspendVars, now
  <2>1. CASE ShouldDelay(pxPreviousWakeTime[t], toWake)
    <3>1. toWake \in Ticks /\ xTickCount \in Ticks
      BY <1>0, PlusMinusInTicks, TickTimeAssumption
         DEF TypeOK, Ticks, portMAX_DELAY
    <3>2. toWake # xTickCount
      BY <3>1, <2>1, <1>0, TickTimeAssumption
         DEF ShouldDelay, TypeOK, Ticks, Plus, portMAX_DELAY
    <3>3. Minus(toWake, xTickCount) \in Ticks \ {0}
      <4> HIDE DEF toWake
      <4>1. Minus(toWake, xTickCount) \in Ticks
        BY <3>1, PlusMinusInTicks
      <4>2. Minus(toWake, xTickCount) # 0
        BY <3>1, <3>2, TickTimeAssumption DEF Minus, Ticks, portMAX_DELAY
      <4> QED BY <4>1, <4>2
    <3>4. t \notin Asleep /\ UNCHANGED now
          /\ AddCurrentTaskToDelayedList(t, Minus(toWake, xTickCount))
      BY <1>3, <2>0, <2>1 DEF DelayUntil, Acting
    <3> QED BY <3>3, <3>4
  <2>2. CASE ~ShouldDelay(pxPreviousWakeTime[t], toWake)
    BY <1>3, <2>0, <2>2 DEF DelayUntil
  <2> QED BY <2>1, <2>2
<1>4. ASSUME NEW t \in Tasks, Block(t), xTicksToWait[t] # portMAX_DELAY
      PROVE  \E n \in Ticks \ {0} : AddCurrentTaskToDelayedList(t, n)
             /\ t \notin Asleep /\ UNCHANGED now
  <2>1. UNCHANGED now
    BY <1>4 DEF Block, suspendVars, now
  <2> QED BY <1>0, <1>4, <2>1 DEF Block, Acting, TimeLeft, TypeOK
<1>5. ASSUME NEW t \in Tasks, Block(t), xTicksToWait[t] = portMAX_DELAY
      PROVE  /\ xSuspendedTaskList' = xSuspendedTaskList \cup {t}
             /\ UNCHANGED <<timeVars, delayed, overflowDelayed, xItemValue,
                            xPendingReadyList, wake, now>>
  <2>1. UNCHANGED now
    BY <1>5 DEF Block, suspendVars, now
  <2> QED BY <1>5, <2>1 DEF Block
<1>6. ASSUME NEW t \in Tasks,
             \/ SuspendAll(t) \/ StartPeriod(t) \/ CheckForTimeOut(t)
             \/ Served(t)
             \/ \E ticks \in 1 .. portMAX_DELAY : SetTimeOutState(t, ticks)
      PROVE  UNCHANGED <<timeVars, sleepVars, wake, now>>
  BY <1>6 DEF SuspendAll, StartPeriod, CheckForTimeOut, Served,
     SetTimeOutState, suspendVars, historyVars, now
<1>7. CASE UNCHANGED vars
  BY <1>7 DEF vars, suspendVars, historyVars, now
<1>8. CASE Next
  <2>1. ASSUME NEW t \in Tasks, NEW ticks \in 1 .. portMAX_DELAY,
               Delay(t, ticks) \/ DelayUntil(t, ticks)
        PROVE  \/ UNCHANGED <<timeVars, sleepVars, wake, now>>
               \/ \E u \in Tasks, n \in Ticks \ {0} :
                     /\ u \notin Asleep
                     /\ AddCurrentTaskToDelayedList(u, n)
                     /\ UNCHANGED now
    BY <1>2, <1>3, <2>1
  <2>2. ASSUME NEW t \in Tasks, Block(t)
        PROVE  \/ \E u \in Tasks, n \in Ticks \ {0} :
                     /\ u \notin Asleep
                     /\ AddCurrentTaskToDelayedList(u, n)
                     /\ UNCHANGED now
               \/ \E u \in Tasks :
                     /\ xSuspendedTaskList' = xSuspendedTaskList \cup {u}
                     /\ UNCHANGED <<timeVars, delayed, overflowDelayed,
                                    xItemValue, xPendingReadyList, wake, now>>
    <3>1. CASE xTicksToWait[t] = portMAX_DELAY
      BY <1>5, <2>2, <3>1
    <3>2. CASE xTicksToWait[t] # portMAX_DELAY
      <4>1. \E n \in Ticks \ {0} : AddCurrentTaskToDelayedList(t, n)
                                    /\ t \notin Asleep /\ UNCHANGED now
        BY <1>4, <2>2, <3>2
      <4> QED BY <4>1
    <3> QED BY <3>1, <3>2
  <2>3. CASE \E t \in Tasks : ResumeAll(t) \/ Event(t)
    BY <2>3
  <2> QED BY <1>1, <1>6, <1>8, <2>1, <2>2, <2>3 DEF Next
<1> QED BY <1>7, <1>8

\* The clock goes on by one tick at a time.
LEMMA TickNow ==
    ASSUME SleepInv, [Next]_vars
    PROVE  now' \in {now, now + 1}
<1>1. ASSUME NEW t \in Tasks, ResumeAll(t) \/ Event(t) PROVE now' = now
  BY <1>1 DEF ResumeAll, Event, suspendVars, historyVars, now
<1> QED BY <1>1, StepKinds

LEMMA SleepStep == SleepInv /\ [Next]_vars => SleepInv'
<1> SUFFICES ASSUME SleepInv, [Next]_vars PROVE SleepInv'
  OBVIOUS
<1> USE DEF SleepInv
<1>0. TypeOK /\ SleepersFiled /\ NoOversleep /\ TimeLeft /\ PendingHeld
  OBVIOUS
<1>1. SleepersFiled' /\ NoOversleep'
  <2>1. CASE \/ UNCHANGED <<timeVars, sleepVars, wake, now>>
             \/ UNCHANGED <<timeVars, delayed, overflowDelayed, xItemValue,
                            wake, now>>
    BY <1>0, <2>1, FewerSleepers DEF timeVars, sleepVars, SleepersFiled
  <2>2. CASE CountTick /\ now' = now + 1 /\ UNCHANGED wake
    BY <2>2, CountTickStep
  <2>3. ASSUME NEW t \in Tasks, ResumeAll(t) PROVE SleepersFiled' /\ NoOversleep'
    <3>1. /\ delayed' \subseteq delayed /\ overflowDelayed' \subseteq overflowDelayed
          /\ UNCHANGED <<xTickCount, xItemValue, wake, now>>
      BY <2>3 DEF ResumeAll, historyVars, now
    <3>2. \A u \in delayed' : xNextTaskUnblockTime' <= xItemValue[u]
      <4>1. CASE UNCHANGED xNextTaskUnblockTime
        BY <1>0, <3>1, <4>1 DEF SleepersFiled
      <4>2. CASE xNextTaskUnblockTime' \in Ticks
                 /\ IsHeadTime(xNextTaskUnblockTime', delayed')
        BY <3>1, <4>2, HeadTime
      <4> QED BY <2>3, <4>1, <4>2 DEF ResumeAll, Ticks
    <3> QED BY <3>1, <3>2, FewerSleepers
  <2>4. ASSUME NEW t \in Tasks, Event(t) PROVE SleepersFiled' /\ NoOversleep'
    <3>1. /\ delayed' \subseteq delayed /\ overflowDelayed' \subseteq overflowDelayed
          /\ UNCHANGED <<timeVars, xItemValue, wake, now>>
      BY <2>4 DEF Event, suspendVars, historyVars, now
    <3> QED BY <1>0, <3>1, FewerSleepers DEF timeVars, SleepersFiled
  <2> QED BY <2>1, <2>2, <2>3, <2>4, StepKinds, DelayStep
<1>2. TimeLeft'
  <2> USE TickTimeAssumption DEF TimeLeft, Ticks, portMAX_DELAY
  <2>1. CASE UNCHANGED <<phase, xTicksToWait>>
    BY <1>0, <2>1
  <2>2. ASSUME NEW t \in Tasks, ResumeAll(t) PROVE TimeLeft'
    BY <1>0, <2>2 DEF ResumeAll, TypeOK
  <2>3. ASSUME NEW t \in Tasks, NEW ticks \in 1 .. portMAX_DELAY,
               \/ Delay(t, ticks) \/ DelayUntil(t, ticks)
               \/ SetTimeOutState(t, ticks)
        PROVE  TimeLeft'
    BY <1>0, <2>3 DEF Delay, DelayUntil, SetTimeOutState, TypeOK
  <2>4. ASSUME NEW t \in Tasks, CheckForTimeOut(t) PROVE TimeLeft'
    <3>1. CASE TimedOut(t) \/ xTicksToWait[t] = portMAX_DELAY
      BY <1>0, <2>4, <3>1 DEF CheckForTimeOut, EndWait, TypeOK
    <3>2. CASE ~TimedOut(t) /\ xTicksToWait[t] # portMAX_DELAY
      <4>1. xTicksToWait' = [xTicksToWait EXCEPT ![t] = @ - Elapsed(t)]
        BY <2>4, <3>2 DEF CheckForTimeOut
      <4>2. phase' = [phase EXCEPT ![t] = "checked"]
        BY <2>4, <3>2 DEF CheckForTimeOut
      <4>3. Elapsed(t) \in Ticks /\ ~(Elapsed(t) >= xTicksToWait[t])
        BY <1>0, <3>2, PlusMinusInTicks DEF TimedOut, Elapsed, TypeOK
      <4> QED BY <1>0, <4>1, <4>2, <4>3 DEF TypeOK
    <3> QED BY <3>1, <3>2
  <2>5. ASSUME NEW t \in Tasks, Served(t) PROVE TimeLeft'
    BY <1>0, <2>5 DEF Served, EndWait, TypeOK
  <2>6. ASSUME NEW t \in Tasks,
               SuspendAll(t) \/ Event(t) \/ StartPeriod(t) \/ Block(t)
        PROVE  TimeLeft'
    BY <2>1, <2>6 DEF SuspendAll, Event, StartPeriod, Block, callVars
  <2> QED
    BY <2>1, <2>2, <2>3, <2>4, <2>5, <2>6
       DEF Next, Tick, UnwindTick, callVars, vars
<1>3. TypeOK'
  <2> DEFINE SleepOK ==
        /\ xTickCount \in Ticks /\ xNumOfOverflows \in Nat
        /\ xNextTaskUnblockTime \in Ticks
        /\ delayed \subseteq Tasks /\ overflowDelayed \subseteq Tasks
        /\ xSuspendedTaskList \subseteq Tasks
        /\ xItemValue \in [Tasks -> Ticks]
        /\ xPendingReadyList \subseteq Asleep
        /\ now \in Nat /\ wake \in [Tasks -> Nat]
  <2> DEFINE CallOK ==
        /\ holder \in Tasks \cup {Nobody}
        /\ uxPendedTicks \in Nat /\ unwinding \in BOOLEAN
        /\ phase \in [Tasks -> {"none", "wait", "checked", "acted"}]
        /\ xTimeOnEntering \in [Tasks -> Ticks]
        /\ xOverflowCount \in [Tasks -> Nat]
        /\ xTicksToWait \in [Tasks -> Ticks]
        /\ pxPreviousWakeTime \in [Tasks -> Ticks]
        /\ clock \in Nat /\ entered \in [Tasks -> Nat]
        /\ total \in [Tasks -> Ticks] /\ last \in [Tasks -> Nat]
  <2>0. SleepOK /\ CallOK
    BY <1>0 DEF TypeOK
  <2>1. CallOK'
    <3> USE <2>0, TickTimeAssumption DEF Ticks, portMAX_DELAY
    <3>1. CASE UNCHANGED <<suspendVars, callVars, clock, entered, total, last>>
      BY <3>1 DEF suspendVars, callVars
    <3>2. CASE Tick
      BY <3>2 DEF Tick, callVars
    <3>3. CASE UnwindTick
      <4>1. uxPendedTicks' \in Nat
        <5>1. \/ uxPendedTicks > 0 /\ uxPendedTicks' = uxPendedTicks - 1
              \/ uxPendedTicks' = uxPendedTicks
          BY <3>3, Zenon DEF UnwindTick
        <5> QED BY <5>1
      <4>2. unwinding' \in BOOLEAN
        BY <3>3, Zenon DEF UnwindTick
      <4> QED BY <3>3, <4>1, <4>2 DEF UnwindTick, callVars, historyVars
    <3>4. ASSUME NEW t \in Tasks,
                 SuspendAll(t) \/ ResumeAll(t) \/ Event(t) \/ Block(t)
          PROVE  CallOK'
      BY <3>1, <3>4 DEF SuspendAll, ResumeAll, Event, Block, callVars, historyVars
    <3>5. ASSUME NEW t \in Tasks, NEW ticks \in 1 .. portMAX_DELAY,
                 Delay(t, ticks) \/ SetTimeOutState(t, ticks)
          PROVE  CallOK'
      BY <3>5 DEF Delay, SetTimeOutState, suspendVars
    <3>6. ASSUME NEW t \in Tasks, NEW increment \in 1 .. portMAX_DELAY,
                 DelayUntil(t, increment)
          PROVE  CallOK'
      <4>1. Plus(pxPreviousWakeTime[t], increment) \in Ticks
        BY PlusMinusInTicks
      <4> QED BY <3>6, <4>1 DEF DelayUntil, suspendVars
    <3>7. ASSUME NEW t \in Tasks, StartPeriod(t) \/ Served(t) PROVE CallOK'
      BY <3>7 DEF StartPeriod, Served, EndWait, suspendVars
    <3>8. ASSUME NEW t \in Tasks, CheckForTimeOut(t) PROVE CallOK'
      <4>1. CASE TimedOut(t) \/ xTicksToWait[t] = portMAX_DELAY
        BY <3>8, <4>1 DEF CheckForTimeOut, EndWait, suspendVars
      <4>2. CASE ~TimedOut(t) /\ xTicksToWait[t] # portMAX_DELAY
        <5>1. Elapsed(t) \in Ticks /\ ~(Elapsed(t) >= xTicksToWait[t])
          BY <4>2, PlusMinusInTicks DEF TimedOut, Elapsed
        <5>2. xTicksToWait[t] - Elapsed(t) \in Ticks
          BY <5>1
        <5> QED BY <3>8, <4>2, <5>2 DEF CheckForTimeOut, suspendVars
      <4> QED BY <4>1, <4>2
    <3> QED
      BY <3>1, <3>2, <3>3, <3>4, <3>5, <3>6, <3>7, <3>8
         DEF Next, vars, historyVars
  <2>2. SleepOK'
    <3>1. CASE UNCHANGED <<timeVars, sleepVars, wake, now>>
      BY <2>0, <3>1 DEF timeVars, sleepVars, Asleep
    <3>2. CASE CountTick /\ now' = now + 1 /\ xPendingReadyList = {} /\ UNCHANGED wake
      <4>1. now' = now + 1 /\ UNCHANGED <<xSuspendedTaskList, xItemValue, xPendingReadyList>>
        BY <3>2 DEF CountTick, StaysAsleep
      <4> QED BY <2>0, <3>2, <4>1, CountTickStep DEF Asleep
    <3>4. ASSUME NEW t \in Tasks, ResumeAll(t) PROVE SleepOK'
      <4>1. UNCHANGED <<wake, now>>
        BY <3>4 DEF ResumeAll, historyVars, now
      <4> QED BY <2>0, <3>4, <4>1 DEF ResumeAll, Ticks, Asleep
    <3>5. ASSUME NEW t \in Tasks, Event(t) PROVE SleepOK'
      <4>1. UNCHANGED <<timeVars, xItemValue, wake, now>> /\ t \in Asleep
        BY <3>5 DEF Event, suspendVars, historyVars, now
      <4>2. CASE holder = Nobody
        BY <1>0, <2>0, <3>5, <4>1, <4>2 DEF Event, Asleep, timeVars, PendingHeld
      <4>3. CASE holder # Nobody
        BY <2>0, <3>5, <4>1, <4>3 DEF Event, Asleep, timeVars
      <4> QED BY <4>2, <4>3
    <3>6. ASSUME NEW t \in Tasks, NEW ticks \in Ticks \ {0}, t \notin Asleep,
                 AddCurrentTaskToDelayedList(t, ticks), UNCHANGED now
          PROVE  SleepOK'
      <4>1. UNCHANGED <<xSuspendedTaskList, xPendingReadyList, xTickCount,
                        xNumOfOverflows>>
        BY <3>6 DEF AddCurrentTaskToDelayedList
      <4> QED BY <2>0, <3>6, <4>1, DelayStep
    <3>7. ASSUME NEW t \in Tasks,
                 xSuspendedTaskList' = xSuspendedTaskList \cup {t},
                 UNCHANGED <<timeVars, delayed, overflowDelayed, xItemValue,
                             xPendingReadyList, wake, now>>
          PROVE  SleepOK'
      BY <2>0, <3>7 DEF timeVars, Asleep
    <3> HIDE DEF SleepOK
    <3> QED BY <3>1, <3>2, <3>4, <3>5, <3>6, <3>7, StepKinds
  <2> QED BY <2>1, <2>2 DEF TypeOK
<1>4. PendingHeld'
  <2>1. CASE UNCHANGED <<holder, unwinding, xPendingReadyList>>
    BY <1>0, <2>1 DEF PendingHeld
  <2>2. CASE Tick \/ UnwindTick
    BY <1>0, <2>2 DEF Tick, UnwindTick, CountTick, StaysAsleep, sleepVars, PendingHeld
  <2>3. ASSUME NEW t \in Tasks,
               SuspendAll(t) \/ ResumeAll(t) \/ Event(t) \/ Block(t)
        PROVE  PendingHeld'
    BY <1>0, <2>3, TickTimeAssumption DEF SuspendAll, ResumeAll, Event, Block,
       AddCurrentTaskToDelayedList, suspendVars, sleepVars, PendingHeld
  <2>4. ASSUME NEW t \in Tasks,
               \/ StartPeriod(t) \/ CheckForTimeOut(t) \/ Served(t)
               \/ \E ticks \in 1 .. portMAX_DELAY :
                     Delay(t, ticks) \/ DelayUntil(t, ticks) \/ SetTimeOutState(t, ticks)
        PROVE  UNCHANGED <<holder, unwinding, xPendingReadyList>>
    BY <2>4 DEF StartPeriod, CheckForTimeOut, Served, Delay, DelayUntil,
       SetTimeOutState, AddCurrentTaskToDelayedList, suspendVars, sleepVars
  <2> QED
    BY <2>1, <2>2, <2>3, <2>4 DEF Next, vars, suspendVars, sleepVars
<1> QED BY <1>1, <1>2, <1>3, <1>4

-----------------------------------------------------------------------------

\* Every variable stays in its range; the tick count and the wake times fit
\* TickType_t.
THEOREM TypeCorrect == Spec => []TypeOK
<1>1. SleepInv => TypeOK
  BY DEF SleepInv
<1> QED BY SleepInit, SleepStep, <1>1, PTL DEF Spec

\* No sleeper is kept past its time, at whatever point of the counter it fell
\* asleep and however the scheduler was suspended meanwhile.
THEOREM NobodyOversleeps == Spec => []NoOversleep
<1>1. SleepInv => NoOversleep
  BY DEF SleepInv
<1> QED BY SleepInit, SleepStep, <1>1, PTL DEF Spec

\* The configASSERT of taskSWITCH_DELAYED_LISTS never fails.
THEOREM SwitchSafe == Spec => []DelayedListEmptyAtSwitch
<1>1. SleepInv => DelayedListEmptyAtSwitch
  <2>1. SUFFICES ASSUME SleepInv, xTickCount = portMAX_DELAY, NEW t \in delayed
                 PROVE  FALSE
    BY DEF DelayedListEmptyAtSwitch
  <2>2. /\ wake[t] = Base + xItemValue[t] /\ wake[t] > now
        /\ xItemValue[t] \in Ticks /\ now \in Nat
    BY <2>1 DEF SleepInv, SleepersFiled, NoOversleep, TypeOK
  <2> QED
    BY <2>1, <2>2, TickTimeAssumption DEF Base, Ticks, portMAX_DELAY
<1> QED BY SleepInit, SleepStep, <1>1, PTL DEF Spec

-----------------------------------------------------------------------------
(* Wake-ups.                                                                *)

\* Whoever a tick takes off the lists was to be woken at that tick.
LEMMA WokenAtTick ==
    ASSUME SleepInv, CountTick, now' = now + 1, UNCHANGED wake,
           NEW t \in delayed \cup overflowDelayed,
           t \notin delayed' \cup overflowDelayed'
    PROVE  wake[t] = now'
<1> USE TickTimeAssumption DEF portMAX_DELAY, Ticks
<1>0. TypeOK /\ SleepersFiled /\ NoOversleep
  BY DEF SleepInv
<1>1. PICK list \in {IF xTickCount' = 0 THEN overflowDelayed ELSE delayed} :
         \/ delayed' = {u \in list : xItemValue[u] > xTickCount'}
         \/ delayed' = list
  BY DEF CountTick, StaysAsleep
<1>2. /\ now' = now + 1 /\ xTickCount' = Plus(xTickCount, 1)
      /\ xTickCount' = 0 => overflowDelayed' = delayed
      /\ xTickCount' # 0 => overflowDelayed' = overflowDelayed
  BY DEF CountTick, StaysAsleep
<1>3. /\ xTickCount \in Ticks /\ now \in Nat /\ t \in Tasks
      /\ xItemValue[t] \in Ticks /\ wake[t] \in Nat /\ wake[t] > now
  BY <1>0 DEF TypeOK, NoOversleep
<1>4. CASE xTickCount = portMAX_DELAY
  <2>1. xTickCount' = 0
    BY <1>2, <1>3, <1>4 DEF Plus
  <2>2. t \in list /\ list = overflowDelayed
    BY <1>1, <1>2, <2>1
  <2>3. ~(xItemValue[t] > 0)
    BY <1>1, <2>1, <2>2
  <2> QED BY <1>0, <1>2, <1>3, <1>4, <2>2, <2>3 DEF SleepersFiled, Base
<1>5. CASE xTickCount # portMAX_DELAY
  <2>1. xTickCount' = xTickCount + 1 /\ xTickCount' # 0
    BY <1>2, <1>3, <1>5 DEF Plus
  <2>2. t \in list /\ list = delayed
    BY <1>1, <1>2, <2>1
  <2>3. ~(xItemValue[t] > xTickCount')
    BY <1>1, <2>2
  <2> QED BY <1>0, <1>2, <1>3, <2>1, <2>2, <2>3 DEF SleepersFiled, Base
<1> QED BY <1>4, <1>5

\* Sleeps end at their time to the tick.
THEOREM WakesOnTime == Spec => WokenWhenDue
<1>1. ASSUME SleepInv, [Next]_vars, NEW t \in Asleep \ Asleep', now' # now
      PROVE  wake[t] = now'
  <2>1. CountTick /\ now' = now + 1 /\ UNCHANGED wake
    <3>1. UNCHANGED now => FALSE
      BY <1>1
    <3>2. ASSUME NEW u \in Tasks, ResumeAll(u) \/ Event(u) PROVE UNCHANGED now
      BY <3>2 DEF ResumeAll, Event, suspendVars, historyVars, now
    <3> QED BY <1>1, <3>1, <3>2, StepKinds
  <2>2. t \in delayed \cup overflowDelayed /\ t \notin delayed' \cup overflowDelayed'
    BY <1>1, <2>1 DEF CountTick, StaysAsleep, Asleep
  <2> QED BY <1>1, <2>1, <2>2, WokenAtTick
<1>2. SleepInv /\ [Next]_vars
         => [\A t \in Asleep \ Asleep' : now' # now => wake[t] = now']_vars
  BY <1>1
<1> QED BY SleepInit, SleepStep, <1>2, PTL DEF Spec, WokenWhenDue

-----------------------------------------------------------------------------
(* Timeouts.                                                                *)

\* Multiples of the period of the counter.
LEMMA Periods ==
    ASSUME NEW a \in Nat, NEW b \in Nat
    PROVE  /\ a * Wrap \in Nat
           /\ a > b => a * Wrap >= b * Wrap + Wrap
           /\ (a + 1) * Wrap = a * Wrap + Wrap
<1>1. Wrap \in Nat
  BY TickTimeAssumption
<1>2. (a + 1) * Wrap = a * Wrap + Wrap
  BY <1>1
<1>3. ASSUME a > b PROVE a * Wrap >= b * Wrap + Wrap
  <2>1. PICK k \in Nat : a = b + 1 + k
    <3>1. a - b - 1 \in Nat /\ a = b + 1 + (a - b - 1)
      BY <1>3
    <3> QED BY <3>1
  <2>2. a * Wrap = b * Wrap + Wrap + k * Wrap
    BY <1>1, <2>1
  <2>3. k * Wrap \in Nat /\ b * Wrap \in Nat
    BY <1>1
  <2> QED BY <1>1, <2>2, <2>3
<1> QED BY <1>1, <1>2, <1>3

\* The wrapped counters and the clock agree.
ClockInv == now = xNumOfOverflows * Wrap + xTickCount

LEMMA ClockStep == SleepInv /\ ClockInv /\ [Next]_vars => ClockInv'
<1> SUFFICES ASSUME SleepInv, ClockInv, [Next]_vars PROVE ClockInv'
  OBVIOUS
<1> USE DEF ClockInv
<1>1. CASE UNCHANGED <<now, xNumOfOverflows, xTickCount>>
  BY <1>1
<1>2. CASE CountTick /\ now' = now + 1
  <2>1. /\ xTickCount \in Ticks /\ xNumOfOverflows \in Nat /\ now \in Nat
        /\ now' = now + 1 /\ xTickCount' = Plus(xTickCount, 1)
        /\ xNumOfOverflows' = IF xTickCount' = 0 THEN xNumOfOverflows + 1
                                                 ELSE xNumOfOverflows
    BY <1>2 DEF CountTick, StaysAsleep, SleepInv, TypeOK
  <2> DEFINE n == xNumOfOverflows * Wrap
  <2>2. n \in Nat /\ (xNumOfOverflows + 1) * Wrap = n + Wrap
    BY <2>1, Periods
  <2>3. CASE xTickCount = portMAX_DELAY
    <3>1. xTickCount' = 0 /\ xTickCount + 1 = Wrap
      BY <2>1, <2>3, TickTimeAssumption DEF Plus, portMAX_DELAY, Ticks
    <3>2. xNumOfOverflows' * Wrap = n + Wrap
      BY <2>1, <2>2, <3>1
    <3>3. now = n + xTickCount
      OBVIOUS
    <3>4. now' = (n + Wrap) + xTickCount'
      <4> HIDE DEF n
      <4> QED BY <2>1, <2>2, <3>1, <3>3, TickTimeAssumption DEF Ticks, portMAX_DELAY
    <3> QED BY <3>2, <3>4
  <2>4. CASE xTickCount # portMAX_DELAY
    <3>1. xTickCount' = xTickCount + 1 /\ xTickCount' # 0
      BY <2>1, <2>4, TickTimeAssumption DEF Plus, portMAX_DELAY, Ticks
    <3>2. xNumOfOverflows' = xNumOfOverflows
      BY <2>1, <3>1
    <3> QED BY <2>1, <2>2, <3>1, <3>2, TickTimeAssumption DEF Ticks, portMAX_DELAY
  <2> QED BY <2>3, <2>4
<1>3. ASSUME NEW t \in Tasks, NEW ticks, AddCurrentTaskToDelayedList(t, ticks),
             UNCHANGED now
      PROVE  UNCHANGED <<now, xNumOfOverflows, xTickCount>>
  BY <1>3 DEF AddCurrentTaskToDelayedList
<1>4. ASSUME NEW t \in Tasks, ResumeAll(t) \/ Event(t)
      PROVE  UNCHANGED <<now, xNumOfOverflows, xTickCount>>
  BY <1>4 DEF ResumeAll, Event, timeVars, suspendVars, historyVars, now
<1> QED BY <1>1, <1>2, <1>3, <1>4, StepKinds DEF timeVars

\* When t's TimeOut_t was really set.
ReallySetAt(t) == xOverflowCount[t] * Wrap + xTimeOnEntering[t]

\* The bookkeeping of the waits: it is exact, unless a check came so late that
\* whole periods of the counter were lost.
WaitInv ==
    \A t \in Tasks : phase[t] \in {"wait", "checked"} =>
        /\ xTicksToWait[t] <= total[t]
        /\ ReallySetAt(t) <= now
        /\ \/ ReallySetAt(t) = SetAt(t)
           \/ ReallySetAt(t) >= SetAt(t) + Wrap

\* Elapsed is the time since then, but for lost periods; and it is exact when
\* the first case of TimedOut does not apply.
LEMMA ElapsedTime ==
    ASSUME SleepInv, ClockInv, NEW t \in Tasks, ReallySetAt(t) <= now
    PROVE  /\ ReallySetAt(t) \in Nat /\ Elapsed(t) \in Ticks
           /\ \/ now = ReallySetAt(t) + Elapsed(t)
              \/ now >= ReallySetAt(t) + Elapsed(t) + Wrap
           /\ (xNumOfOverflows # xOverflowCount[t] /\ xTickCount >= xTimeOnEntering[t])
                 => now >= ReallySetAt(t) + Wrap
<1> DEFINE a == xNumOfOverflows
           b == xOverflowCount[t]
           x == xTickCount
           y == xTimeOnEntering[t]
<1>1. a \in Nat /\ b \in Nat /\ x \in Ticks /\ y \in Ticks /\ now \in Nat
  BY DEF SleepInv, TypeOK
<1>2. now = a * Wrap + x /\ ReallySetAt(t) = b * Wrap + y
  BY DEF ClockInv, ReallySetAt
<1>3. Elapsed(t) = Minus(x, y) /\ Elapsed(t) \in Ticks
  BY <1>1, PlusMinusInTicks DEF Elapsed
<1>4. /\ a * Wrap \in Nat /\ b * Wrap \in Nat
      /\ a > b => a * Wrap >= b * Wrap + Wrap
      /\ b > a => b * Wrap >= a * Wrap + Wrap
  BY <1>1, Periods
<1>5. a > b => a = b + 1 \/ a > b + 1
  BY <1>1
<1>6. /\ a = b + 1 => a * Wrap = b * Wrap + Wrap
      /\ a > b + 1 => a * Wrap >= b * Wrap + Wrap + Wrap
  BY <1>1, Periods
<1> HIDE DEF a, b, x, y
<1>7. ReallySetAt(t) \in Nat
  BY <1>1, <1>2, <1>4, TickTimeAssumption DEF Ticks, portMAX_DELAY
<1>8. a >= b
  BY <1>1, <1>2, <1>4, TickTimeAssumption DEF Ticks, portMAX_DELAY
<1>9. a # b /\ x >= y => now >= ReallySetAt(t) + Wrap
  BY <1>1, <1>2, <1>4, <1>8, TickTimeAssumption DEF Ticks, portMAX_DELAY
<1>10. \/ now = ReallySetAt(t) + Elapsed(t)
       \/ now >= ReallySetAt(t) + Elapsed(t) + Wrap
  <2>1. CASE x >= y
    <3>1. Elapsed(t) = x - y
      BY <1>3, <2>1 DEF Minus
    <3> QED BY <1>1, <1>2, <1>4, <1>8, <2>1, <3>1, TickTimeAssumption
            DEF Ticks, portMAX_DELAY
  <2>2. CASE ~(x >= y)
    <3>1. Elapsed(t) = x - y + Wrap
      BY <1>3, <2>2 DEF Minus
    <3>2. a > b
      BY <1>1, <1>2, <1>4, <1>8, <2>2, TickTimeAssumption
         DEF Ticks, portMAX_DELAY
    <3>3. CASE a = b + 1
      BY <1>1, <1>2, <1>4, <1>6, <3>1, <3>3, TickTimeAssumption
         DEF Ticks, portMAX_DELAY
    <3>4. CASE a > b + 1
      BY <1>1, <1>2, <1>4, <1>6, <3>1, <3>4, TickTimeAssumption
         DEF Ticks, portMAX_DELAY
    <3> QED BY <1>5, <3>2, <3>3, <3>4
  <2> QED BY <2>1, <2>2
<1> QED BY <1>3, <1>7, <1>9, <1>10 DEF a, b, x, y

LEMMA WaitStep == SleepInv /\ ClockInv /\ WaitInv /\ [Next]_vars => WaitInv'
<1> SUFFICES ASSUME SleepInv, ClockInv, WaitInv, [Next]_vars,
                    NEW u \in Tasks, phase'[u] \in {"wait", "checked"}
             PROVE  /\ xTicksToWait'[u] <= total'[u]
                    /\ ReallySetAt(u)' <= now'
                    /\ \/ ReallySetAt(u)' = SetAt(u)'
                       \/ ReallySetAt(u)' >= SetAt(u)' + Wrap
  BY DEF WaitInv
<1> DEFINE Goal == /\ xTicksToWait'[u] <= total'[u]
                   /\ ReallySetAt(u)' <= now'
                   /\ \/ ReallySetAt(u)' = SetAt(u)'
                      \/ ReallySetAt(u)' >= SetAt(u)' + Wrap
<1>0. TypeOK /\ WaitInv
  BY DEF SleepInv
<1>1. /\ now \in Nat /\ entered[u] \in Nat /\ total[u] \in Ticks
      /\ xTicksToWait[u] \in Ticks /\ xTimeOnEntering[u] \in Ticks
      /\ xOverflowCount[u] \in Nat /\ xTickCount \in Ticks
      /\ phase \in [Tasks -> {"none", "wait", "checked", "acted"}]
  BY <1>0 DEF TypeOK
<1>2. xOverflowCount[u] * Wrap \in Nat
  BY <1>1, Periods
<1>3. CASE /\ phase[u] \in {"wait", "checked"} /\ now' \in {now, now + 1}
           /\ xTicksToWait'[u] = xTicksToWait[u] /\ total'[u] = total[u]
           /\ entered'[u] = entered[u]
           /\ xOverflowCount'[u] = xOverflowCount[u]
           /\ xTimeOnEntering'[u] = xTimeOnEntering[u]
  <2>1. ReallySetAt(u)' = ReallySetAt(u) /\ SetAt(u)' = SetAt(u)
    BY <1>3 DEF ReallySetAt, SetAt
  <2>2. ReallySetAt(u) \in Nat
    BY <1>1, <1>2 DEF ReallySetAt, Ticks
  <2> QED BY <1>0, <1>1, <1>3, <2>1, <2>2 DEF WaitInv
<1>4. CASE SetTimeOutState(u, total'[u])
  <2>1. /\ xTicksToWait'[u] = total'[u] /\ entered'[u] = now /\ now' = now
        /\ xOverflowCount'[u] = xNumOfOverflows /\ xTimeOnEntering'[u] = xTickCount
    BY <1>0, <1>4 DEF SetTimeOutState, TypeOK, suspendVars, now
  <2>2. total'[u] \in Nat
    BY <1>0, <1>4, SleepStep DEF SleepInv, TypeOK, Ticks
  <2>3. ReallySetAt(u)' = now
    BY <2>1 DEF ReallySetAt, ClockInv
  <2> QED BY <1>1, <2>1, <2>2, <2>3 DEF SetAt
<1>5. CASE CheckForTimeOut(u) /\ ~TimedOut(u) /\ xTicksToWait[u] # portMAX_DELAY
  <2>1. /\ xTicksToWait'[u] = xTicksToWait[u] - Elapsed(u)
        /\ xTimeOnEntering'[u] = xTickCount
        /\ xOverflowCount'[u] = xNumOfOverflows
        /\ total'[u] = total[u] /\ entered'[u] = entered[u] /\ now' = now
    BY <1>0, <1>5 DEF CheckForTimeOut, TypeOK, suspendVars, now
  <2>2. /\ ReallySetAt(u) <= now /\ xTicksToWait[u] <= total[u]
        /\ \/ ReallySetAt(u) = SetAt(u)
           \/ ReallySetAt(u) >= SetAt(u) + Wrap
    BY <1>0, <1>5 DEF CheckForTimeOut, WaitInv
  <2>3. /\ ReallySetAt(u) \in Nat /\ Elapsed(u) \in Ticks
        /\ \/ now = ReallySetAt(u) + Elapsed(u)
           \/ now >= ReallySetAt(u) + Elapsed(u) + Wrap
    BY <2>2, ElapsedTime
  <2>4. ReallySetAt(u)' = now
    BY <2>1 DEF ReallySetAt, ClockInv
  <2>5. SetAt(u)' = SetAt(u) + Elapsed(u) /\ SetAt(u) \in Int
    BY <1>1, <2>1, <2>3 DEF SetAt, Ticks
  <2>6. xTicksToWait'[u] <= total'[u]
    BY <1>1, <2>1, <2>2, <2>3 DEF Ticks
  <2>7. \/ now = SetAt(u) + Elapsed(u)
        \/ now >= SetAt(u) + Elapsed(u) + Wrap
    BY <1>1, <2>2, <2>3, <2>5, TickTimeAssumption DEF Ticks
  <2> QED BY <1>1, <2>1, <2>4, <2>5, <2>6, <2>7
<1> HIDE DEF Goal
<1>6. CASE UNCHANGED <<callVars, entered, total>> /\ now' \in {now, now + 1}
  BY <1>3, <1>6 DEF callVars, Goal
<1>7. CASE Tick \/ UnwindTick \/ UNCHANGED vars
  <2>1. UNCHANGED <<callVars, entered, total>>
    BY <1>7 DEF Tick, UnwindTick, vars, historyVars
  <2>2. now' \in {now, now + 1}
    BY TickNow
  <2> QED BY <1>6, <2>1, <2>2
<1>8. ASSUME NEW t \in Tasks,
             \/ SuspendAll(t) \/ ResumeAll(t) \/ Event(t) \/ Block(t)
             \/ StartPeriod(t) \/ Served(t)
             \/ \E ticks \in 1 .. portMAX_DELAY :
                   Delay(t, ticks) \/ DelayUntil(t, ticks)
      PROVE  Goal
  <2>1. /\ phase[u] \in {"wait", "checked"} /\ now' = now
        /\ xTicksToWait'[u] = xTicksToWait[u] /\ total'[u] = total[u]
        /\ entered'[u] = entered[u]
        /\ xOverflowCount'[u] = xOverflowCount[u]
        /\ xTimeOnEntering'[u] = xTimeOnEntering[u]
    <3>1. CASE \/ SuspendAll(t) \/ Event(t) \/ Block(t) \/ StartPeriod(t)
      BY <3>1 DEF SuspendAll, Event, Block, StartPeriod, callVars, suspendVars,
                  historyVars, now
    <3>2. CASE ResumeAll(t)
      BY <1>1, <3>2 DEF ResumeAll, historyVars, now
    <3>3. CASE Served(t)
      BY <1>0, <1>1, <3>3 DEF Served, EndWait, TypeOK, suspendVars, now
    <3>4. CASE \E ticks \in 1 .. portMAX_DELAY :
                  Delay(t, ticks) \/ DelayUntil(t, ticks)
      BY <1>1, <3>4 DEF Delay, DelayUntil, suspendVars, now
    <3> QED BY <1>8, <3>1, <3>2, <3>3, <3>4
  <2> QED BY <1>3, <2>1 DEF Goal
<1>9. ASSUME NEW t \in Tasks, NEW ticks \in 1 .. portMAX_DELAY,
             SetTimeOutState(t, ticks)
      PROVE  Goal
  <2>1. CASE t = u
    <3>1. total'[u] = ticks
      BY <1>0, <1>9, <2>1 DEF SetTimeOutState, TypeOK
    <3> QED BY <1>4, <1>9, <2>1, <3>1 DEF Goal
  <2>2. CASE t # u
    BY <1>0, <1>3, <1>9, <2>2 DEF SetTimeOutState, TypeOK, Goal, suspendVars, now
  <2> QED BY <2>1, <2>2
<1>10. ASSUME NEW t \in Tasks, CheckForTimeOut(t) PROVE Goal
  <2>1. CASE t # u
    BY <1>0, <1>3, <1>10, <2>1 DEF CheckForTimeOut, EndWait, TypeOK, Goal, suspendVars, now
  <2>2. CASE t = u /\ TimedOut(u)
    BY <1>1, <1>10, <2>2 DEF CheckForTimeOut, EndWait
  <2>3. CASE t = u /\ ~TimedOut(u) /\ xTicksToWait[u] = portMAX_DELAY
    BY <1>0, <1>3, <1>10, <2>3 DEF CheckForTimeOut, TypeOK, Goal, suspendVars, now
  <2> QED BY <1>5, <1>10, <2>1, <2>2, <2>3 DEF Goal
<1> QED BY <1>7, <1>8, <1>9, <1>10 DEF Next, Goal

\* What xTaskCheckForTimeOut answers is exact in both directions.
LEMMA TimeoutsExact == Spec => [](NeverTimesOutEarly /\ TimesOutWhenDue)
<1> DEFINE Inv == SleepInv /\ ClockInv /\ WaitInv
<1>1. Init => Inv
  BY SleepInit, TickTimeAssumption DEF Init, ClockInv, WaitInv, now
<1>2. Inv /\ [Next]_vars => Inv'
  BY SleepStep, ClockStep, WaitStep
<1>3. Inv => NeverTimesOutEarly /\ TimesOutWhenDue
  <2> SUFFICES ASSUME Inv, NEW t \in Tasks, Finite(t)
               PROVE  /\ TimedOut(t) => now >= entered[t] + total[t]
                      /\ now >= entered[t] + total[t] /\ now - SetAt(t) < Wrap
                            => TimedOut(t)
    BY DEF NeverTimesOutEarly, TimesOutWhenDue
  <2>1. /\ now \in Nat /\ entered[t] \in Nat /\ total[t] \in Ticks
        /\ xTicksToWait[t] \in Ticks /\ xTicksToWait[t] # portMAX_DELAY
    BY DEF SleepInv, TypeOK, Finite
  <2>2. /\ ReallySetAt(t) <= now /\ xTicksToWait[t] <= total[t]
        /\ \/ ReallySetAt(t) = SetAt(t)
           \/ ReallySetAt(t) >= SetAt(t) + Wrap
    BY DEF WaitInv, Finite
  <2>3. /\ ReallySetAt(t) \in Nat /\ Elapsed(t) \in Ticks
        /\ \/ now = ReallySetAt(t) + Elapsed(t)
           \/ now >= ReallySetAt(t) + Elapsed(t) + Wrap
        /\ (xNumOfOverflows # xOverflowCount[t] /\ xTickCount >= xTimeOnEntering[t])
              => now >= ReallySetAt(t) + Wrap
    BY <2>2, ElapsedTime
  <2>4. SetAt(t) = entered[t] + total[t] - xTicksToWait[t] /\ SetAt(t) \in Int
    BY <2>1 DEF SetAt, Ticks
  <2>5. TimedOut(t) => now >= entered[t] + total[t]
    BY <2>1, <2>2, <2>3, <2>4, TickTimeAssumption DEF TimedOut, Ticks, portMAX_DELAY
  <2>6. now >= entered[t] + total[t] /\ now - SetAt(t) < Wrap => TimedOut(t)
    BY <2>1, <2>2, <2>3, <2>4, TickTimeAssumption DEF TimedOut, Ticks, portMAX_DELAY
  <2> QED BY <2>5, <2>6
<1> QED BY <1>1, <1>2, <1>3, PTL DEF Spec

\* At every moment at which xTaskCheckForTimeOut may be called, it does not end
\* a wait early.
THEOREM TimeoutsNotEarly == Spec => []NeverTimesOutEarly
  BY TimeoutsExact, PTL

\* Nor does it miss the end of one, unless a whole period of the counter has
\* passed since the tick count was last noted.
THEOREM TimeoutsDue == Spec => []TimesOutWhenDue
  BY TimeoutsExact, PTL

-----------------------------------------------------------------------------
(* Periodic tasks.                                                          *)

\* *pxPreviousWakeTime is the wrapped form of the last wake time asked for,
\* and that lies ahead only while the task sleeps towards it.
PeriodInv ==
    /\ \A t \in xPendingReadyList : phase[t] \in {"wait", "checked"}
    /\ \A t \in Tasks :
        /\ \E k \in Nat : last[t] = k * Wrap + pxPreviousWakeTime[t]
        /\ \/ last[t] <= now
           \/ /\ t \in delayed \cup overflowDelayed
              /\ phase[t] \in {"none", "acted"}
              /\ last[t] = wake[t]

\* vTaskDelayUntil decides by the wrapped counts what the clock says.
LEMMA DelayUntilRight ==
    ASSUME SleepInv, ClockInv, PeriodInv, NEW t \in Tasks,
           NEW increment \in 1 .. portMAX_DELAY, DelayUntil(t, increment),
           now - last[t] < Wrap
    PROVE  IF last[t] + increment > now
           THEN /\ t \in (delayed \cup overflowDelayed)'
                /\ wake'[t] = last[t] + increment
           ELSE t \notin Asleep'
<1> DEFINE p == pxPreviousWakeTime[t]
           x == xTickCount
           toWake == Plus(p, increment)
<1>0. TypeOK
  BY DEF SleepInv
<1>1. PICK k \in Nat : last[t] = k * Wrap + p
  BY DEF PeriodInv
<1>2. /\ p \in Ticks /\ x \in Ticks /\ now \in Nat /\ xNumOfOverflows \in Nat
      /\ increment \in Ticks /\ increment # 0 /\ toWake \in Ticks
      /\ last[t] \in Nat
  BY <1>0, PlusMinusInTicks, TickTimeAssumption DEF TypeOK, Ticks, portMAX_DELAY
<1>3. last[t] <= now /\ t \notin Asleep
  BY DEF PeriodInv, DelayUntil, Acting, Asleep
<1>4. now = xNumOfOverflows * Wrap + x
  BY DEF ClockInv
<1>5. /\ k * Wrap \in Nat /\ xNumOfOverflows * Wrap \in Nat
      /\ k > xNumOfOverflows => k * Wrap >= xNumOfOverflows * Wrap + Wrap
      /\ xNumOfOverflows > k + 1 => xNumOfOverflows * Wrap >= (k + 1) * Wrap + Wrap
      /\ (k + 1) * Wrap = k * Wrap + Wrap
  BY <1>1, <1>2, Periods
<1> HIDE DEF p, x, toWake
<1>6. \/ xNumOfOverflows = k /\ x >= p
      \/ xNumOfOverflows = k + 1 /\ x < p
  <2>1. ~(k > xNumOfOverflows)
    BY <1>1, <1>2, <1>3, <1>4, <1>5, TickTimeAssumption DEF Ticks, portMAX_DELAY
  <2>2. ~(xNumOfOverflows > k + 1)
    BY <1>1, <1>2, <1>3, <1>4, <1>5, TickTimeAssumption DEF Ticks, portMAX_DELAY
  <2>3. xNumOfOverflows = k \/ xNumOfOverflows = k + 1
    BY <1>1, <1>2, <2>1, <2>2
  <2>4. CASE xNumOfOverflows = k
    BY <1>1, <1>2, <1>3, <1>4, <1>5, <2>4, TickTimeAssumption DEF Ticks, portMAX_DELAY
  <2>5. CASE xNumOfOverflows = k + 1
    <3>1. now = k * Wrap + Wrap + x
      BY <1>4, <1>5, <2>5
    <3> QED BY <1>1, <1>2, <1>3, <1>5, <2>5, <3>1, TickTimeAssumption
            DEF Ticks, portMAX_DELAY
  <2> QED BY <2>3, <2>4, <2>5
<1>7. toWake = IF p + increment < Wrap THEN p + increment ELSE p + increment - Wrap
  BY DEF toWake, Plus
<1> DEFINE D == last[t] + increment - now
<1>8. /\ ShouldDelay(p, toWake) <=> D > 0
      /\ D > 0 => Minus(toWake, x) = D
  <2>1. CASE xNumOfOverflows = k /\ x >= p
    <3>1. D = p + increment - x
      BY <1>1, <1>2, <1>4, <1>5, <2>1
    <3>2. ShouldDelay(p, toWake) <=> toWake < p \/ toWake > x
      BY <1>2, <2>1 DEF ShouldDelay, x, Ticks
    <3> HIDE DEF D
    <3>3. CASE p + increment < Wrap
      BY <1>2, <1>7, <2>1, <3>1, <3>2, <3>3, TickTimeAssumption
         DEF Minus, Ticks, portMAX_DELAY
    <3>4. CASE ~(p + increment < Wrap)
      BY <1>2, <1>7, <2>1, <3>1, <3>2, <3>4, TickTimeAssumption
         DEF Minus, Ticks, portMAX_DELAY
    <3> QED BY <3>3, <3>4
  <2>2. CASE xNumOfOverflows = k + 1 /\ x < p
    <3>1. D = p + increment - Wrap - x
      <4>1. now = k * Wrap + Wrap + x
        BY <1>4, <1>5, <2>2
      <4> QED BY <1>1, <1>2, <1>5, <4>1, TickTimeAssumption
    <3>2. ShouldDelay(p, toWake) <=> toWake < p /\ toWake > x
      BY <2>2 DEF ShouldDelay, x
    <3> HIDE DEF D
    <3>3. CASE p + increment < Wrap
      BY <1>2, <1>7, <2>2, <3>1, <3>2, <3>3, TickTimeAssumption
         DEF Minus, Ticks, portMAX_DELAY
    <3>4. CASE ~(p + increment < Wrap)
      BY <1>2, <1>7, <2>2, <3>1, <3>2, <3>4, TickTimeAssumption
         DEF Minus, Ticks, portMAX_DELAY
    <3> QED BY <3>3, <3>4
  <2> QED BY <1>6, <2>1, <2>2
<1>9. CASE D > 0
  <2>1. AddCurrentTaskToDelayedList(t, D)
    BY <1>8, <1>9 DEF DelayUntil, p, x, toWake
  <2>2. t \in (delayed \cup overflowDelayed)' /\ wake'[t] = now + D
    BY <1>0, <2>1 DEF AddCurrentTaskToDelayedList, TypeOK
  <2> QED BY <1>2, <1>9, <2>2
<1>10. CASE ~(D > 0)
  <2>1. UNCHANGED sleepVars
    BY <1>8, <1>10 DEF DelayUntil, p, toWake
  <2> QED BY <1>2, <1>3, <1>10, <2>1 DEF sleepVars, Asleep
<1> QED BY <1>9, <1>10

LEMMA PeriodStep == SleepInv /\ ClockInv /\ PeriodInv /\ [Next]_vars => PeriodInv'
<1> SUFFICES ASSUME SleepInv, ClockInv, PeriodInv, [Next]_vars PROVE PeriodInv'
  OBVIOUS
<1>0. TypeOK /\ SleepInv' /\ phase \in [Tasks -> {"none", "wait", "checked", "acted"}]
  BY SleepStep DEF SleepInv, TypeOK
<1>1. ASSUME NEW t \in Tasks, t \in Asleep, phase'[t] # phase[t]
      PROVE  ResumeAll(t) /\ (phase[t] = "acted" => phase'[t] = "none")
  <2>1. ASSUME NEW u \in Tasks,
               \/ StartPeriod(u) \/ CheckForTimeOut(u) \/ Served(u)
               \/ \E ticks \in 1 .. portMAX_DELAY :
                     Delay(u, ticks) \/ DelayUntil(u, ticks) \/ SetTimeOutState(u, ticks)
        PROVE  phase'[t] = phase[t]
    BY <1>0, <1>1, <2>1 DEF StartPeriod, CheckForTimeOut, Served, EndWait, Delay,
       DelayUntil, SetTimeOutState, Acting
  <2>2. ASSUME NEW u \in Tasks, SuspendAll(u) \/ Event(u) \/ Block(u)
        PROVE  phase'[t] = phase[t]
    BY <2>2 DEF SuspendAll, Event, Block, callVars
  <2>3. ASSUME NEW u \in Tasks, ResumeAll(u)
        PROVE  u = t /\ (phase[t] = "acted" => phase'[t] = "none")
    BY <1>0, <1>1, <2>3 DEF ResumeAll
  <2>4. CASE Tick \/ UnwindTick \/ UNCHANGED vars
    BY <1>1, <2>4 DEF Tick, UnwindTick, callVars, vars
  <2> QED BY <1>1, <2>1, <2>2, <2>3, <2>4 DEF Next
<1>2. ASSUME NEW t \in xPendingReadyList' PROVE phase'[t] \in {"wait", "checked"}
  <2>1. CASE t \in xPendingReadyList
    <3>1. t \in Tasks /\ t \in Asleep
      BY <1>0, <2>1 DEF TypeOK, Asleep
    <3>2. ~ResumeAll(t)
      BY <1>2 DEF ResumeAll
    <3> QED BY <1>1, <2>1, <3>1, <3>2 DEF PeriodInv
  <2>2. CASE t \notin xPendingReadyList
    <3>1. t \in Tasks /\ Event(t)
      <4>1. \E u \in Tasks : ResumeAll(u) \/ Event(u)
        BY <1>2, <2>2, StepKinds
           DEF sleepVars, CountTick, StaysAsleep, AddCurrentTaskToDelayedList
      <4> QED BY <1>2, <2>2, <4>1 DEF ResumeAll, Event
    <3> QED BY <3>1 DEF Event, callVars
  <2> QED BY <2>1, <2>2
<1>3. ASSUME NEW t \in Tasks, UNCHANGED <<last, pxPreviousWakeTime>>
      PROVE  /\ \E k \in Nat : last'[t] = k * Wrap + pxPreviousWakeTime'[t]
             /\ \/ last'[t] <= now'
                \/ /\ t \in (delayed \cup overflowDelayed)'
                   /\ phase'[t] \in {"none", "acted"}
                   /\ last'[t] = wake'[t]
  <2>1. now \in Nat /\ last[t] \in Nat
    BY <1>0 DEF TypeOK
  <2>2. now' \in {now, now + 1}
    BY TickNow
  <2>3. CASE last[t] <= now
    BY <1>3, <2>1, <2>2, <2>3 DEF PeriodInv
  <2>4. CASE ~(last[t] <= now)
    <3>1. /\ t \in delayed \cup overflowDelayed
          /\ phase[t] \in {"none", "acted"} /\ last[t] = wake[t]
          /\ t \notin xPendingReadyList
      BY <2>4 DEF PeriodInv
    <3>2. phase'[t] \in {"none", "acted"}
      <4>1. CASE phase'[t] = phase[t]
        BY <3>1, <4>1
      <4>2. CASE phase'[t] # phase[t]
        <5>1. ResumeAll(t)
          BY <1>1, <3>1, <4>2 DEF Asleep
        <5>2. phase'[t] = CASE phase[t] = "checked" -> "wait"
                            [] phase[t] = "acted"   -> "none"
                            [] OTHER                -> phase[t]
          BY <1>0, <5>1 DEF ResumeAll, TypeOK
        <5> QED BY <3>1, <5>2
      <4> QED BY <4>1, <4>2
    <3>3. \/ t \in (delayed \cup overflowDelayed)' /\ wake'[t] = wake[t]
          \/ wake[t] = now'
      <4>1. CASE UNCHANGED <<delayed, overflowDelayed, wake>>
        BY <3>1, <4>1
      <4>2. CASE CountTick /\ now' = now + 1 /\ UNCHANGED wake
        BY <3>1, <4>2, WokenAtTick
      <4>3. ASSUME NEW u \in Tasks, ResumeAll(u)
            PROVE  t \in (delayed \cup overflowDelayed)' /\ wake'[t] = wake[t]
        BY <3>1, <4>3 DEF ResumeAll, historyVars
      <4>4. ASSUME NEW u \in Tasks, Event(u)
            PROVE  t \in (delayed \cup overflowDelayed)' /\ wake'[t] = wake[t]
        BY <3>1, <4>4 DEF Event, historyVars
      <4>5. ASSUME NEW u \in Tasks, NEW ticks, u \notin Asleep,
                   AddCurrentTaskToDelayedList(u, ticks)
            PROVE  t \in (delayed \cup overflowDelayed)' /\ wake'[t] = wake[t]
        <5>1. u # t
          BY <3>1, <4>5 DEF Asleep
        <5> QED BY <1>0, <3>1, <4>5, <5>1
                DEF AddCurrentTaskToDelayedList, TypeOK
      <4> QED BY <4>1, <4>2, <4>3, <4>4, <4>5, StepKinds DEF sleepVars
    <3> QED BY <1>3, <2>1, <2>2, <3>1, <3>2, <3>3 DEF PeriodInv
  <2> QED BY <2>3, <2>4
<1>4. CASE UNCHANGED <<last, pxPreviousWakeTime>>
  BY <1>2, <1>3, <1>4 DEF PeriodInv
<1>5. ASSUME NEW u \in Tasks, NEW t \in Tasks, t # u, last'[t] = last[t],
             pxPreviousWakeTime'[t] = pxPreviousWakeTime[t], now' = now,
             phase'[t] = phase[t], wake'[t] = wake[t],
             delayed \subseteq delayed', overflowDelayed \subseteq overflowDelayed'
      PROVE  /\ \E k \in Nat : last'[t] = k * Wrap + pxPreviousWakeTime'[t]
             /\ \/ last'[t] <= now'
                \/ /\ t \in (delayed \cup overflowDelayed)'
                   /\ phase'[t] \in {"none", "acted"}
                   /\ last'[t] = wake'[t]
  BY <1>5 DEF PeriodInv
<1>6. ASSUME NEW u \in Tasks, StartPeriod(u) PROVE PeriodInv'
  <2>1. /\ last' = [last EXCEPT ![u] = now]
        /\ pxPreviousWakeTime' = [pxPreviousWakeTime EXCEPT ![u] = xTickCount]
        /\ UNCHANGED <<timeVars, sleepVars, phase, now, wake>>
    BY <1>6 DEF StartPeriod, suspendVars, now
  <2>2. /\ last'[u] = xNumOfOverflows * Wrap + pxPreviousWakeTime'[u]
        /\ last'[u] <= now' /\ xNumOfOverflows \in Nat
    BY <1>0, <2>1 DEF TypeOK, ClockInv
  <2>3. \A t \in Tasks \ {u} : /\ last'[t] = last[t]
           /\ pxPreviousWakeTime'[t] = pxPreviousWakeTime[t]
    BY <1>0, <2>1 DEF TypeOK
  <2> QED BY <1>2, <1>5, <2>1, <2>2, <2>3 DEF PeriodInv, timeVars, sleepVars
<1>7. ASSUME NEW u \in Tasks, NEW increment \in 1 .. portMAX_DELAY,
             DelayUntil(u, increment)
      PROVE  PeriodInv'
  <2>1. /\ last' = [last EXCEPT ![u] = @ + increment]
        /\ pxPreviousWakeTime' = [pxPreviousWakeTime EXCEPT
                                     ![u] = Plus(pxPreviousWakeTime[u], increment)]
        /\ phase' = [phase EXCEPT ![u] = "acted"] /\ now' = now
    BY <1>7 DEF DelayUntil, suspendVars, now
  <2>2. \A t \in Tasks \ {u} : wake'[t] = wake[t] /\ last'[t] = last[t]
           /\ pxPreviousWakeTime'[t] = pxPreviousWakeTime[t] /\ phase'[t] = phase[t]
    <3>1. \A t \in Tasks \ {u} : wake'[t] = wake[t]
      BY <1>0, <1>7 DEF DelayUntil, AddCurrentTaskToDelayedList, TypeOK
    <3> QED BY <1>0, <2>1, <3>1 DEF TypeOK
  <2>3. delayed \subseteq delayed' /\ overflowDelayed \subseteq overflowDelayed'
    BY <1>7 DEF DelayUntil, AddCurrentTaskToDelayedList, sleepVars
  <2>4. /\ last[u] \in Nat /\ now \in Nat /\ last'[u] = last[u] + increment
        /\ pxPreviousWakeTime[u] \in Ticks /\ increment \in Nat /\ increment < Wrap
        /\ pxPreviousWakeTime'[u] = Plus(pxPreviousWakeTime[u], increment)
        /\ phase'[u] = "acted"
    BY <1>0, <2>1, TickTimeAssumption DEF TypeOK, portMAX_DELAY
  <2>5. \E k \in Nat : last'[u] = k * Wrap + pxPreviousWakeTime'[u]
    <3>1. PICK k \in Nat : last[u] = k * Wrap + pxPreviousWakeTime[u]
      BY DEF PeriodInv
    <3>2. k * Wrap \in Nat /\ (k + 1) * Wrap = k * Wrap + Wrap /\ k + 1 \in Nat
      BY Periods
    <3>3. \/ last'[u] = k * Wrap + pxPreviousWakeTime'[u]
          \/ last'[u] = (k + 1) * Wrap + pxPreviousWakeTime'[u]
      BY <2>4, <3>1, <3>2, TickTimeAssumption DEF Plus, Ticks, portMAX_DELAY
    <3> QED BY <3>2, <3>3
  <2>6. \/ last'[u] <= now'
        \/ /\ u \in (delayed \cup overflowDelayed)'
           /\ phase'[u] \in {"none", "acted"}
           /\ last'[u] = wake'[u]
    <3>1. CASE now - last[u] < Wrap
      BY <1>7, <2>1, <2>4, <3>1, DelayUntilRight
    <3>2. CASE ~(now - last[u] < Wrap)
      BY <2>1, <2>4, <3>2, TickTimeAssumption
    <3> QED BY <3>1, <3>2
  <2> QED BY <1>2, <1>5, <2>1, <2>2, <2>3, <2>5, <2>6 DEF PeriodInv
<1>8. ASSUME NEW u \in Tasks,
             \/ SuspendAll(u) \/ ResumeAll(u) \/ Event(u) \/ Block(u)
             \/ CheckForTimeOut(u) \/ Served(u)
             \/ \E ticks \in 1 .. portMAX_DELAY :
                   Delay(u, ticks) \/ SetTimeOutState(u, ticks)
      PROVE  UNCHANGED <<last, pxPreviousWakeTime>>
  BY <1>8 DEF SuspendAll, ResumeAll, Event, Block, CheckForTimeOut, Served,
     Delay, SetTimeOutState, callVars, historyVars
<1>9. CASE Tick \/ UnwindTick \/ UNCHANGED vars
  BY <1>4, <1>9 DEF Tick, UnwindTick, callVars, vars, historyVars
<1> QED BY <1>4, <1>6, <1>7, <1>8, <1>9 DEF Next

\* A periodic task keeps its period across wraps of the counter.
THEOREM PeriodsKept == Spec => PeriodKept
<1> DEFINE Inv == SleepInv /\ ClockInv /\ PeriodInv
<1>1. Init => Inv
  <2>1. ASSUME Init, NEW t \in Tasks
        PROVE  /\ last[t] = 0 * Wrap + pxPreviousWakeTime[t]
               /\ last[t] <= now
    BY <2>1, TickTimeAssumption DEF Init, now
  <2>2. Init => PeriodInv
    BY <2>1 DEF Init, PeriodInv
  <2>3. Init => ClockInv
    BY TickTimeAssumption DEF Init, ClockInv, now
  <2> QED BY <2>2, <2>3, SleepInit
<1>2. Inv /\ [Next]_vars => Inv'
  BY SleepStep, ClockStep, PeriodStep
<1>3. Inv /\ [Next]_vars =>
        [\A t \in Tasks, increment \in 1 .. portMAX_DELAY :
            DelayUntil(t, increment) /\ now - last[t] < Wrap =>
                IF last[t] + increment > now
                THEN t \in Asleep' /\ wake'[t] = last[t] + increment
                ELSE t \notin Asleep']_vars
  BY DelayUntilRight DEF Asleep
<1> QED BY <1>1, <1>2, <1>3, PTL DEF Spec, PeriodKept

=============================================================================
