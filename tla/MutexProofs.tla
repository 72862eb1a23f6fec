----------------------------- MODULE MutexProofs -----------------------------
(***************************************************************************)
(* What holds of the mutexes for any tasks, priorities, mutexes and waits. *)
(* IInv is inductive for every use of them: counts are right and inherited *)
(* priorities end.  FlatInv is, where no task takes a mutex while it holds *)
(* another: inheritance reaches who it should.  NestedInv is, where nobody *)
(* waits with a timeout: the bit map of the ready lists is right.          *)
(***************************************************************************)
EXTENDS Mutex, FiniteSetTheorems, SequenceTheorems, TLAPS

\* A task inside a call knows which mutex it called for.
CallsKnowMutex ==
    \A t \in Tasks : pc[t] \notin {"user", "asleep", "halted"} => want[t] \in Mutexes

IInv == TypeOK /\ HeldCounted /\ BaseWhenNoneHeld /\ CallsKnowMutex

-----------------------------------------------------------------------------
(* Lists.                                                                    *)

LEMMA InsertType ==
    ASSUME NEW S, NEW list \in Seq(S), NEW x \in S, NEW n \in 0 .. Len(list)
    PROVE  Insert(list, x, n) \in Seq(S)
<1>1. SubSeq(list, 1, n) \in Seq(S) /\ SubSeq(list, n + 1, Len(list)) \in Seq(S)
  OBVIOUS
<1>2. <<x>> \in Seq(S)
  OBVIOUS
<1> QED BY <1>1, <1>2 DEF Insert

LEMMA RemoveType ==
    ASSUME NEW S, NEW list \in Seq(S), NEW n \in 1 .. Len(list)
    PROVE  Remove(list, n) \in Seq(S)
<1>1. SubSeq(list, 1, n - 1) \in Seq(S) /\ SubSeq(list, n + 1, Len(list)) \in Seq(S)
  OBVIOUS
<1> QED BY <1>1 DEF Remove

LEMMA BitsType ==
    ASSUME TypeOK, NEW h \in Tasks, NEW p \in Nat, NEW cleared
    PROVE  BitsMoved(h, p, cleared) \subseteq Nat
BY DEF TypeOK, BitsMoved, Reset

-----------------------------------------------------------------------------
(* What is held.                                                             *)

LEMMA HeldFinite ==
    ASSUME NEW t
    PROVE  IsFiniteSet(Held(t)) /\ Cardinality(Held(t)) \in Nat
<1>1. IsFiniteSet(Held(t))
  BY MutexAssumption, FS_Subset DEF Held
<1> QED BY <1>1, FS_CardinalityType

\* A task whose count is not zero holds something, and a holder's count is not
\* zero.
LEMMA HeldIffCounted ==
    ASSUME IInv, NEW t \in Tasks
    PROVE  Held(t) = {} <=> uxMutexesHeld[t] = 0
BY HeldFinite, FS_EmptySet DEF IInv, HeldCounted

LEMMA HolderHolds ==
    ASSUME TypeOK, NEW m \in Mutexes, xMutexHolder[m] # Nobody
    PROVE  xMutexHolder[m] \in Tasks /\ m \in Held(xMutexHolder[m])
BY DEF TypeOK, Held

LEMMA InitIInv == Init => IInv
<1> SUFFICES ASSUME Init PROVE IInv
  OBVIOUS
<1> USE MutexAssumption DEF Init
<1>1. TypeOK
  BY DEF TypeOK, Places
<1>2. \A t \in Tasks : Held(t) = {}
  BY DEF Held
<1>3. HeldCounted
  BY <1>2, FS_EmptySet DEF HeldCounted
<1>4. BaseWhenNoneHeld /\ CallsKnowMutex
  BY DEF BaseWhenNoneHeld, CallsKnowMutex
<1> QED BY <1>1, <1>3, <1>4 DEF IInv

-----------------------------------------------------------------------------
(* Steps.                                                                    *)

\* A step that leaves the holders, the counts and the priorities alone keeps
\* the two properties.
LEMMA SameHeld ==
    ASSUME IInv, UNCHANGED <<uxMutexesHeld, xMutexHolder>>
    PROVE  HeldCounted'
BY DEF IInv, HeldCounted, Held

LEMMA SameHeldAndPriority ==
    ASSUME IInv, UNCHANGED <<uxMutexesHeld, xMutexHolder, uxPriority>>
    PROVE  HeldCounted' /\ BaseWhenNoneHeld'
BY SameHeld DEF IInv, BaseWhenNoneHeld, Held

\* A holder's priority may change.
LEMMA HolderPriority ==
    ASSUME IInv, NEW m \in Mutexes, xMutexHolder[m] # Nobody, NEW p \in Nat,
           uxPriority' = [uxPriority EXCEPT ![xMutexHolder[m]] = p],
           UNCHANGED <<uxMutexesHeld, xMutexHolder>>
    PROVE  uxPriority' \in [Tasks -> Nat] /\ HeldCounted' /\ BaseWhenNoneHeld'
<1>1. xMutexHolder[m] \in Tasks /\ m \in Held(xMutexHolder[m])
  BY HolderHolds DEF IInv
<1>2. uxPriority' \in [Tasks -> Nat]
  BY DEF IInv, TypeOK
<1>3. BaseWhenNoneHeld'
  <2> SUFFICES ASSUME NEW t \in Tasks, Held(t)' = {}
               PROVE  uxPriority'[t] = BasePriority[t]
    BY DEF BaseWhenNoneHeld
  <2>1. Held(t) = {}
    BY DEF Held
  <2>2. t # xMutexHolder[m]
    BY <2>1, <1>1
  <2>3. uxPriority'[t] = uxPriority[t]
    BY <2>2, <1>1 DEF IInv, TypeOK
  <2> QED BY <2>1, <2>3 DEF IInv, BaseWhenNoneHeld
<1> QED BY <1>2, <1>3, SameHeld

LEMMA TryTakesIInv ==
    ASSUME IInv, NEW t \in Tasks, TryTakes(t)
    PROVE  IInv'
<1> DEFINE m == want[t]
<1> USE DEF TryTakes, Goto
<1>1. m \in Mutexes /\ xMutexHolder[m] = Nobody
  BY DEF IInv, CallsKnowMutex
<1>2. TypeOK'
  BY <1>1, MutexAssumption, SMTT(30) DEF IInv, TypeOK, schedVars, prioVars, Places
<1>3. Held(t)' = Held(t) \cup {m} /\ m \notin Held(t)
  BY <1>1, MutexAssumption DEF IInv, TypeOK, Held
<1>4. \A u \in Tasks \ {t} : Held(u)' = Held(u)
  BY <1>1, MutexAssumption DEF IInv, TypeOK, Held
<1>5. HeldCounted'
  <2>1. Cardinality(Held(t)') = Cardinality(Held(t)) + 1
    BY <1>3, HeldFinite, FS_AddElement
  <2>2. uxMutexesHeld'[t] = Cardinality(Held(t))'
    BY <2>1 DEF IInv, TypeOK, HeldCounted
  <2>3. \A u \in Tasks \ {t} : uxMutexesHeld'[u] = Cardinality(Held(u))'
    BY <1>4 DEF IInv, TypeOK, HeldCounted
  <2> QED BY <2>2, <2>3 DEF HeldCounted
<1>6. BaseWhenNoneHeld'
  BY <1>3, <1>4 DEF IInv, BaseWhenNoneHeld, prioVars
<1>7. CallsKnowMutex'
  BY DEF IInv, TypeOK, CallsKnowMutex
<1> QED BY <1>2, <1>5, <1>6, <1>7 DEF IInv

LEMMA ParkIInv ==
    ASSUME IInv, NEW t \in Tasks, Park(t)
    PROVE  IInv'
<1> DEFINE m == want[t]
           h == xMutexHolder[m]
<1>1. m \in Mutexes /\ h # Nobody /\ pc[t] = "suspend"
  BY DEF IInv, CallsKnowMutex, Park
<1>2. h \in Tasks
  BY <1>1, HolderHolds DEF IInv
<1>3. uxPriority' \in [Tasks -> Nat] /\ HeldCounted' /\ BaseWhenNoneHeld'
  <2>1. CASE Inherits(h, t)
    <3>1. uxPriority' = [uxPriority EXCEPT ![h] = uxPriority[t]]
      BY <2>1 DEF Park
    <3> QED BY <3>1, <1>1, HolderPriority DEF Park, IInv, TypeOK
  <2>2. CASE ~Inherits(h, t)
    <3>1. uxPriority' = uxPriority
      BY <2>2 DEF Park
    <3> QED BY <3>1, SameHeldAndPriority DEF Park, IInv, TypeOK
  <2> QED BY <2>1, <2>2
<1>4. uxTopReadyPriority' \subseteq Nat
  BY <1>2, BitsType, ZenonT(40) DEF Park, IInv, TypeOK
<1>5. xTasksWaitingToReceive' \in [Mutexes -> Seq(Tasks)]
  <2>1. PICK n \in 0 .. Len(xTasksWaitingToReceive[m]) :
          xTasksWaitingToReceive' =
            [xTasksWaitingToReceive EXCEPT
               ![m] = Insert(xTasksWaitingToReceive[m], t, n)]
    BY DEF Park
  <2>2. Insert(xTasksWaitingToReceive[m], t, n) \in Seq(Tasks)
    BY <1>1, InsertType DEF IInv, TypeOK
  <2> QED BY <2>1, <2>2 DEF IInv, TypeOK
<1>6. xInheritanceOccurred' \in [Tasks -> BOOLEAN]
  BY <1>2 DEF Park, Inherits, IInv, TypeOK
<1>7. TypeOK'
  BY <1>3, <1>4, <1>5, <1>6 DEF Park, Goto, Places, IInv, TypeOK
<1>8. CallsKnowMutex'
  BY DEF Park, Goto, IInv, TypeOK, CallsKnowMutex
<1> QED BY <1>3, <1>7, <1>8 DEF IInv

LEMMA DisinheritIInv ==
    ASSUME IInv, NEW t \in Tasks, DisinheritAfterTimeout(t)
    PROVE  IInv'
<1> DEFINE m == want[t]
           h == xMutexHolder[m]
           p == IF BasePriority[h] < HighestWaiting(m) THEN HighestWaiting(m)
                ELSE BasePriority[h]
           changes == h # Nobody /\ uxPriority[h] # p /\ uxMutexesHeld[h] = 1
<1>1. m \in Mutexes
  BY DEF IInv, CallsKnowMutex, DisinheritAfterTimeout
<1>2. HighestWaiting(m) \in Nat
  <2>1. xTasksWaitingToReceive[m] \in Seq(Tasks)
    BY <1>1 DEF IInv, TypeOK
  <2>2. xTasksWaitingToReceive[m] # <<>> => Head(xTasksWaitingToReceive[m]) \in Tasks
    BY <2>1
  <2> QED BY <2>2, MutexAssumption DEF HighestWaiting, IInv, TypeOK
<1>3. /\ uxPriority' \in [Tasks -> Nat] /\ HeldCounted' /\ BaseWhenNoneHeld'
      /\ uxTopReadyPriority' \subseteq Nat
  <2>1. CASE changes
    <3>1. h \in Tasks
      BY <2>1, <1>1, HolderHolds DEF IInv
    <3>2. p \in Nat
      BY <3>1, <1>2, MutexAssumption
    <3>3. /\ uxPriority' = [uxPriority EXCEPT ![h] = p]
          /\ uxTopReadyPriority' = BitsMoved(h, p, p)
      BY <2>1 DEF DisinheritAfterTimeout
    <3> QED BY <2>1, <3>1, <3>2, <3>3, <1>1, HolderPriority, BitsType
            DEF DisinheritAfterTimeout, mutexVars, IInv
  <2>2. CASE ~changes
    <3>1. uxPriority' = uxPriority /\ uxTopReadyPriority' = uxTopReadyPriority
      BY <2>2 DEF DisinheritAfterTimeout
    <3> QED BY <3>1, SameHeldAndPriority
            DEF DisinheritAfterTimeout, mutexVars, IInv, TypeOK
  <2> QED BY <2>1, <2>2
<1>4. TypeOK'
  BY <1>3 DEF DisinheritAfterTimeout, Goto, Places, schedVars, mutexVars, IInv,
              TypeOK
<1>5. CallsKnowMutex'
  BY DEF DisinheritAfterTimeout, Goto, IInv, TypeOK, CallsKnowMutex
<1> QED BY <1>3, <1>4, <1>5 DEF IInv

LEMMA GiveIInv ==
    ASSUME IInv, NEW t \in Tasks, NEW m \in Mutexes, Give(t, m)
    PROVE  IInv'
<1> DEFINE list == xTasksWaitingToReceive[m]
<1>1. xMutexHolder[m] = t /\ m \in Held(t)
  BY DEF Give, Held
<1>2. uxMutexesHeld[t] \in Nat \ {0}
  BY <1>1, HeldIffCounted DEF IInv, TypeOK
<1>3. Held(t)' = Held(t) \ {m}
  BY MutexAssumption DEF Give, Held, IInv, TypeOK
<1>4. \A u \in Tasks \ {t} : Held(u)' = Held(u)
  BY <1>1, MutexAssumption DEF Give, Held, IInv, TypeOK
<1>5. HeldCounted'
  <2>1. Cardinality(Held(t)') = Cardinality(Held(t)) - 1
    BY <1>1, <1>3, HeldFinite, FS_RemoveElement
  <2>2. uxMutexesHeld'[t] = Cardinality(Held(t))'
    BY <2>1 DEF Give, IInv, TypeOK, HeldCounted
  <2>3. \A u \in Tasks \ {t} : uxMutexesHeld'[u] = Cardinality(Held(u))'
    BY <1>4 DEF Give, IInv, TypeOK, HeldCounted
  <2> QED BY <2>2, <2>3 DEF HeldCounted
<1>6. /\ uxPriority' = IF GivesBack(t)
                       THEN [uxPriority EXCEPT ![t] = BasePriority[t]]
                       ELSE uxPriority
      /\ BasePriority[t] \in Nat
  BY MutexAssumption DEF Give
<1>7. BaseWhenNoneHeld'
  <2> SUFFICES ASSUME NEW u \in Tasks, Held(u)' = {}
               PROVE  uxPriority'[u] = BasePriority[u]
    BY DEF BaseWhenNoneHeld
  <2>1. CASE u # t
    BY <2>1, <1>4, <1>6 DEF IInv, TypeOK, BaseWhenNoneHeld
  <2>2. CASE u = t
    <3>1. Cardinality(Held(t))' = 0
      BY <2>2, FS_EmptySet
    <3>2. uxMutexesHeld'[t] = 0
      BY <3>1, <1>5 DEF HeldCounted
    <3>3. uxMutexesHeld[t] = 1
      BY <3>2, <1>2 DEF Give, IInv, TypeOK
    <3> QED BY <2>2, <3>3, <1>6 DEF GivesBack, IInv, TypeOK
  <2> QED BY <2>1, <2>2
<1>8. TypeOK'
  <2> DEFINE bits == IF GivesBack(t)
                     THEN BitsMoved(t, BasePriority[t], uxPriority[t])
                     ELSE uxTopReadyPriority
  <2>1. bits \subseteq Nat
    BY <1>6, BitsType DEF IInv, TypeOK
  <2>2. uxPriority' \in [Tasks -> Nat]
    BY <1>6 DEF IInv, TypeOK
  <2>3. /\ xMutexHolder' \in [Mutexes -> Tasks \cup {Nobody}]
        /\ uxMutexesHeld' \in [Tasks -> Nat]
    BY <1>2 DEF Give, IInv, TypeOK
  <2>4. list \in Seq(Tasks)
    BY DEF IInv, TypeOK
  <2>5. CASE list = <<>>
    <3>1. /\ pendSV' \in BOOLEAN /\ uxTopReadyPriority' = bits
          /\ UNCHANGED <<ready, xTasksWaitingToReceive>>
      BY <2>5 DEF Give, GivesBack
    <3> QED BY <2>1, <2>2, <2>3, <3>1 DEF Give, callVars, IInv, TypeOK
  <2>6. CASE list # <<>>
    <3>1. Head(list) \in Tasks /\ Tail(list) \in Seq(Tasks)
      BY <2>4, <2>6
    <3>2. /\ xTasksWaitingToReceive' =
               [xTasksWaitingToReceive EXCEPT ![m] = Tail(list)]
          /\ ready' = ready \cup {Head(list)}
          /\ uxTopReadyPriority' = bits \cup {uxPriority[Head(list)]}
          /\ pendSV' \in BOOLEAN
      BY <2>6 DEF Give
    <3>3. /\ xTasksWaitingToReceive' \in [Mutexes -> Seq(Tasks)]
          /\ ready' \subseteq Tasks
      BY <3>1, <3>2 DEF IInv, TypeOK
    <3>4. uxTopReadyPriority' \subseteq Nat
      BY <2>1, <3>1, <3>2 DEF IInv, TypeOK
    <3>5. UNCHANGED <<pxCurrentTCB, pc, want, wait, xInheritanceOccurred>>
      BY DEF Give, callVars
    <3> QED BY <2>2, <2>3, <3>2, <3>3, <3>4, <3>5 DEF IInv, TypeOK
  <2> QED BY <2>5, <2>6
<1>9. CallsKnowMutex'
  BY DEF Give, callVars, IInv, CallsKnowMutex
<1> QED BY <1>5, <1>7, <1>8, <1>9 DEF IInv

LEMMA TickIInv ==
    ASSUME IInv, NEW m \in Mutexes,
           NEW n \in 1 .. Len(xTasksWaitingToReceive[m]), Tick(m, n)
    PROVE  IInv'
<1> DEFINE t == xTasksWaitingToReceive[m][n]
<1>1. t \in Tasks
  BY DEF IInv, TypeOK
<1>2. Remove(xTasksWaitingToReceive[m], n) \in Seq(Tasks)
  BY RemoveType DEF IInv, TypeOK
<1>3. TypeOK'
  BY <1>1, <1>2, ZenonT(40) DEF Tick, IInv, TypeOK
<1>4. HeldCounted' /\ BaseWhenNoneHeld'
  BY SameHeldAndPriority DEF Tick
<1>5. CallsKnowMutex'
  BY DEF Tick, IInv, CallsKnowMutex
<1> QED BY <1>3, <1>4, <1>5 DEF IInv

\* The other actions touch neither a holder nor a priority.
LEMMA OtherIInv ==
    ASSUME IInv, NEW t \in Tasks,
           \/ TryFails(t) \/ SuspendTimesOut(t) \/ SuspendFindsFree(t)
           \/ Resume(t) \/ Recheck(t) \/ Sleep(t) \/ Wake(t)
           \/ SwitchContext(t) \/ UNCHANGED vars
           \/ \E m \in Mutexes, w \in Waits[t] : Take(t, m, w)
    PROVE  IInv'
<1> USE DEF schedVars, prioVars, mutexVars, callVars
<1>1. HeldCounted' /\ BaseWhenNoneHeld'
  BY SameHeldAndPriority
  DEF TryFails, SuspendTimesOut, SuspendFindsFree, Resume, Recheck, Sleep,
      Wake, SwitchContext, Take, vars
<1>2. TypeOK' /\ CallsKnowMutex'
  <2> USE DEF IInv, TypeOK, CallsKnowMutex, Goto, Places, Reset
  <2>1. CASE TryFails(t) \/ SuspendTimesOut(t) \/ SuspendFindsFree(t)
    BY <2>1 DEF TryFails, SuspendTimesOut, SuspendFindsFree
  <2>2. CASE Resume(t) \/ Recheck(t)
    BY <2>2 DEF Resume, Recheck
  <2>3. CASE SwitchContext(t)
    BY <2>3 DEF SwitchContext
  <2>4. CASE Sleep(t)
    BY <2>4 DEF Sleep
  <2>5. CASE Wake(t)
    BY <2>5 DEF Wake
  <2>6. CASE UNCHANGED vars
    BY <2>6 DEF vars
  <2>7. CASE \E m \in Mutexes, w \in Waits[t] : Take(t, m, w)
    <3>1. PICK m \in Mutexes, w \in Waits[t] : Take(t, m, w)
      BY <2>7
    <3>2. w \in {"zero", "finite", "infinite", "expired"}
      BY MutexAssumption
    <3> QED BY <3>1, <3>2 DEF Take
  <2> QED BY <2>1, <2>2, <2>3, <2>4, <2>5, <2>6, <2>7
<1> QED BY <1>1, <1>2 DEF IInv

\* IInv is inductive.
THEOREM Invariance == Spec => []IInv
<1>1. IInv /\ [Next]_vars => IInv'
  <2> SUFFICES ASSUME IInv, [Next]_vars PROVE IInv'
    OBVIOUS
  <2>1. CASE UNCHANGED vars
    BY <2>1, OtherIInv, MutexAssumption
  <2>2. ASSUME NEW t \in Tasks,
               TaskStep(t) \/ Sleep(t) \/ Wake(t) \/ SwitchContext(t)
        PROVE  IInv'
    BY <2>2, OtherIInv, TryTakesIInv, ParkIInv, DisinheritIInv DEF TaskStep
  <2>3. ASSUME NEW t \in Tasks, \E m \in Mutexes, w \in Waits[t] : Take(t, m, w)
        PROVE  IInv'
    BY <2>3, OtherIInv
  <2>4. ASSUME NEW t \in Tasks, NEW m \in Mutexes, Give(t, m) PROVE IInv'
    BY <2>4, GiveIInv
  <2>5. ASSUME NEW m \in Mutexes,
               NEW n \in 1 .. Len(xTasksWaitingToReceive[m]), Tick(m, n)
        PROVE  IInv'
    BY <2>5, TickIInv
  <2> QED BY <2>1, <2>2, <2>3, <2>4, <2>5 DEF Next
<1> QED BY <1>1, InitIInv, PTL DEF Spec

\* Every variable of the mutexes keeps its type.
THEOREM TypeCorrect == Spec => []TypeOK
<1>1. IInv => TypeOK
  BY DEF IInv
<1> QED BY <1>1, Invariance, PTL

\* Whatever tasks, mutexes and waits there are, a task's count of held mutexes
\* (uxMutexesHeld) is what it holds.
THEOREM HeldIsCounted == Spec => []HeldCounted
<1>1. IInv => HeldCounted
  BY DEF IInv
<1> QED BY <1>1, Invariance, PTL

\* No inherited priority outlives the mutexes it was inherited for: a task that
\* holds none has its base priority.
THEOREM PriorityComesBack == Spec => []BaseWhenNoneHeld
<1>1. IInv => BaseWhenNoneHeld
  BY DEF IInv
<1> QED BY <1>1, Invariance, PTL

-----------------------------------------------------------------------------
(* A flat use of the mutexes.                                                *)

\* A task takes one mutex at a time.
FlatUse == \A t \in Tasks : \A m, n \in Uses[t] : m = n

InCall == {"try", "suspend", "parked", "recheck", "disinherit"}

\* Who holds a mutex is outside of any call, so a waiter has its base priority.
HoldersAreOutside ==
    /\ \A t \in Tasks : Held(t) # {} => pc[t] \in {"user", "asleep"}
    /\ \A t \in Tasks : Held(t) \subseteq Uses[t]
    /\ \A t \in Tasks : pc[t] \in InCall => want[t] \in Uses[t]

\* A task is on the ready list, or on the event list of the mutex it parked for,
\* or asleep.
ListsConsistent ==
    /\ \A m \in Mutexes : \A u \in Waiters(m) :
          pc[u] = "parked" /\ want[u] = m /\ u \notin ready
    /\ \A u \in Tasks \ ready :
          pc[u] = "asleep" \/ (pc[u] = "parked" /\ u \in Waiters(want[u]))

\* An event list is in the order of the priorities, and names no task twice.
Sorted(list) ==
    \A i, j \in 1 .. Len(list) :
        i < j => uxPriority[list[i]] >= uxPriority[list[j]] /\ list[i] # list[j]

ListsSorted == \A m \in Mutexes : Sorted(xTasksWaitingToReceive[m])

AboveBase == \A t \in Tasks : uxPriority[t] >= BasePriority[t]

\* Task u lent its priority to holder h and has yet to take it back: it will,
\* unless it gets the mutex.
Lends(u, h) ==
    /\ uxPriority[u] = uxPriority[h] /\ want[u] \in Held(h)
    /\ xInheritanceOccurred[u]
    /\ \/ pc[u] \in {"parked", "suspend", "recheck", "disinherit"}
       \/ pc[u] = "try" /\ wait[u] # "zero"

Lent == \A h \in Tasks : uxPriority[h] # BasePriority[h] => \E u \in Tasks : Lends(u, h)

\* A waiter more urgent than the holder's base knows that it lent its priority.
WaitersKnow ==
    \A m \in Mutexes : \A u \in Waiters(m) :
        xMutexHolder[m] # Nobody /\ BasePriority[xMutexHolder[m]] < uxPriority[u]
            => xInheritanceOccurred[u]

\* While a mutex with waiters is free, the most urgent of them is ready and on
\* its way to it, ...
WokenFirst ==
    \A m \in Mutexes : xMutexHolder[m] = Nobody /\ Waiters(m) # {} =>
        \E u \in ready :
            /\ want[u] = m /\ pc[u] \in {"parked", "try", "suspend", "recheck"}
            /\ \A v \in Waiters(m) : uxPriority[v] <= uxPriority[u]

\* ... and nobody takes it who is less urgent.
CurrentAbove ==
    /\ ~pendSV => pxCurrentTCB \in ready
    /\ \A m \in Mutexes : ~pendSV /\ m \in Uses[pxCurrentTCB] /\ xMutexHolder[m] = Nobody =>
          \A v \in Waiters(m) : uxPriority[v] <= uxPriority[pxCurrentTCB]

\* Who is parked has a wait left, or is told that it ended.
ParkedWaits == \A t \in Tasks : pc[t] = "parked" => wait[t] # "zero"

FlatInv ==
    /\ HoldersAreOutside /\ ListsConsistent /\ ListsSorted /\ AboveBase
    /\ NoInversion /\ Lent /\ WaitersKnow /\ WokenFirst /\ CurrentAbove
    /\ ParkedWaits /\ BitsNameReadyLists

-----------------------------------------------------------------------------
(* Event lists and the bit map.                                              *)

LEMMA Inserted ==
    ASSUME NEW list \in Seq(Tasks), NEW x \in Tasks, NEW n \in 0 .. Len(list)
    PROVE  /\ Insert(list, x, n) \in Seq(Tasks) /\ Len(Insert(list, x, n)) = Len(list) + 1
           /\ \A i \in 1 .. Len(list) + 1 :
                 Insert(list, x, n)[i] = IF i <= n THEN list[i]
                                         ELSE IF i = n + 1 THEN x ELSE list[i - 1]
<1> DEFINE a == SubSeq(list, 1, n)
           b == SubSeq(list, n + 1, Len(list))
<1>1. /\ a \in Seq(Tasks) /\ Len(a) = n /\ \A i \in 1 .. n : a[i] = list[i]
      /\ b \in Seq(Tasks) /\ Len(b) = Len(list) - n
      /\ \A i \in 1 .. Len(list) - n : b[i] = list[n + i]
  OBVIOUS
<1> HIDE DEF a, b
<1>2. /\ a \o <<x>> \in Seq(Tasks) /\ Len(a \o <<x>>) = n + 1
      /\ \A i \in 1 .. n + 1 : (a \o <<x>>)[i] = IF i <= n THEN list[i] ELSE x
  BY <1>1
<1> DEFINE c == a \o <<x>>
<1> HIDE DEF c
<1>3. /\ c \o b \in Seq(Tasks) /\ Len(c \o b) = Len(list) + 1
      /\ \A i \in 1 .. Len(list) + 1 :
            (c \o b)[i] = IF i <= n + 1 THEN c[i] ELSE b[i - (n + 1)]
  BY <1>1, <1>2 DEF c
<1>4. \A i \in 1 .. Len(list) + 1 : i > n + 1 => b[i - (n + 1)] = list[i - 1]
  <2> SUFFICES ASSUME NEW i \in 1 .. Len(list) + 1, i > n + 1
               PROVE  b[i - (n + 1)] = list[i - 1]
    OBVIOUS
  <2>1. i - (n + 1) \in 1 .. Len(list) - n /\ n + (i - (n + 1)) = i - 1
    OBVIOUS
  <2> QED BY <1>1, <2>1
<1>5. Insert(list, x, n) = c \o b
  BY DEF Insert, a, b, c
<1>6. \A i \in 1 .. n + 1 : c[i] = IF i <= n THEN list[i] ELSE x
  BY <1>2 DEF c
<1>7. ASSUME NEW i \in 1 .. Len(list) + 1
      PROVE  (c \o b)[i] = IF i <= n THEN list[i] ELSE IF i = n + 1 THEN x ELSE list[i - 1]
  <2>1. CASE i <= n + 1
    <3>1. i \in 1 .. n + 1 /\ (c \o b)[i] = c[i]
      BY <1>3, <2>1
    <3>2. (c \o b)[i] = IF i <= n THEN list[i] ELSE x
      BY <3>1, <1>6
    <3>3. i <= n \/ i = n + 1
      BY <2>1
    <3> QED BY <3>2, <3>3
  <2>2. CASE i > n + 1
    <3>1. (c \o b)[i] = b[i - (n + 1)]
      BY <1>3, <2>2
    <3>2. (c \o b)[i] = list[i - 1]
      BY <3>1, <1>4, <2>2
    <3>3. ~(i <= n) /\ i # n + 1
      <4>1. n \in Nat /\ i \in Nat
        OBVIOUS
      <4> QED BY <4>1, <2>2
    <3> QED BY <3>2, <3>3, Zenon
  <2>3. i <= n + 1 \/ i > n + 1
    <3>1. n \in Nat /\ i \in Nat
      OBVIOUS
    <3> QED BY <3>1
  <2> QED BY <2>1, <2>2, <2>3, Zenon
<1> QED BY <1>3, <1>5, <1>7

LEMMA Removed ==
    ASSUME NEW list \in Seq(Tasks), NEW n \in 1 .. Len(list)
    PROVE  /\ Remove(list, n) \in Seq(Tasks) /\ Len(Remove(list, n)) = Len(list) - 1
           /\ \A i \in 1 .. Len(list) - 1 :
                 Remove(list, n)[i] = IF i < n THEN list[i] ELSE list[i + 1]
<1> DEFINE a == SubSeq(list, 1, n - 1)
           b == SubSeq(list, n + 1, Len(list))
<1>1. /\ a \in Seq(Tasks) /\ Len(a) = n - 1 /\ \A i \in 1 .. n - 1 : a[i] = list[i]
      /\ b \in Seq(Tasks) /\ Len(b) = Len(list) - n
      /\ \A i \in 1 .. Len(list) - n : b[i] = list[n + i]
  OBVIOUS
<1> HIDE DEF a, b
<1>2. /\ a \o b \in Seq(Tasks) /\ Len(a \o b) = Len(list) - 1
      /\ \A i \in 1 .. Len(list) - 1 : (a \o b)[i] = IF i <= n - 1 THEN a[i] ELSE b[i - (n - 1)]
  <2>1. /\ a \o b \in Seq(Tasks) /\ Len(a \o b) = Len(a) + Len(b)
        /\ \A i \in 1 .. Len(a) + Len(b) :
              (a \o b)[i] = IF i <= Len(a) THEN a[i] ELSE b[i - Len(a)]
    BY <1>1, ConcatProperties
  <2>2. Len(a) + Len(b) = Len(list) - 1
    BY <1>1
  <2> QED BY <1>1, <2>1, <2>2
<1>3. \A i \in 1 .. Len(list) - 1 : i > n - 1 => b[i - (n - 1)] = list[i + 1]
  <2> SUFFICES ASSUME NEW i \in 1 .. Len(list) - 1, i > n - 1
               PROVE  b[i - (n - 1)] = list[i + 1]
    OBVIOUS
  <2>1. i - (n - 1) \in 1 .. Len(list) - n /\ n + (i - (n - 1)) = i + 1
    OBVIOUS
  <2> QED BY <1>1, <2>1
<1>4. Remove(list, n) = a \o b
  BY DEF Remove, a, b
<1>5. \A i \in 1 .. Len(list) - 1 : (a \o b)[i] = IF i < n THEN list[i] ELSE list[i + 1]
  <2> SUFFICES ASSUME NEW i \in 1 .. Len(list) - 1
               PROVE  (a \o b)[i] = IF i < n THEN list[i] ELSE list[i + 1]
    OBVIOUS
  <2>1. CASE i < n
    <3>1. i \in 1 .. n - 1 /\ i <= n - 1
      BY <2>1
    <3>2. (a \o b)[i] = a[i] /\ a[i] = list[i]
      BY <1>1, <1>2, <3>1
    <3> QED BY <2>1, <3>2
  <2>2. CASE i >= n
    BY <1>2, <1>3, <2>2
  <2>3. i < n \/ i >= n
    OBVIOUS
  <2> QED BY <2>1, <2>2, <2>3
<1> QED BY <1>2, <1>4, <1>5

Elems(list) == {list[i] : i \in 1 .. Len(list)}

LEMMA WaitersAre == \A m : Waiters(m) = Elems(xTasksWaitingToReceive[m])
  BY DEF Waiters, Elems

\* A sorted insertion of a newcomer, and a removal, keep a list in order.
LEMMA InsertSorts ==
    ASSUME NEW list \in Seq(Tasks), NEW x \in Tasks, NEW n \in 0 .. Len(list),
           uxPriority \in [Tasks -> Nat], Sorted(list), x \notin Elems(list),
           InsertsAfter(list, x, n)
    PROVE  Sorted(Insert(list, x, n)) /\ Elems(Insert(list, x, n)) = Elems(list) \cup {x}
<1> DEFINE new == Insert(list, x, n)
<1>1. /\ Len(new) = Len(list) + 1
      /\ \A i \in 1 .. Len(list) + 1 :
            new[i] = IF i <= n THEN list[i] ELSE IF i = n + 1 THEN x ELSE list[i - 1]
  BY Inserted
<1> HIDE DEF new
<1>2. Elems(new) = Elems(list) \cup {x}
  <2>1. \A i \in 1 .. Len(list) + 1 : new[i] \in Elems(list) \cup {x}
    <3> SUFFICES ASSUME NEW i \in 1 .. Len(list) + 1 PROVE new[i] \in Elems(list) \cup {x}
      OBVIOUS
    <3>1. CASE i <= n
      BY <1>1, <3>1 DEF Elems
    <3>2. CASE i = n + 1
      BY <1>1, <3>2
    <3>3. CASE i > n + 1
      <4>1. i - 1 \in 1 .. Len(list) /\ new[i] = list[i - 1]
        BY <1>1, <3>3
      <4> QED BY <4>1 DEF Elems
    <3> QED BY <3>1, <3>2, <3>3
  <2>2. \A i \in 1 .. Len(list) : list[i] \in Elems(new)
    <3> SUFFICES ASSUME NEW i \in 1 .. Len(list) PROVE list[i] \in Elems(new)
      OBVIOUS
    <3>1. CASE i <= n
      BY <1>1, <3>1 DEF Elems
    <3>2. CASE i > n
      <4>1. i + 1 \in 1 .. Len(new) /\ (i + 1) - 1 = i /\ ~ (i + 1 <= n) /\ i + 1 # n + 1
        BY <1>1, <3>2
      <4>2. new[i + 1] = list[i]
        BY <1>1, <4>1
      <4> QED BY <4>1, <4>2 DEF Elems
    <3> QED BY <3>1, <3>2
  <2>3. x \in Elems(new)
    <3>1. n + 1 \in 1 .. Len(new) /\ new[n + 1] = x
      BY <1>1
    <3> QED BY <3>1 DEF Elems
  <2> QED BY <1>1, <2>1, <2>2, <2>3, ZenonT(40) DEF Elems
<1>3. \A i \in 1 .. Len(list) : list[i] \in Tasks /\ uxPriority[list[i]] \in Nat /\ list[i] # x
  BY DEF Elems
<1>4. /\ \A i \in 1 .. Len(list) : i <= n => uxPriority[list[i]] >= uxPriority[x]
      /\ \A i \in 1 .. Len(list) : i > n => uxPriority[list[i]] <= uxPriority[x]
  <2>1. \A i \in 1 .. Len(list) : i <= n => uxPriority[list[i]] >= uxPriority[x]
    BY DEF InsertsAfter
  <2>2. n < Len(list) => n + 1 \in 1 .. Len(list) /\ uxPriority[list[n + 1]] < uxPriority[x]
    BY DEF InsertsAfter
  <2>3. \A i \in 1 .. Len(list) : i > n + 1 => uxPriority[list[n + 1]] >= uxPriority[list[i]]
    BY DEF Sorted
  <2> QED BY <2>1, <2>2, <2>3, <1>3
<1>5. Sorted(new)
  <2> SUFFICES ASSUME NEW i \in 1 .. Len(list) + 1, NEW j \in 1 .. Len(list) + 1, i < j
               PROVE  uxPriority[new[i]] >= uxPriority[new[j]] /\ new[i] # new[j]
    BY <1>1 DEF Sorted
  <2>1. CASE j <= n
    <3>1. new[i] = list[i] /\ new[j] = list[j] /\ i \in 1 .. Len(list) /\ j \in 1 .. Len(list)
      BY <1>1, <2>1
    <3> QED BY <3>1 DEF Sorted
  <2>2. CASE j = n + 1
    <3>1. new[i] = list[i] /\ new[j] = x /\ i \in 1 .. Len(list) /\ i <= n
      BY <1>1, <2>2
    <3> QED BY <3>1, <1>3, <1>4
  <2>3. CASE j > n + 1 /\ i = n + 1
    <3>1. new[i] = x /\ new[j] = list[j - 1] /\ j - 1 \in 1 .. Len(list) /\ j - 1 > n
      BY <1>1, <2>3
    <3> QED BY <3>1, <1>3, <1>4
  <2>4. CASE j > n + 1 /\ i <= n
    <3>1. new[i] = list[i] /\ new[j] = list[j - 1] /\ i \in 1 .. Len(list)
          /\ j - 1 \in 1 .. Len(list) /\ i < j - 1
      BY <1>1, <2>4
    <3> QED BY <3>1 DEF Sorted
  <2>5. CASE i > n + 1
    <3>1. new[i] = list[i - 1] /\ new[j] = list[j - 1] /\ i - 1 \in 1 .. Len(list)
          /\ j - 1 \in 1 .. Len(list) /\ i - 1 < j - 1
      BY <1>1, <2>5
    <3> QED BY <3>1 DEF Sorted
  <2> QED BY <2>1, <2>2, <2>3, <2>4, <2>5
<1> QED BY <1>2, <1>5 DEF new

LEMMA RemoveSorts ==
    ASSUME NEW list \in Seq(Tasks), NEW n \in 1 .. Len(list), Sorted(list)
    PROVE  Sorted(Remove(list, n)) /\ Elems(Remove(list, n)) = Elems(list) \ {list[n]}
<1> DEFINE new == Remove(list, n)
<1>1. /\ Len(new) = Len(list) - 1
      /\ \A i \in 1 .. Len(list) - 1 : new[i] = IF i < n THEN list[i] ELSE list[i + 1]
  BY Removed
<1> HIDE DEF new
<1>2. \A i, j \in 1 .. Len(list) : i # j => list[i] # list[j]
  <2> SUFFICES ASSUME NEW i \in 1 .. Len(list), NEW j \in 1 .. Len(list), i # j
               PROVE  list[i] # list[j]
    OBVIOUS
  <2>1. i < j \/ j < i
    OBVIOUS
  <2> QED BY <2>1 DEF Sorted
<1>3. \A i \in 1 .. Len(list) - 1 : new[i] \in Elems(list) \ {list[n]}
  <2> SUFFICES ASSUME NEW i \in 1 .. Len(list) - 1 PROVE new[i] \in Elems(list) \ {list[n]}
    OBVIOUS
  <2>1. CASE i < n
    <3>1. i \in 1 .. Len(list) /\ i # n /\ new[i] = list[i]
      BY <1>1, <2>1
    <3> QED BY <1>2, <3>1 DEF Elems
  <2>2. CASE i >= n
    <3>1. i + 1 \in 1 .. Len(list) /\ i + 1 # n /\ new[i] = list[i + 1]
      BY <1>1, <2>2
    <3> QED BY <1>2, <3>1 DEF Elems
  <2> QED BY <2>1, <2>2
<1>4. \A i \in 1 .. Len(list) : i # n => list[i] \in Elems(new)
  <2> SUFFICES ASSUME NEW i \in 1 .. Len(list), i # n PROVE list[i] \in Elems(new)
    OBVIOUS
  <2>1. CASE i < n
    <3>1. i \in 1 .. Len(new) /\ new[i] = list[i]
      BY <1>1, <2>1
    <3> QED BY <3>1 DEF Elems
  <2>2. CASE i > n
    <3>1. i - 1 \in 1 .. Len(new) /\ ~ (i - 1 < n) /\ (i - 1) + 1 = i
      BY <1>1, <2>2
    <3>2. new[i - 1] = list[i]
      BY <1>1, <3>1
    <3> QED BY <3>1, <3>2 DEF Elems
  <2> QED BY <2>1, <2>2
<1>5. Elems(new) = Elems(list) \ {list[n]}
  BY <1>1, <1>3, <1>4 DEF Elems
<1>6. Sorted(new)
  <2> SUFFICES ASSUME NEW i \in 1 .. Len(list) - 1, NEW j \in 1 .. Len(list) - 1, i < j
               PROVE  uxPriority[new[i]] >= uxPriority[new[j]] /\ new[i] # new[j]
    BY <1>1 DEF Sorted
  <2> DEFINE a == IF i < n THEN i ELSE i + 1
             b == IF j < n THEN j ELSE j + 1
  <2>1. a \in 1 .. Len(list) /\ b \in 1 .. Len(list) /\ a < b
    OBVIOUS
  <2>2. new[i] = list[a] /\ new[j] = list[b]
    BY <1>1
  <2> QED BY <2>1, <2>2 DEF Sorted
<1> QED BY <1>5, <1>6 DEF new

\* The head of a list that is not empty is its most urgent task, and the rest is
\* the list without it.
LEMMA HeadTail ==
    ASSUME NEW list \in Seq(Tasks), list # <<>>, uxPriority \in [Tasks -> Nat], Sorted(list)
    PROVE  /\ Head(list) \in Elems(list)
           /\ \A u \in Elems(list) : uxPriority[u] <= uxPriority[Head(list)]
           /\ Tail(list) \in Seq(Tasks) /\ Sorted(Tail(list))
           /\ Elems(Tail(list)) = Elems(list) \ {Head(list)}
<1>1. 1 \in 1 .. Len(list) /\ Head(list) = list[1] /\ Len(list) \in Nat
  OBVIOUS
<1>2. Head(list) \in Elems(list)
  BY <1>1 DEF Elems
<1>3. \A i \in 1 .. Len(list) : uxPriority[list[i]] <= uxPriority[list[1]]
  <2> SUFFICES ASSUME NEW i \in 1 .. Len(list) PROVE uxPriority[list[i]] <= uxPriority[list[1]]
    OBVIOUS
  <2>1. uxPriority[list[i]] \in Nat
    OBVIOUS
  <2>2. CASE i = 1
    BY <2>1, <2>2
  <2>3. CASE 1 < i
    BY <1>1, <2>3 DEF Sorted
  <2> QED BY <2>2, <2>3
<1>4. Tail(list) = Remove(list, 1)
  <2>1. Tail(list) \in Seq(Tasks) /\ Len(Tail(list)) = Len(list) - 1
        /\ \A i \in 1 .. Len(list) - 1 : Tail(list)[i] = list[i + 1]
    OBVIOUS
  <2>2. Remove(list, 1) \in Seq(Tasks) /\ Len(Remove(list, 1)) = Len(list) - 1
        /\ \A i \in 1 .. Len(list) - 1 : Remove(list, 1)[i] = list[i + 1]
    BY <1>1, Removed
  <2> HIDE DEF Remove
  <2> QED BY <2>1, <2>2, SeqEqual
<1>5. Tail(list) \in Seq(Tasks)
  OBVIOUS
<1>6. Sorted(Tail(list)) /\ Elems(Tail(list)) = Elems(list) \ {Head(list)}
  BY <1>1, <1>4, RemoveSorts
<1>7. \A u \in Elems(list) : uxPriority[u] <= uxPriority[Head(list)]
  BY <1>1, <1>3 DEF Elems
<1> QED BY <1>2, <1>5, <1>6, <1>7

\* BitsMoved names the lists that hold a task once h has moved to p, if the bit
\* of the list that it leaves is the one to be cleared, or that list keeps a task.
LEMMA BitsMovedRight ==
    ASSUME uxPriority \in [Tasks -> Nat], ready \subseteq Tasks, BitsNameReadyLists,
           NEW h \in Tasks, NEW p \in Nat, NEW cleared,
           uxPriority' = [uxPriority EXCEPT ![h] = p],
           cleared = uxPriority[h] \/ \E u \in ready \ {h} : uxPriority[u] = uxPriority[h]
    PROVE  BitsMoved(h, p, cleared) = {uxPriority'[u] : u \in ready}
<1>1. \A u \in ready \ {h} : uxPriority'[u] = uxPriority[u]
  OBVIOUS
<1>2. uxPriority'[h] = p
  OBVIOUS
<1>3. CASE h \notin ready
  BY <1>1, <1>3 DEF BitsMoved, BitsNameReadyLists
<1>4. CASE h \in ready /\ \E u \in ready \ {h} : uxPriority[u] = uxPriority[h]
  <2>1. BitsMoved(h, p, cleared) = {p} \cup uxTopReadyPriority
    BY <1>4 DEF BitsMoved
  <2>2. {uxPriority[u] : u \in ready} = {uxPriority[u] : u \in ready \ {h}}
    BY <1>4
  <2> QED BY <1>1, <1>2, <1>4, <2>1, <2>2 DEF BitsNameReadyLists
<1>5. CASE h \in ready /\ ~ \E u \in ready \ {h} : uxPriority[u] = uxPriority[h]
  <2>1. BitsMoved(h, p, cleared) = {p} \cup (uxTopReadyPriority \ {uxPriority[h]})
    BY <1>5 DEF BitsMoved, Reset
  <2>2. uxTopReadyPriority \ {uxPriority[h]} = {uxPriority[u] : u \in ready \ {h}}
    BY <1>5 DEF BitsNameReadyLists
  <2> QED BY <1>1, <1>2, <1>5, <2>1, <2>2
<1> QED BY <1>3, <1>4, <1>5

-----------------------------------------------------------------------------
(* Steps.                                                                    *)

Flat == IInv /\ FlatUse /\ FlatInv

\* What a flat use says of one task or one mutex at a time.
LEMMA FlatFacts ==
    ASSUME Flat
    PROVE  /\ \A t \in Tasks : pc[t] \in InCall => Held(t) = {} /\ uxPriority[t] = BasePriority[t]
           /\ \A m \in Mutexes : \A u \in Waiters(m) :
                 /\ u \in Tasks /\ pc[u] = "parked" /\ want[u] = m /\ u \notin ready
                 /\ Held(u) = {} /\ uxPriority[u] = BasePriority[u]
           /\ \A m \in Mutexes : xMutexHolder[m] # Nobody =>
                 /\ xMutexHolder[m] \in Tasks /\ Held(xMutexHolder[m]) = {m}
                 /\ uxMutexesHeld[xMutexHolder[m]] = 1
                 /\ pc[xMutexHolder[m]] \in {"user", "asleep"}
           /\ uxPriority \in [Tasks -> Nat] /\ BasePriority \in [Tasks -> Nat]
           /\ ready \subseteq Tasks /\ pxCurrentTCB \in Tasks
           /\ \A m \in Mutexes : xTasksWaitingToReceive[m] \in Seq(Tasks)
<1>1. /\ uxPriority \in [Tasks -> Nat] /\ BasePriority \in [Tasks -> Nat]
      /\ ready \subseteq Tasks /\ pxCurrentTCB \in Tasks
      /\ \A m \in Mutexes : xTasksWaitingToReceive[m] \in Seq(Tasks)
  BY MutexAssumption DEF Flat, IInv, TypeOK
<1>2. \A t \in Tasks : pc[t] \in InCall => Held(t) = {} /\ uxPriority[t] = BasePriority[t]
  BY DEF Flat, FlatInv, HoldersAreOutside, InCall, IInv, BaseWhenNoneHeld
<1>3. \A m \in Mutexes : \A u \in Waiters(m) :
          /\ u \in Tasks /\ pc[u] = "parked" /\ want[u] = m /\ u \notin ready
  BY <1>1 DEF Flat, FlatInv, ListsConsistent, Waiters
<1>4. ASSUME NEW m \in Mutexes, xMutexHolder[m] # Nobody
      PROVE  /\ xMutexHolder[m] \in Tasks /\ Held(xMutexHolder[m]) = {m}
             /\ uxMutexesHeld[xMutexHolder[m]] = 1
             /\ pc[xMutexHolder[m]] \in {"user", "asleep"}
  <2> DEFINE h == xMutexHolder[m]
  <2>1. h \in Tasks /\ m \in Held(h)
    BY <1>4, HolderHolds DEF Flat, IInv
  <2>2. Held(h) = {m}
    BY <2>1 DEF Flat, FlatInv, HoldersAreOutside, FlatUse
  <2>3. uxMutexesHeld[h] = 1
    <3>1. Cardinality({m}) = 1
      BY FS_Singleton
    <3>2. uxMutexesHeld[h] = Cardinality(Held(h))
      BY <2>1 DEF Flat, IInv, HeldCounted
    <3> QED BY <2>2, <3>1, <3>2
  <2> QED BY <2>1, <2>2, <2>3 DEF Flat, FlatInv, HoldersAreOutside
<1>5. \A m \in Mutexes : \A u \in Waiters(m) : Held(u) = {} /\ uxPriority[u] = BasePriority[u]
  BY <1>2, <1>3 DEF InCall
<1> QED BY <1>1, <1>2, <1>3, <1>4, <1>5

\* A step of a call that changes nothing but the caller's place and locals.
LEMMA CallStep ==
    ASSUME Flat, NEW t \in Tasks, t \in ready,
           UNCHANGED <<schedVars, prioVars, mutexVars>>,
           \A u \in Tasks \ {t} : /\ pc'[u] = pc[u] /\ want'[u] = want[u] /\ wait'[u] = wait[u]
                                  /\ xInheritanceOccurred'[u] = xInheritanceOccurred[u],
           Held(t) # {} => pc'[t] \in {"user", "asleep"}, pc'[t] # "parked",
           pc'[t] \in InCall => want'[t] \in Uses[t],
           \A h \in Tasks : Lends(t, h) =>
               /\ want'[t] = want[t] /\ xInheritanceOccurred'[t]
               /\ \/ pc'[t] \in {"parked", "suspend", "recheck", "disinherit"}
                  \/ pc'[t] = "try" /\ wait'[t] # "zero",
           want[t] \in Mutexes /\ xMutexHolder[want[t]] = Nobody
                /\ pc[t] \in {"parked", "try", "suspend", "recheck"} =>
               want'[t] = want[t] /\ pc'[t] \in {"parked", "try", "suspend", "recheck"}
    PROVE  FlatInv'
<1> USE DEF schedVars, prioVars, mutexVars
<1>1. \A u : Held(u)' = Held(u)
  BY DEF Held
<1>2. \A m : Waiters(m)' = Waiters(m)
  BY DEF Waiters
<1>3. \A m \in Mutexes : t \notin Waiters(m)
  BY FlatFacts
<1>4. HoldersAreOutside'
  BY <1>1 DEF Flat, FlatInv, HoldersAreOutside, InCall
<1>5. ListsConsistent'
  <2>1. \A m \in Mutexes : \A u \in Waiters(m) : u \in Tasks \ {t}
    BY <1>3, FlatFacts
  <2>2. \A m \in Mutexes : \A u \in Waiters(m) :
           pc'[u] = "parked" /\ want'[u] = m /\ u \notin ready
    BY <2>1 DEF Flat, FlatInv, ListsConsistent
  <2>3. \A u \in Tasks \ ready :
           pc'[u] = "asleep" \/ (pc'[u] = "parked" /\ u \in Waiters(want'[u]))
    BY DEF Flat, FlatInv, ListsConsistent
  <2> QED BY <1>2, <2>2, <2>3 DEF ListsConsistent
<1>6. ListsSorted' /\ AboveBase' /\ NoInversion' /\ BitsNameReadyLists'
  BY <1>2 DEF Flat, FlatInv, ListsSorted, Sorted, AboveBase, NoInversion, BitsNameReadyLists
<1>7. Lent'
  <2> SUFFICES ASSUME NEW h \in Tasks, uxPriority[h] # BasePriority[h]
               PROVE  \E u \in Tasks : Lends(u, h)'
    BY DEF Lent
  <2>1. PICK u \in Tasks : Lends(u, h)
    BY DEF Flat, FlatInv, Lent
  <2>2. Lends(u, h)'
    <3>1. CASE u = t
      BY <2>1, <3>1, <1>1 DEF Lends
    <3>2. CASE u # t
      BY <2>1, <3>2, <1>1 DEF Lends
    <3> QED BY <3>1, <3>2
  <2> QED BY <2>2
<1>8. WaitersKnow'
  <2>1. \A m \in Mutexes : \A u \in Waiters(m) : u \in Tasks \ {t}
    BY <1>3, FlatFacts
  <2> QED BY <1>2, <2>1 DEF Flat, FlatInv, WaitersKnow
<1>9. WokenFirst'
  <2> SUFFICES ASSUME NEW m \in Mutexes, xMutexHolder[m] = Nobody, Waiters(m) # {}
               PROVE  \E u \in ready :
                         /\ want'[u] = m /\ pc'[u] \in {"parked", "try", "suspend", "recheck"}
                         /\ \A v \in Waiters(m) : uxPriority[v] <= uxPriority[u]
    BY <1>2 DEF WokenFirst
  <2>1. PICK u \in ready : /\ want[u] = m /\ pc[u] \in {"parked", "try", "suspend", "recheck"}
                           /\ \A v \in Waiters(m) : uxPriority[v] <= uxPriority[u]
    BY DEF Flat, FlatInv, WokenFirst
  <2>2. u \in Tasks
    BY FlatFacts
  <2> QED BY <2>1, <2>2
<1>10. CurrentAbove'
  BY <1>2 DEF Flat, FlatInv, CurrentAbove
<1>11. ParkedWaits'
  BY DEF Flat, FlatInv, ParkedWaits
<1> QED BY <1>4, <1>5, <1>6, <1>7, <1>8, <1>9, <1>10, <1>11 DEF FlatInv

\* Who runs is on a ready list.
LEMMA RunningReady ==
    ASSUME Flat, NEW t, Running(t)
    PROVE  t \in ready /\ t = pxCurrentTCB /\ ~pendSV
  BY DEF Flat, FlatInv, CurrentAbove, Running

LEMMA TakeFlat ==
    ASSUME Flat, NEW t \in Tasks, NEW m \in Mutexes, NEW w \in Waits[t], Take(t, m, w)
    PROVE  FlatInv'
<1>1. t \in ready /\ pc[t] = "user" /\ m \in Uses[t] /\ \A n \in Held(t) : n < m
  BY RunningReady DEF Take
<1>2. Held(t) = {}
  <2>1. \A n \in Held(t) : n \in Uses[t]
    BY DEF Flat, FlatInv, HoldersAreOutside
  <2>2. \A n \in Held(t) : n = m /\ n < m /\ n \in Nat
    BY <1>1, <2>1, MutexAssumption DEF Flat, FlatUse, Held
  <2> QED BY <2>2
<1>3. /\ want' = [want EXCEPT ![t] = m] /\ wait' = [wait EXCEPT ![t] = w]
      /\ xInheritanceOccurred' = [xInheritanceOccurred EXCEPT ![t] = FALSE]
      /\ pc' = [pc EXCEPT ![t] = "try"] /\ UNCHANGED <<schedVars, prioVars, mutexVars>>
  BY DEF Take, Goto
<1>4. \A h \in Tasks : ~Lends(t, h)
  BY <1>1 DEF Lends
<1>5. /\ want'[t] = m /\ pc'[t] = "try"
      /\ \A u \in Tasks \ {t} : /\ pc'[u] = pc[u] /\ want'[u] = want[u] /\ wait'[u] = wait[u]
                               /\ xInheritanceOccurred'[u] = xInheritanceOccurred[u]
  BY <1>3 DEF Flat, IInv, TypeOK
<1> QED BY <1>1, <1>2, <1>3, <1>4, <1>5, CallStep

LEMMA TryFailsFlat ==
    ASSUME Flat, NEW t \in Tasks, TryFails(t)
    PROVE  FlatInv'
<1>1. t \in ready /\ pc[t] = "try" /\ xMutexHolder[want[t]] # Nobody /\ pc[t] \in InCall
  BY RunningReady DEF TryFails, InCall
<1>2. /\ pc' = [pc EXCEPT ![t] = IF wait[t] # "zero" THEN "suspend"
                                 ELSE IF xInheritanceOccurred[t] THEN "halted" ELSE "user"]
      /\ UNCHANGED <<schedVars, prioVars, mutexVars, want, wait, xInheritanceOccurred>>
  BY DEF TryFails, Goto
<1>3. Held(t) = {} /\ want[t] \in Uses[t]
  BY <1>1, FlatFacts DEF Flat, FlatInv, HoldersAreOutside
<1>4. \A h \in Tasks : Lends(t, h) => xInheritanceOccurred[t] /\ wait[t] # "zero"
  BY <1>1 DEF Lends
<1>5. /\ pc'[t] = IF wait[t] # "zero" THEN "suspend"
                  ELSE IF xInheritanceOccurred[t] THEN "halted" ELSE "user"
      /\ \A u \in Tasks \ {t} : pc'[u] = pc[u]
  BY <1>2 DEF Flat, IInv, TypeOK
<1> QED BY <1>1, <1>2, <1>3, <1>4, <1>5, CallStep DEF InCall

\* The other steps of the call, which stay in it or leave it with nothing lent.
LEMMA OtherCallSteps ==
    ASSUME Flat, NEW t \in Tasks,
           \/ SuspendTimesOut(t) \/ SuspendFindsFree(t) \/ Resume(t) \/ Recheck(t)
    PROVE  FlatInv'
<1>1. t \in ready /\ pc[t] \in {"suspend", "parked", "recheck"} /\ pc[t] \in InCall
  BY RunningReady DEF SuspendTimesOut, SuspendFindsFree, Resume, Recheck, InCall
<1>2. Held(t) = {} /\ want[t] \in Uses[t] /\ want[t] \in Mutexes
  BY <1>1, FlatFacts, MutexAssumption DEF Flat, FlatInv, HoldersAreOutside
<1>3. /\ UNCHANGED <<schedVars, prioVars, mutexVars, want, xInheritanceOccurred>>
      /\ \A u \in Tasks \ {t} : wait'[u] = wait[u] /\ pc'[u] = pc[u]
      /\ \/ pc[t] = "suspend" /\ pc'[t] = "recheck"
         \/ pc[t] = "suspend" /\ pc'[t] = "try" /\ xMutexHolder[want[t]] = Nobody
         \/ pc[t] = "parked" /\ pc'[t] = "try" /\ wait'[t] = wait[t]
         \/ pc[t] = "recheck" /\ pc'[t] = "try" /\ xMutexHolder[want[t]] = Nobody
         \/ pc[t] = "recheck" /\ pc'[t] = "disinherit" /\ xMutexHolder[want[t]] # Nobody
         \/ pc[t] = "recheck" /\ pc'[t] = "user" /\ xMutexHolder[want[t]] # Nobody
               /\ ~xInheritanceOccurred[t]
  BY DEF SuspendTimesOut, SuspendFindsFree, Resume, Recheck, Goto, Flat, IInv, TypeOK
<1>4. wait[t] # "zero" \/ pc[t] # "parked"
  BY DEF Flat, FlatInv, ParkedWaits
<1>5. \A h \in Tasks : Lends(t, h) => xInheritanceOccurred[t] /\ xMutexHolder[want[t]] # Nobody
  BY MutexAssumption DEF Lends, Held
<1> QED BY <1>1, <1>2, <1>3, <1>4, <1>5, CallStep DEF mutexVars

LEMMA TryTakesFlat ==
    ASSUME Flat, NEW t \in Tasks, TryTakes(t)
    PROVE  FlatInv'
<1> DEFINE m == want[t]
<1>1. /\ t \in ready /\ t = pxCurrentTCB /\ ~pendSV /\ pc[t] = "try" /\ pc[t] \in InCall
      /\ xMutexHolder[m] = Nobody
  BY RunningReady DEF TryTakes, InCall
<1>2. /\ xMutexHolder' = [xMutexHolder EXCEPT ![m] = t] /\ pc' = [pc EXCEPT ![t] = "user"]
      /\ UNCHANGED <<pxCurrentTCB, pendSV, ready, uxPriority, uxTopReadyPriority,
                     xTasksWaitingToReceive, want, wait, xInheritanceOccurred>>
  BY DEF TryTakes, Goto, schedVars, prioVars
<1>3. Held(t) = {} /\ uxPriority[t] = BasePriority[t] /\ m \in Uses[t] /\ m \in Mutexes
  BY <1>1, FlatFacts, MutexAssumption DEF Flat, FlatInv, HoldersAreOutside
<1>4. /\ Held(t)' = {m} /\ \A u \in Tasks \ {t} : Held(u)' = Held(u)
      /\ \A n \in Mutexes \ {m} : xMutexHolder'[n] = xMutexHolder[n]
      /\ xMutexHolder'[m] = t
  BY <1>1, <1>2, <1>3, MutexAssumption DEF Flat, IInv, TypeOK, Held
<1>5. \A n : Waiters(n)' = Waiters(n)
  BY <1>2 DEF Waiters
<1>6. /\ pc'[t] = "user" /\ \A u \in Tasks \ {t} : pc'[u] = pc[u]
      /\ \A n \in Mutexes : \A u \in Waiters(n) : u \in Tasks \ {t}
      /\ t # Nobody
  BY <1>1, <1>2, FlatFacts, MutexAssumption DEF Flat, IInv, TypeOK
<1>7. \A v \in Waiters(m) : uxPriority[v] <= uxPriority[t]
  BY <1>1, <1>3 DEF Flat, FlatInv, CurrentAbove
<1>8. HoldersAreOutside' /\ ParkedWaits'
  BY <1>2, <1>3, <1>4, <1>6 DEF Flat, FlatInv, HoldersAreOutside, ParkedWaits, InCall
<1>9. ListsConsistent'
  BY <1>1, <1>2, <1>5, <1>6 DEF Flat, FlatInv, ListsConsistent
<1>10. ListsSorted' /\ AboveBase' /\ BitsNameReadyLists'
  BY <1>2 DEF Flat, FlatInv, ListsSorted, Sorted, AboveBase, BitsNameReadyLists
<1>11. NoInversion'
  <2> SUFFICES ASSUME NEW n \in Mutexes, NEW v \in Waiters(n), xMutexHolder'[n] # Nobody
               PROVE  uxPriority[xMutexHolder'[n]] >= uxPriority[v]
    BY <1>2, <1>5 DEF NoInversion
  <2>1. CASE n = m
    BY <2>1, <1>4, <1>6, <1>7, FlatFacts
  <2>2. CASE n # m
    BY <2>2, <1>4 DEF Flat, FlatInv, NoInversion
  <2> QED BY <2>1, <2>2
<1>12. Lent'
  <2> SUFFICES ASSUME NEW h \in Tasks, uxPriority[h] # BasePriority[h]
               PROVE  \E u \in Tasks : Lends(u, h)'
    BY <1>2 DEF Lent
  <2>1. PICK u \in Tasks : Lends(u, h)
    BY DEF Flat, FlatInv, Lent
  <2>2. h # t /\ u # t
    <3>1. h # t
      BY <1>3
    <3>2. m \notin Held(h)
      BY <1>1, MutexAssumption DEF Held
    <3> QED BY <2>1, <3>1, <3>2 DEF Lends
  <2>3. Lends(u, h)'
    BY <2>1, <2>2, <1>2, <1>4, <1>6 DEF Lends
  <2> QED BY <2>3
<1>13. WaitersKnow'
  <2> SUFFICES ASSUME NEW n \in Mutexes, NEW v \in Waiters(n), xMutexHolder'[n] # Nobody,
                      BasePriority[xMutexHolder'[n]] < uxPriority[v]
               PROVE  xInheritanceOccurred[v]
    BY <1>2, <1>5 DEF WaitersKnow
  <2>1. n # m
    BY <1>3, <1>4, <1>6, <1>7, FlatFacts
  <2> QED BY <2>1, <1>4 DEF Flat, FlatInv, WaitersKnow
<1>14. WokenFirst'
  <2> SUFFICES ASSUME NEW n \in Mutexes, xMutexHolder'[n] = Nobody, Waiters(n) # {}
               PROVE  \E u \in ready :
                         /\ want[u] = n /\ pc'[u] \in {"parked", "try", "suspend", "recheck"}
                         /\ \A v \in Waiters(n) : uxPriority[v] <= uxPriority[u]
    BY <1>2, <1>5 DEF WokenFirst
  <2>1. n # m /\ xMutexHolder[n] = Nobody
    BY <1>4, <1>6
  <2>2. PICK u \in ready : /\ want[u] = n /\ pc[u] \in {"parked", "try", "suspend", "recheck"}
                           /\ \A v \in Waiters(n) : uxPriority[v] <= uxPriority[u]
    BY <2>1 DEF Flat, FlatInv, WokenFirst
  <2> QED BY <2>1, <2>2, <1>6, FlatFacts
<1>15. CurrentAbove'
  <2>1. \A n \in Mutexes : xMutexHolder'[n] = Nobody => xMutexHolder[n] = Nobody
    BY <1>4, <1>6
  <2> QED BY <1>1, <1>2, <1>5, <2>1 DEF Flat, FlatInv, CurrentAbove
<1> QED BY <1>8, <1>9, <1>10, <1>11, <1>12, <1>13, <1>14, <1>15 DEF FlatInv

\* Raising or lowering the priority of a holder concerns no waiter, nobody in a
\* call, and no other holder.
LEMMA HolderOnly ==
    ASSUME Flat, NEW m \in Mutexes, NEW h, h = xMutexHolder[m], h # Nobody,
           \A u \in Tasks \ {h} : uxPriority'[u] = uxPriority[u]
    PROVE  /\ \A u \in Tasks : pc[u] \in InCall => u # h /\ uxPriority'[u] = uxPriority[u]
           /\ \A n \in Mutexes : \A u \in Waiters(n) : u # h /\ uxPriority'[u] = uxPriority[u]
           /\ \A n \in Mutexes \ {m} : xMutexHolder[n] # h
<1>1. h \in Tasks /\ Held(h) = {m} /\ pc[h] \in {"user", "asleep"}
  BY FlatFacts
<1>2. \A u \in Tasks : pc[u] \in InCall => u # h
  BY <1>1 DEF InCall
<1>3. \A n \in Mutexes : \A u \in Waiters(n) : u \in Tasks /\ pc[u] \in InCall
  BY FlatFacts DEF InCall
<1>4. \A n \in Mutexes \ {m} : xMutexHolder[n] # h
  BY <1>1 DEF Held
<1> QED BY <1>2, <1>3, <1>4

\* The holder inherits what it needs to before the caller joins the waiters.
LEMMA ParkFlat ==
    ASSUME Flat, NEW t \in Tasks, Park(t)
    PROVE  FlatInv'
<1>0. PICK m, h, list : /\ m = want[t] /\ h = xMutexHolder[m]
                        /\ list = xTasksWaitingToReceive[m]
  OBVIOUS
<1>p. PICK p : p = IF Inherits(h, t) THEN uxPriority[t] ELSE uxPriority[h]
  OBVIOUS
<1>1. /\ t \in ready /\ pc[t] = "suspend" /\ pc[t] \in InCall /\ h # Nobody
      /\ wait[t] \in {"finite", "infinite"}
  BY <1>0, RunningReady DEF Park, InCall
<1>2. /\ Held(t) = {} /\ uxPriority[t] = BasePriority[t] /\ m \in Uses[t] /\ m \in Mutexes
      /\ h \in Tasks /\ Held(h) = {m} /\ h # t /\ uxPriority[t] \in Nat /\ uxPriority[h] \in Nat
  BY <1>0, <1>1, FlatFacts, MutexAssumption DEF Flat, FlatInv, HoldersAreOutside
<1>3. /\ ready' = ready \ {t} /\ pendSV' = TRUE /\ pc' = [pc EXCEPT ![t] = "parked"]
      /\ xInheritanceOccurred' = [xInheritanceOccurred EXCEPT ![t] =
                                     Inherits(h, t) \/ BasePriority[h] < uxPriority[t]]
      /\ UNCHANGED <<xMutexHolder, want, wait>>
  BY <1>0 DEF Park, Goto
<1>4. /\ p \in Nat /\ uxPriority' = [uxPriority EXCEPT ![h] = p]
      /\ p >= uxPriority[h] /\ p >= uxPriority[t]
  <2>1. uxPriority' = IF Inherits(h, t) THEN [uxPriority EXCEPT ![h] = uxPriority[t]]
                      ELSE uxPriority
    BY <1>0 DEF Park
  <2>2. uxPriority \in [Tasks -> Nat]
    BY FlatFacts
  <2>3. CASE Inherits(h, t)
    BY <1>2, <1>p, <2>1, <2>3 DEF Inherits
  <2>4. CASE ~Inherits(h, t)
    BY <1>2, <1>p, <2>1, <2>2, <2>4 DEF Inherits
  <2> QED BY <2>3, <2>4
<1>5. /\ uxPriority' \in [Tasks -> Nat] /\ uxPriority'[h] = p
      /\ \A u \in Tasks \ {h} : uxPriority'[u] = uxPriority[u]
      /\ \A u \in Tasks : pc[u] \in InCall => u # h /\ uxPriority'[u] = uxPriority[u]
      /\ \A n \in Mutexes : \A u \in Waiters(n) : u # h /\ uxPriority'[u] = uxPriority[u]
      /\ \A n \in Mutexes \ {m} : xMutexHolder[n] # h
  <2>1. /\ uxPriority' \in [Tasks -> Nat] /\ uxPriority'[h] = p
        /\ \A u \in Tasks \ {h} : uxPriority'[u] = uxPriority[u]
    BY <1>2, <1>4, FlatFacts
  <2> QED BY <2>1, <1>0, <1>1, <1>2, HolderOnly
<1>6. \A u : Held(u)' = Held(u)
  BY <1>3 DEF Held
<1>7. \A n \in Mutexes : t \notin Waiters(n)
  BY <1>1, FlatFacts
<1>8. PICK k \in 0 .. Len(list) :
        /\ InsertsAfter(list, t, k)
        /\ xTasksWaitingToReceive' = [xTasksWaitingToReceive EXCEPT ![m] = Insert(list, t, k)]
  BY <1>0 DEF Park
<1>9. /\ xTasksWaitingToReceive'[m] = Insert(list, t, k)
      /\ \A n \in Mutexes \ {m} : xTasksWaitingToReceive'[n] = xTasksWaitingToReceive[n]
  BY <1>2, <1>8 DEF Flat, IInv, TypeOK
<1>10. /\ Sorted(Insert(list, t, k)) /\ Elems(Insert(list, t, k)) = Elems(list) \cup {t}
  <2>1. list \in Seq(Tasks) /\ uxPriority \in [Tasks -> Nat] /\ Sorted(list)
    BY <1>0, <1>2, FlatFacts DEF Flat, FlatInv, ListsSorted
  <2>2. t \notin Elems(list)
    BY <1>0, <1>2, <1>7, WaitersAre
  <2> QED BY <1>8, <2>1, <2>2, InsertSorts
<1>11. /\ Waiters(m)' = Waiters(m) \cup {t}
       /\ \A n \in Mutexes \ {m} : Waiters(n)' = Waiters(n)
  <2>1. Waiters(m)' = Elems(xTasksWaitingToReceive'[m])
    BY <1>3 DEF Waiters, Elems
  <2>2. \A n \in Mutexes \ {m} : Waiters(n)' = Waiters(n)
    BY <1>9 DEF Waiters
  <2> QED BY <2>1, <2>2, <1>0, <1>9, <1>10, WaitersAre
<1>12. /\ pc'[t] = "parked" /\ \A u \in Tasks \ {t} : pc'[u] = pc[u]
       /\ xInheritanceOccurred'[t] = (Inherits(h, t) \/ BasePriority[h] < uxPriority[t])
       /\ \A u \in Tasks \ {t} : xInheritanceOccurred'[u] = xInheritanceOccurred[u]
  BY <1>3 DEF Flat, IInv, TypeOK
<1>13. \A n \in Mutexes : \A u \in Waiters(n) : u \in Tasks \ {t}
  BY <1>7, FlatFacts
<1>14. HoldersAreOutside' /\ ParkedWaits'
  BY <1>1, <1>2, <1>3, <1>6, <1>12
  DEF Flat, FlatInv, HoldersAreOutside, ParkedWaits, InCall
<1>15. ListsConsistent'
  <2>1. ASSUME NEW n \in Mutexes, NEW u \in Waiters(n)'
        PROVE  pc'[u] = "parked" /\ want'[u] = n /\ u \notin ready'
    <3>1. CASE u = t
      BY <1>0, <1>3, <1>7, <1>11, <1>12, <2>1, <3>1
    <3>2. CASE u # t
      <4>1. u \in Waiters(n)
        BY <1>11, <2>1, <3>2
      <4> QED BY <1>3, <1>12, <1>13, <3>2, <4>1, FlatFacts
    <3> QED BY <3>1, <3>2
  <2>2. ASSUME NEW u \in Tasks \ ready'
        PROVE  pc'[u] = "asleep" \/ (pc'[u] = "parked" /\ u \in Waiters(want[u])')
    <3>0. PICK n : n = want[u]
      OBVIOUS
    <3>n. n = want'[u]
      BY <1>3, <3>0
    <3>1. CASE u = t
      <4>1. u \in Waiters(n)'
        BY <1>0, <1>11, <3>0, <3>1
      <4> QED BY <1>12, <3>n, <3>1, <4>1
    <3>2. CASE u # t
      <4>1. pc[u] = "asleep" \/ (pc[u] = "parked" /\ u \in Waiters(n) /\ n \in Mutexes)
        BY <1>3, <2>2, <3>0, <3>2 DEF Flat, IInv, CallsKnowMutex, FlatInv, ListsConsistent
      <4>2. u \in Waiters(n) /\ n \in Mutexes => u \in Waiters(n)'
        BY <1>11
      <4> QED BY <1>12, <3>n, <3>2, <4>1, <4>2
    <3> QED BY <3>1, <3>2
  <2> QED BY <2>1, <2>2 DEF ListsConsistent
<1>16. ListsSorted'
  <2> SUFFICES ASSUME NEW n \in Mutexes,
                      NEW i \in 1 .. Len(xTasksWaitingToReceive'[n]),
                      NEW j \in 1 .. Len(xTasksWaitingToReceive'[n]), i < j
               PROVE  /\ uxPriority'[xTasksWaitingToReceive'[n][i]] >=
                           uxPriority'[xTasksWaitingToReceive'[n][j]]
                      /\ xTasksWaitingToReceive'[n][i] # xTasksWaitingToReceive'[n][j]
    BY DEF ListsSorted, Sorted
  <2> DEFINE a == xTasksWaitingToReceive'[n][i]
             b == xTasksWaitingToReceive'[n][j]
  <2>1. uxPriority[a] >= uxPriority[b] /\ a # b
    <3>1. CASE n = m
      BY <1>9, <1>10, <3>1 DEF Sorted
    <3>2. CASE n # m
      BY <1>9, <3>2 DEF Flat, FlatInv, ListsSorted, Sorted
    <3> QED BY <3>1, <3>2
  <2>2. a \in Waiters(n)' /\ b \in Waiters(n)'
    BY DEF Waiters
  <2>3. uxPriority'[a] = uxPriority[a] /\ uxPriority'[b] = uxPriority[b]
    BY <2>2, <1>1, <1>5, <1>11
  <2> QED BY <2>1, <2>3
<1>17. AboveBase'
  <2> SUFFICES ASSUME NEW u \in Tasks PROVE uxPriority'[u] >= BasePriority[u]
    BY DEF AboveBase
  <2>1. uxPriority[u] >= BasePriority[u] /\ uxPriority[u] \in Nat /\ BasePriority[u] \in Nat
    BY FlatFacts DEF Flat, FlatInv, AboveBase
  <2> QED BY <2>1, <1>4, <1>5
<1>18. NoInversion'
  <2> SUFFICES ASSUME NEW n \in Mutexes, NEW v \in Waiters(n)', xMutexHolder[n] # Nobody
               PROVE  uxPriority'[xMutexHolder[n]] >= uxPriority'[v]
    BY <1>3 DEF NoInversion
  <2>1. CASE n = m
    <3>1. CASE v = t
      BY <1>0, <2>1, <3>1, <1>1, <1>2, <1>4, <1>5
    <3>2. CASE v # t
      <4>1. v \in Waiters(m) /\ uxPriority[h] >= uxPriority[v] /\ v \in Tasks
        BY <1>0, <1>1, <1>2, <1>11, <2>1, <3>2, FlatFacts DEF Flat, FlatInv, NoInversion
      <4>2. uxPriority[v] \in Nat
        BY <4>1, FlatFacts
      <4> QED BY <1>0, <1>2, <1>4, <1>5, <2>1, <4>1, <4>2
    <3> QED BY <3>1, <3>2
  <2>2. CASE n # m
    <3>1. v \in Waiters(n) /\ uxPriority[xMutexHolder[n]] >= uxPriority[v]
      BY <1>11, <2>2 DEF Flat, FlatInv, NoInversion
    <3>2. xMutexHolder[n] \in Tasks \ {h}
      BY <1>5, <2>2, FlatFacts
    <3> QED BY <1>5, <3>1, <3>2
  <2> QED BY <2>1, <2>2
<1>19. Lent'
  <2> SUFFICES ASSUME NEW g \in Tasks, uxPriority'[g] # BasePriority[g]
               PROVE  \E u \in Tasks : Lends(u, g)'
    BY DEF Lent
  <2>1. CASE g = h /\ p # uxPriority[h]
    <3>1. p = uxPriority[t] /\ Inherits(h, t)
      BY <1>p, <2>1
    <3>2. Lends(t, h)'
      BY <1>0, <3>1, <1>1, <1>2, <1>3, <1>5, <1>6, <1>12 DEF Lends
    <3> QED BY <2>1, <3>2
  <2>2. CASE g # h \/ p = uxPriority[h]
    <3>1. uxPriority'[g] = uxPriority[g]
      BY <1>5, <2>2
    <3>2. PICK u \in Tasks : Lends(u, g)
      BY <2>2, <3>1 DEF Flat, FlatInv, Lent
    <3>3. pc[u] \in InCall
      BY <3>2 DEF Lends, InCall
    <3>4. uxPriority'[u] = uxPriority[u]
      BY <1>5, <3>3
    <3>5. CASE u # t
      BY <1>3, <1>6, <1>12, <3>1, <3>2, <3>4, <3>5 DEF Lends
    <3>6. CASE u = t
      <4>1. m \in Held(g)
        BY <1>0, <3>2, <3>6 DEF Lends
      <4>2. g = h
        BY <1>0, <4>1 DEF Held
      <4>3. uxPriority[t] = uxPriority[h] /\ uxPriority[h] # BasePriority[h]
        BY <3>1, <3>2, <3>6, <4>2 DEF Lends
      <4>4. BasePriority[h] < uxPriority[t]
        BY <1>2, <4>3, FlatFacts DEF Flat, FlatInv, AboveBase
      <4> QED BY <1>0, <1>2, <1>3, <1>6, <1>12, <3>1, <3>4, <3>6, <4>1, <4>2, <4>3, <4>4 DEF Lends
    <3> QED BY <3>5, <3>6
  <2> QED BY <2>1, <2>2
<1>20. WaitersKnow'
  <2> SUFFICES ASSUME NEW n \in Mutexes, NEW v \in Waiters(n)', xMutexHolder[n] # Nobody,
                      BasePriority[xMutexHolder[n]] < uxPriority'[v]
               PROVE  xInheritanceOccurred'[v]
    BY <1>3 DEF WaitersKnow
  <2>1. CASE v = t
    <3>1. n = m
      BY <1>7, <1>11, <2>1
    <3> QED BY <1>0, <1>1, <1>2, <1>5, <1>12, <2>1, <3>1
  <2>2. CASE v # t
    <3>1. v \in Waiters(n)
      BY <1>11, <2>2
    <3>2. uxPriority'[v] = uxPriority[v] /\ v \in Tasks \ {t}
      BY <1>5, <1>13, <3>1
    <3> QED BY <1>12, <3>1, <3>2 DEF Flat, FlatInv, WaitersKnow
  <2> QED BY <2>1, <2>2
<1>21. WokenFirst'
  <2> SUFFICES ASSUME NEW n \in Mutexes, xMutexHolder[n] = Nobody, Waiters(n)' # {}
               PROVE  \E u \in ready' :
                         /\ want'[u] = n /\ pc'[u] \in {"parked", "try", "suspend", "recheck"}
                         /\ \A v \in Waiters(n)' : uxPriority'[v] <= uxPriority'[u]
    BY <1>3 DEF WokenFirst
  <2>1. n # m /\ Waiters(n)' = Waiters(n)
    BY <1>0, <1>1, <1>11
  <2>2. PICK u \in ready : /\ want[u] = n /\ pc[u] \in {"parked", "try", "suspend", "recheck"}
                           /\ \A v \in Waiters(n) : uxPriority[v] <= uxPriority[u]
    BY <2>1 DEF Flat, FlatInv, WokenFirst
  <2>3. u # t /\ u \in Tasks /\ pc[u] \in InCall
    BY <1>0, <2>1, <2>2, FlatFacts DEF InCall
  <2>4. uxPriority'[u] = uxPriority[u] /\ \A v \in Waiters(n) : uxPriority'[v] = uxPriority[v]
    BY <1>5, <2>3
  <2> QED BY <1>3, <1>12, <2>1, <2>2, <2>3, <2>4
<1>22. CurrentAbove'
  BY <1>3 DEF CurrentAbove
<1>23. BitsNameReadyLists'
  <2> DEFINE bits == IF Inherits(h, t) THEN BitsMoved(h, uxPriority[t], uxPriority[h])
                     ELSE uxTopReadyPriority
  <2>1. uxTopReadyPriority' = IF \E u \in ready \ {t} : uxPriority'[u] = uxPriority[t]
                              THEN bits ELSE bits \ {uxPriority[t]}
    BY <1>0 DEF Park
  <2>2. bits = {uxPriority'[u] : u \in ready}
    <3>1. CASE Inherits(h, t)
      <4>1. p = uxPriority[t]
        BY <1>p, <3>1
      <4>2. uxPriority \in [Tasks -> Nat] /\ ready \subseteq Tasks /\ BitsNameReadyLists
        BY FlatFacts DEF Flat, FlatInv
      <4> QED BY <1>2, <1>4, <3>1, <4>1, <4>2, BitsMovedRight
    <3>2. CASE ~Inherits(h, t)
      <4>1. uxPriority' = uxPriority
        BY <1>0, <3>2 DEF Park
      <4> QED BY <3>2, <4>1 DEF Flat, FlatInv, BitsNameReadyLists
    <3> QED BY <3>1, <3>2
  <2> HIDE DEF bits
  <2>3. uxPriority'[t] = uxPriority[t]
    BY <1>2, <1>5
  <2>4. {uxPriority'[u] : u \in ready} = {uxPriority'[u] : u \in ready \ {t}} \cup {uxPriority[t]}
    BY <1>1, <2>3
  <2>5. CASE \E u \in ready \ {t} : uxPriority'[u] = uxPriority[t]
    BY <1>3, <2>1, <2>2, <2>4, <2>5 DEF BitsNameReadyLists
  <2>6. CASE ~ \E u \in ready \ {t} : uxPriority'[u] = uxPriority[t]
    BY <1>3, <2>1, <2>2, <2>4, <2>6 DEF BitsNameReadyLists
  <2> QED BY <2>5, <2>6
<1> QED BY <1>14, <1>15, <1>16, <1>17, <1>18, <1>19, <1>20, <1>21, <1>22, <1>23 DEF FlatInv

\* What the holder keeps is what its other waiters lent it, or its own.
LEMMA DisinheritFlat ==
    ASSUME Flat, NEW t \in Tasks, DisinheritAfterTimeout(t)
    PROVE  FlatInv'
<1>0. PICK m, h, list : /\ m = want[t] /\ h = xMutexHolder[m]
                        /\ list = xTasksWaitingToReceive[m]
  OBVIOUS
<1>1. PICK p : p = IF BasePriority[h] < HighestWaiting(m) THEN HighestWaiting(m)
                   ELSE BasePriority[h]
  OBVIOUS
<1>2. /\ t \in ready /\ t = pxCurrentTCB /\ ~pendSV /\ pc[t] = "disinherit" /\ pc[t] \in InCall
      /\ m \in Mutexes /\ list \in Seq(Tasks) /\ Sorted(list)
  BY <1>0, RunningReady, FlatFacts
  DEF DisinheritAfterTimeout, InCall, Flat, IInv, CallsKnowMutex, FlatInv, ListsSorted
<1>3. /\ pc' = [pc EXCEPT ![t] = "user"]
      /\ UNCHANGED <<pxCurrentTCB, pendSV, ready, uxMutexesHeld, xMutexHolder,
                     xTasksWaitingToReceive, want, wait, xInheritanceOccurred>>
      /\ LET changes == h # Nobody /\ uxPriority[h] # p /\ uxMutexesHeld[h] = 1
         IN  /\ uxPriority' = IF changes THEN [uxPriority EXCEPT ![h] = p] ELSE uxPriority
             /\ uxTopReadyPriority' = IF changes THEN BitsMoved(h, p, p)
                                      ELSE uxTopReadyPriority
  BY <1>0, <1>1 DEF DisinheritAfterTimeout, Goto, schedVars, mutexVars
<1>4. /\ \A u : Held(u)' = Held(u)
      /\ \A n : Waiters(n)' = Waiters(n)
      /\ pc'[t] = "user" /\ \A u \in Tasks \ {t} : pc'[u] = pc[u]
      /\ \A n \in Mutexes : \A u \in Waiters(n) : u \in Tasks \ {t}
  BY <1>2, <1>3, FlatFacts DEF Held, Waiters, Flat, IInv, TypeOK
<1>5. HoldersAreOutside' /\ ParkedWaits'
  BY <1>3, <1>4 DEF Flat, FlatInv, HoldersAreOutside, ParkedWaits, InCall
<1>6. ListsConsistent'
  BY <1>2, <1>3, <1>4 DEF Flat, FlatInv, ListsConsistent
<1>8. CASE h = Nobody
  <2>1. uxPriority' = uxPriority /\ uxTopReadyPriority' = uxTopReadyPriority
    BY <1>3, <1>8
  <2>2. ListsSorted' /\ AboveBase' /\ NoInversion' /\ BitsNameReadyLists' /\ CurrentAbove'
    BY <1>3, <1>4, <2>1 DEF Flat, FlatInv, ListsSorted, Sorted, AboveBase, NoInversion,
       BitsNameReadyLists, CurrentAbove
  <2>3. Lent'
    <3> SUFFICES ASSUME NEW g \in Tasks, uxPriority[g] # BasePriority[g]
                 PROVE  \E u \in Tasks : Lends(u, g)'
      BY <2>1 DEF Lent
    <3>1. PICK u \in Tasks : Lends(u, g)
      BY DEF Flat, FlatInv, Lent
    <3>2. want[t] \notin Held(g)
      BY <1>0, <1>8, MutexAssumption DEF Held
    <3>3. u # t
      BY <3>1, <3>2 DEF Lends
    <3>4. Lends(u, g)'
      BY <1>3, <1>4, <2>1, <3>1, <3>3 DEF Lends
    <3> QED BY <3>4
  <2>4. WaitersKnow'
    BY <1>3, <1>4, <2>1 DEF Flat, FlatInv, WaitersKnow
  <2>5. WokenFirst'
    <3> SUFFICES ASSUME NEW n \in Mutexes, xMutexHolder[n] = Nobody, Waiters(n) # {}
                 PROVE  \E u \in ready :
                           /\ want[u] = n /\ pc'[u] \in {"parked", "try", "suspend", "recheck"}
                           /\ \A v \in Waiters(n) : uxPriority[v] <= uxPriority[u]
      BY <1>3, <1>4, <2>1 DEF WokenFirst
    <3>1. PICK u \in ready : /\ want[u] = n /\ pc[u] \in {"parked", "try", "suspend", "recheck"}
                             /\ \A v \in Waiters(n) : uxPriority[v] <= uxPriority[u]
      BY DEF Flat, FlatInv, WokenFirst
    <3>2. u \in Tasks \ {t}
      BY <1>2, <3>1, FlatFacts
    <3> QED BY <1>4, <3>1, <3>2
  <2> QED BY <1>5, <1>6, <2>2, <2>3, <2>4, <2>5 DEF FlatInv
<1>9. CASE h # Nobody
  <2>1. /\ h \in Tasks /\ Held(h) = {m} /\ uxMutexesHeld[h] = 1 /\ h # t
        /\ uxPriority \in [Tasks -> Nat] /\ BasePriority \in [Tasks -> Nat]
    BY <1>0, <1>2, <1>9, FlatFacts DEF InCall
  <2>2. /\ HighestWaiting(m) \in Nat
        /\ \A v \in Waiters(m) : uxPriority[v] <= HighestWaiting(m)
        /\ HighestWaiting(m) = 0 \/ \E w \in Waiters(m) : uxPriority[w] = HighestWaiting(m)
    <3>1. CASE list = <<>>
      <4>1. HighestWaiting(m) = 0
        BY <1>0, <3>1, MutexAssumption DEF HighestWaiting
      <4>2. Waiters(m) = {}
        BY <1>0, <3>1 DEF Waiters
      <4> QED BY <4>1, <4>2
    <3>2. CASE list # <<>>
      <4>1. /\ Head(list) \in Elems(list)
            /\ \A u \in Elems(list) : uxPriority[u] <= uxPriority[Head(list)]
        BY <1>2, <2>1, <3>2, HeadTail
      <4>2. HighestWaiting(m) = uxPriority[Head(list)] /\ Waiters(m) = Elems(list)
        BY <1>0, <3>2, WaitersAre DEF HighestWaiting
      <4>3. Head(list) \in Tasks
        BY <1>2, <4>1, <4>2, FlatFacts
      <4> QED BY <2>1, <4>1, <4>2, <4>3
    <3> QED BY <3>1, <3>2
  <2>3. /\ p \in Nat /\ p >= BasePriority[h]
        /\ \A v \in Waiters(m) : uxPriority[v] <= p
        /\ p # BasePriority[h] => \E w \in Waiters(m) : uxPriority[w] = p
    <3>1. \A v \in Waiters(m) : uxPriority[v] \in Nat
      BY <1>2, <2>1, FlatFacts
    <3> QED BY <1>1, <2>1, <2>2, <3>1
  <2>4. uxPriority' = [uxPriority EXCEPT ![h] = p]
    BY <1>3, <1>9, <2>1
  <2>5. /\ uxPriority' \in [Tasks -> Nat] /\ uxPriority'[h] = p
        /\ \A u \in Tasks \ {h} : uxPriority'[u] = uxPriority[u]
        /\ \A u \in Tasks : pc[u] \in InCall => u # h /\ uxPriority'[u] = uxPriority[u]
        /\ \A n \in Mutexes : \A u \in Waiters(n) : u # h /\ uxPriority'[u] = uxPriority[u]
        /\ \A n \in Mutexes \ {m} : xMutexHolder[n] # h
    <3>1. /\ uxPriority' \in [Tasks -> Nat] /\ uxPriority'[h] = p
          /\ \A u \in Tasks \ {h} : uxPriority'[u] = uxPriority[u]
      BY <2>1, <2>3, <2>4
    <3> QED BY <3>1, <1>0, <1>2, <1>9, HolderOnly
  <2>6. ListsSorted'
    <3> SUFFICES ASSUME NEW n \in Mutexes,
                        NEW i \in 1 .. Len(xTasksWaitingToReceive[n]),
                        NEW j \in 1 .. Len(xTasksWaitingToReceive[n]), i < j
                 PROVE  /\ uxPriority'[xTasksWaitingToReceive[n][i]] >=
                             uxPriority'[xTasksWaitingToReceive[n][j]]
                        /\ xTasksWaitingToReceive[n][i] # xTasksWaitingToReceive[n][j]
      BY <1>3 DEF ListsSorted, Sorted
    <3>1. xTasksWaitingToReceive[n][i] \in Waiters(n) /\ xTasksWaitingToReceive[n][j] \in Waiters(n)
      BY DEF Waiters
    <3> QED BY <2>5, <3>1 DEF Flat, FlatInv, ListsSorted, Sorted
  <2>7. AboveBase'
    BY <2>3, <2>5 DEF Flat, FlatInv, AboveBase
  <2>8. NoInversion'
    <3> SUFFICES ASSUME NEW n \in Mutexes, NEW v \in Waiters(n), xMutexHolder[n] # Nobody
                 PROVE  uxPriority'[xMutexHolder[n]] >= uxPriority'[v]
      BY <1>3, <1>4 DEF NoInversion
    <3>1. CASE n = m
      <4>1. uxPriority'[v] = uxPriority[v] /\ uxPriority[v] <= p /\ uxPriority[v] \in Nat
        BY <2>1, <2>3, <2>5, <3>1, FlatFacts
      <4> QED BY <1>0, <2>3, <2>5, <3>1, <4>1
    <3>2. CASE n # m
      <4>1. uxPriority[xMutexHolder[n]] >= uxPriority[v] /\ xMutexHolder[n] \in Tasks \ {h}
        BY <2>5, <3>2, FlatFacts DEF Flat, FlatInv, NoInversion
      <4> QED BY <2>5, <4>1
    <3> QED BY <3>1, <3>2
  <2>9. Lent'
    <3> SUFFICES ASSUME NEW g \in Tasks, uxPriority'[g] # BasePriority[g]
                 PROVE  \E u \in Tasks : Lends(u, g)'
      BY DEF Lent
    <3>1. CASE g = h
      <4>1. PICK w \in Waiters(m) : uxPriority[w] = p
        BY <2>3, <2>5, <3>1
      <4>2. /\ w \in Tasks \ {t} /\ pc[w] = "parked" /\ want[w] = m
            /\ uxPriority'[w] = uxPriority[w]
        BY <1>2, <1>4, <2>5, FlatFacts
      <4>3. BasePriority[h] < uxPriority[w]
        BY <2>1, <2>3, <2>5, <3>1, <4>1
      <4>4. xInheritanceOccurred[w]
        BY <1>0, <1>2, <1>9, <4>3 DEF Flat, FlatInv, WaitersKnow
      <4>5. Lends(w, g)'
        BY <1>3, <1>4, <2>1, <2>5, <3>1, <4>1, <4>2, <4>4 DEF Lends
      <4> QED BY <4>2, <4>5
    <3>2. CASE g # h
      <4>1. PICK u \in Tasks : Lends(u, g)
        BY <2>5, <3>2 DEF Flat, FlatInv, Lent
      <4>2. u # t
        BY <1>0, <3>2, <4>1 DEF Lends, Held
      <4>3. pc[u] \in InCall
        BY <4>1 DEF Lends, InCall
      <4>4. uxPriority'[u] = uxPriority[u] /\ uxPriority'[g] = uxPriority[g]
        BY <2>5, <3>2, <4>3
      <4>5. Lends(u, g)'
        BY <1>3, <1>4, <4>1, <4>2, <4>4 DEF Lends
      <4> QED BY <4>5
    <3> QED BY <3>1, <3>2
  <2>10. WaitersKnow'
    <3> SUFFICES ASSUME NEW n \in Mutexes, NEW v \in Waiters(n), xMutexHolder[n] # Nobody,
                        BasePriority[xMutexHolder[n]] < uxPriority'[v]
                 PROVE  xInheritanceOccurred[v]
      BY <1>3, <1>4 DEF WaitersKnow
    <3>1. uxPriority'[v] = uxPriority[v]
      BY <2>5
    <3> QED BY <3>1 DEF Flat, FlatInv, WaitersKnow
  <2>11. WokenFirst'
    <3> SUFFICES ASSUME NEW n \in Mutexes, xMutexHolder[n] = Nobody, Waiters(n) # {}
                 PROVE  \E u \in ready :
                           /\ want[u] = n /\ pc'[u] \in {"parked", "try", "suspend", "recheck"}
                           /\ \A v \in Waiters(n) : uxPriority'[v] <= uxPriority'[u]
      BY <1>3, <1>4 DEF WokenFirst
    <3>1. PICK u \in ready : /\ want[u] = n /\ pc[u] \in {"parked", "try", "suspend", "recheck"}
                             /\ \A v \in Waiters(n) : uxPriority[v] <= uxPriority[u]
      BY DEF Flat, FlatInv, WokenFirst
    <3>2. u \in Tasks \ {t} /\ pc[u] \in InCall
      BY <1>2, <3>1, FlatFacts DEF InCall
    <3>3. uxPriority'[u] = uxPriority[u] /\ \A v \in Waiters(n) : uxPriority'[v] = uxPriority[v]
      BY <2>5, <3>2
    <3> QED BY <1>4, <3>1, <3>2, <3>3
  <2>12. CurrentAbove'
    <3>1. \A n \in Mutexes : \A v \in Waiters(n) : uxPriority'[v] = uxPriority[v]
      BY <2>5
    <3>2. uxPriority'[pxCurrentTCB] = uxPriority[pxCurrentTCB]
      BY <1>2, <2>1, <2>5
    <3> QED BY <1>3, <1>4, <3>1, <3>2 DEF Flat, FlatInv, CurrentAbove
  <2>13. BitsNameReadyLists'
    <3>1. CASE uxPriority[h] = p
      <4>1. uxPriority' = uxPriority /\ uxTopReadyPriority' = uxTopReadyPriority
        BY <1>3, <3>1
      <4> QED BY <1>3, <4>1 DEF Flat, FlatInv, BitsNameReadyLists
    <3>2. CASE uxPriority[h] # p
      <4>1. \A v \in Waiters(m) : uxPriority[v] <= uxPriority[h] /\ uxPriority[v] \in Nat
        BY <1>0, <1>2, <1>9, <2>1, FlatFacts DEF Flat, FlatInv, NoInversion
      <4>2. uxPriority[h] >= BasePriority[h] /\ uxPriority[h] \in Nat /\ BasePriority[h] \in Nat
        BY <2>1 DEF Flat, FlatInv, AboveBase
      <4>3. p < uxPriority[h]
        BY <2>3, <3>2, <4>1, <4>2
      <4>4. uxPriority[h] # BasePriority[h]
        BY <2>3, <4>2, <4>3
      <4>5. PICK u \in Tasks : Lends(u, h)
        BY <2>1, <4>4 DEF Flat, FlatInv, Lent
      <4>6. uxPriority[u] = uxPriority[h] /\ want[u] = m /\ pc[u] \in InCall
        BY <2>1, <4>5 DEF Lends, InCall
      <4>7. u \notin Waiters(m)
        BY <2>1, <2>3, <4>3, <4>6
      <4>8. u \in ready
        BY <4>6, <4>7 DEF Flat, FlatInv, ListsConsistent, InCall
      <4>9. u # h
        BY <2>5, <4>6
      <4>10. uxTopReadyPriority' = BitsMoved(h, p, p)
        BY <1>3, <1>9, <2>1, <3>2
      <4>11. BitsMoved(h, p, p) = {uxPriority'[v] : v \in ready}
        <5>1. ready \subseteq Tasks /\ BitsNameReadyLists
          BY FlatFacts DEF Flat, FlatInv
        <5>2. \E v \in ready \ {h} : uxPriority[v] = uxPriority[h]
          BY <4>6, <4>8, <4>9
        <5> QED BY <2>1, <2>3, <2>4, <5>1, <5>2, BitsMovedRight
      <4> QED BY <1>3, <4>10, <4>11 DEF BitsNameReadyLists
    <3> QED BY <3>1, <3>2
  <2> QED BY <1>5, <1>6, <2>6, <2>7, <2>8, <2>9, <2>10, <2>11, <2>12, <2>13 DEF FlatInv
<1> QED BY <1>8, <1>9

\* What a give does: the giver has its base priority again, and the most urgent
\* waiter, if there is one, is woken.
LEMMA GiveDoes ==
    ASSUME Flat, NEW t \in Tasks, NEW m \in Mutexes, Give(t, m)
    PROVE  /\ t \in ready /\ t = pxCurrentTCB /\ pc[t] = "user" /\ Held(t) = {m}
           /\ uxPriority' \in [Tasks -> Nat] /\ uxPriority'[t] = BasePriority[t]
           /\ \A u \in Tasks \ {t} : uxPriority'[u] = uxPriority[u]
           /\ \E D \in SUBSET Waiters(m) :
                 /\ Waiters(m)' = Waiters(m) \ D /\ ready' = ready \cup D
                 /\ uxTopReadyPriority' = {uxPriority'[u] : u \in ready \cup D}
                 /\ Waiters(m) # {} => \E w \in D : \A v \in Waiters(m) : uxPriority[v] <= uxPriority[w]
                 /\ \A v \in D : ~pendSV' => uxPriority[v] <= uxPriority'[t]
           /\ Sorted(xTasksWaitingToReceive'[m])
           /\ \A n \in Mutexes \ {m} : xTasksWaitingToReceive'[n] = xTasksWaitingToReceive[n]
<1>0. PICK list : list = xTasksWaitingToReceive[m]
  OBVIOUS
<1>1. /\ t \in ready /\ t = pxCurrentTCB /\ pc[t] = "user" /\ xMutexHolder[m] = t
  BY RunningReady DEF Give
<1>2. /\ Held(t) = {m} /\ uxMutexesHeld[t] = 1
      /\ uxPriority \in [Tasks -> Nat] /\ BasePriority \in [Tasks -> Nat] /\ ready \subseteq Tasks
      /\ list \in Seq(Tasks) /\ Sorted(list) /\ Waiters(m) = Elems(list)
  <2>1. xMutexHolder[m] # Nobody
    BY <1>1, MutexAssumption
  <2>2. Held(t) = {m} /\ uxMutexesHeld[t] = 1
    BY <1>1, <2>1, FlatFacts, SMTT(30)
  <2>3. list \in Seq(Tasks) /\ Sorted(list)
    BY <1>0, FlatFacts DEF Flat, FlatInv, ListsSorted
  <2>4. Waiters(m) = Elems(list)
    BY <1>0, WaitersAre
  <2> QED BY <2>2, <2>3, <2>4, FlatFacts
<1> DEFINE bits == IF GivesBack(t) THEN BitsMoved(t, BasePriority[t], uxPriority[t])
                   ELSE uxTopReadyPriority
<1>3. uxPriority' = [uxPriority EXCEPT ![t] = BasePriority[t]]
  <2>1. uxPriority' = IF GivesBack(t) THEN [uxPriority EXCEPT ![t] = BasePriority[t]]
                      ELSE uxPriority
    BY DEF Give
  <2>2. CASE GivesBack(t)
    BY <2>1, <2>2
  <2>3. CASE ~GivesBack(t)
    <3>1. uxPriority[t] = BasePriority[t]
      BY <1>2, <2>3 DEF GivesBack
    <3> QED BY <1>2, <2>1, <2>3, <3>1
  <2> QED BY <2>2, <2>3
<1>4. /\ uxPriority' \in [Tasks -> Nat] /\ uxPriority'[t] = BasePriority[t]
      /\ \A u \in Tasks \ {t} : uxPriority'[u] = uxPriority[u]
  BY <1>2, <1>3
<1>5. bits = {uxPriority'[u] : u \in ready}
  <2>1. CASE GivesBack(t)
    <3>1. BasePriority[t] \in Nat /\ BitsNameReadyLists
      BY <1>2 DEF Flat, FlatInv
    <3> QED BY <1>2, <1>3, <2>1, <3>1, BitsMovedRight
  <2>2. CASE ~GivesBack(t)
    <3>1. uxPriority' = uxPriority
      BY <2>2 DEF Give
    <3> QED BY <2>2, <3>1 DEF Flat, FlatInv, BitsNameReadyLists
  <2> QED BY <2>1, <2>2
<1>6. \A n \in Mutexes \ {m} : xTasksWaitingToReceive'[n] = xTasksWaitingToReceive[n]
  BY DEF Give, Flat, IInv, TypeOK
<1>7. CASE list = <<>>
  <2>1. /\ uxTopReadyPriority' = bits
        /\ ready' = ready /\ xTasksWaitingToReceive' = xTasksWaitingToReceive
    BY <1>0, <1>7 DEF Give
  <2>2. Waiters(m) = {} /\ Waiters(m)' = {}
    <3>1. Elems(<<>>) = {}
      BY DEF Elems
    <3>2. Waiters(m)' = Waiters(m)
      BY <2>1 DEF Waiters
    <3> QED BY <1>2, <1>7, <3>1, <3>2
  <2>3. /\ Waiters(m)' = Waiters(m) \ {} /\ ready' = ready \cup {}
        /\ uxTopReadyPriority' = {uxPriority'[u] : u \in ready \cup {}}
    BY <1>5, <2>1, <2>2
  <2> QED BY <1>0, <1>1, <1>2, <1>4, <1>6, <2>1, <2>2, <2>3
<1>8. CASE list # <<>>
  <2>0. PICK w : w = Head(list)
    OBVIOUS
  <2>1. /\ xTasksWaitingToReceive' = [xTasksWaitingToReceive EXCEPT ![m] = Tail(list)]
        /\ ready' = ready \cup {w}
        /\ uxTopReadyPriority' = bits \cup {uxPriority[w]}
        /\ pendSV' = (uxPriority[w] > uxPriority'[t])
    BY <1>0, <1>8, <2>0 DEF Give
  <2>2. /\ w \in Waiters(m) /\ \A v \in Waiters(m) : uxPriority[v] <= uxPriority[w]
        /\ Sorted(Tail(list)) /\ Elems(Tail(list)) = Waiters(m) \ {w}
    BY <1>2, <1>8, <2>0, HeadTail
  <2>3. xTasksWaitingToReceive'[m] = Tail(list)
    BY <2>1 DEF Flat, IInv, TypeOK
  <2>4. Waiters(m)' = Waiters(m) \ {w}
    <3>1. Waiters(m)' = Elems(xTasksWaitingToReceive'[m])
      BY DEF Waiters, Elems
    <3> QED BY <2>2, <2>3, <3>1
  <2>5. w \in Tasks \ {t} /\ uxPriority'[w] = uxPriority[w] /\ uxPriority[w] \in Nat
    BY <1>1, <1>2, <1>4, <2>2, FlatFacts
  <2>6. uxTopReadyPriority' = {uxPriority'[u] : u \in ready \cup {w}}
    BY <1>5, <2>1, <2>5
  <2>7. ~pendSV' => uxPriority[w] <= uxPriority'[t]
    <3>1. ~pendSV' => ~ (uxPriority[w] > uxPriority'[t])
      BY <2>1, Zenon
    <3> QED BY <1>2, <1>4, <2>5, <3>1
  <2>8. PICK D : D = {w}
    OBVIOUS
  <2>9. /\ D \in SUBSET Waiters(m)
        /\ Waiters(m)' = Waiters(m) \ D /\ ready' = ready \cup D
        /\ uxTopReadyPriority' = {uxPriority'[u] : u \in ready \cup D}
        /\ \E x \in D : \A v \in Waiters(m) : uxPriority[v] <= uxPriority[x]
        /\ \A v \in D : ~pendSV' => uxPriority[v] <= uxPriority'[t]
    BY <2>1, <2>2, <2>4, <2>6, <2>7, <2>8
  <2> QED BY <1>1, <1>2, <1>4, <1>6, <2>2, <2>3, <2>9
<1> QED BY <1>7, <1>8

\* The giver yields to the woken task, unless it is the more urgent itself.
LEMMA GiveFlat ==
    ASSUME Flat, NEW t \in Tasks, NEW m \in Mutexes, Give(t, m)
    PROVE  FlatInv'
<1>1. /\ t \in ready /\ t = pxCurrentTCB /\ pc[t] = "user" /\ Held(t) = {m}
      /\ uxPriority' \in [Tasks -> Nat] /\ uxPriority'[t] = BasePriority[t]
      /\ \A u \in Tasks \ {t} : uxPriority'[u] = uxPriority[u]
      /\ Sorted(xTasksWaitingToReceive'[m])
      /\ \A n \in Mutexes \ {m} : xTasksWaitingToReceive'[n] = xTasksWaitingToReceive[n]
  BY GiveDoes
<1>2. PICK D \in SUBSET Waiters(m) :
         /\ Waiters(m)' = Waiters(m) \ D /\ ready' = ready \cup D
         /\ uxTopReadyPriority' = {uxPriority'[u] : u \in ready \cup D}
         /\ Waiters(m) # {} => \E w \in D : \A v \in Waiters(m) : uxPriority[v] <= uxPriority[w]
         /\ \A v \in D : ~pendSV' => uxPriority[v] <= uxPriority'[t]
  BY GiveDoes
<1>3. /\ xMutexHolder' = [xMutexHolder EXCEPT ![m] = Nobody]
      /\ pxCurrentTCB' = pxCurrentTCB
      /\ pc' = pc /\ want' = want /\ wait' = wait /\ xInheritanceOccurred' = xInheritanceOccurred
  BY DEF Give, callVars
<1>4. /\ \A n \in Mutexes : n # m => xMutexHolder'[n] = xMutexHolder[n] /\ xMutexHolder[n] # t
      /\ xMutexHolder'[m] = Nobody
  BY <1>1, <1>3 DEF Held, Flat, IInv, TypeOK
<1>5. Held(t)' = {} /\ \A u \in Tasks \ {t} : Held(u)' = Held(u)
  <2>1. \A n \in Mutexes : xMutexHolder'[n] # t
    BY <1>4, MutexAssumption
  <2>2. \A u \in Tasks \ {t} : \A n \in Mutexes : xMutexHolder'[n] = u <=> xMutexHolder[n] = u
    BY <1>1, <1>4, MutexAssumption DEF Held
  <2> QED BY <2>1, <2>2 DEF Held
<1>6. \A n \in Mutexes \ {m} : Waiters(n)' = Waiters(n)
  BY <1>1 DEF Waiters
<1>7. \A n \in Mutexes : \A u \in Waiters(n) :
          /\ u \in Tasks \ {t} /\ uxPriority'[u] = uxPriority[u] /\ uxPriority[u] \in Nat
          /\ pc[u] = "parked" /\ want[u] = n /\ u \notin ready
  BY <1>1, FlatFacts
<1>8. HoldersAreOutside' /\ ParkedWaits'
  BY <1>1, <1>3, <1>5 DEF Flat, FlatInv, HoldersAreOutside, ParkedWaits
<1>9. ListsConsistent'
  <2>1. ASSUME NEW n \in Mutexes, NEW u \in Waiters(n)'
        PROVE  pc'[u] = "parked" /\ want'[u] = n /\ u \notin ready'
    BY <1>2, <1>3, <1>6, <1>7, <2>1
  <2>2. ASSUME NEW u \in Tasks \ ready'
        PROVE  pc'[u] = "asleep" \/ (pc'[u] = "parked" /\ u \in Waiters(want[u])')
    <3>0. PICK n : n = want[u]
      OBVIOUS
    <3>1. n = want'[u]
      BY <1>3, <3>0
    <3>2. pc[u] = "asleep" \/ (pc[u] = "parked" /\ u \in Waiters(n) /\ n \in Mutexes)
      BY <1>2, <2>2, <3>0 DEF Flat, IInv, CallsKnowMutex, FlatInv, ListsConsistent
    <3>3. u \in Waiters(n) /\ n \in Mutexes => u \in Waiters(n)'
      BY <1>2, <1>6, <2>2
    <3> QED BY <1>3, <3>1, <3>2, <3>3
  <2> QED BY <2>1, <2>2 DEF ListsConsistent
<1>10. ListsSorted'
  <2> SUFFICES ASSUME NEW n \in Mutexes,
                      NEW i \in 1 .. Len(xTasksWaitingToReceive'[n]),
                      NEW j \in 1 .. Len(xTasksWaitingToReceive'[n]), i < j
               PROVE  /\ uxPriority'[xTasksWaitingToReceive'[n][i]] >=
                           uxPriority'[xTasksWaitingToReceive'[n][j]]
                      /\ xTasksWaitingToReceive'[n][i] # xTasksWaitingToReceive'[n][j]
    BY DEF ListsSorted, Sorted
  <2> DEFINE a == xTasksWaitingToReceive'[n][i]
             b == xTasksWaitingToReceive'[n][j]
  <2>1. uxPriority[a] >= uxPriority[b] /\ a # b
    <3>1. CASE n = m
      BY <1>1, <3>1 DEF Sorted
    <3>2. CASE n # m
      BY <1>1, <3>2 DEF Flat, FlatInv, ListsSorted, Sorted
    <3> QED BY <3>1, <3>2
  <2>2. a \in Waiters(n)' /\ b \in Waiters(n)'
    BY DEF Waiters
  <2>3. uxPriority'[a] = uxPriority[a] /\ uxPriority'[b] = uxPriority[b]
    BY <2>2, <1>2, <1>6, <1>7
  <2> QED BY <2>1, <2>3
<1>11. AboveBase'
  BY <1>1, MutexAssumption DEF Flat, FlatInv, AboveBase
<1>12. NoInversion'
  <2> SUFFICES ASSUME NEW n \in Mutexes, NEW v \in Waiters(n)', xMutexHolder'[n] # Nobody
               PROVE  uxPriority'[xMutexHolder'[n]] >= uxPriority'[v]
    BY DEF NoInversion
  <2>1. n # m /\ v \in Waiters(n) /\ xMutexHolder'[n] = xMutexHolder[n]
    BY <1>4, <1>6
  <2>2. xMutexHolder[n] \in Tasks \ {t}
    BY <1>4, <2>1, FlatFacts
  <2> QED BY <1>1, <1>7, <2>1, <2>2 DEF Flat, FlatInv, NoInversion
<1>13. Lent'
  <2> SUFFICES ASSUME NEW g \in Tasks, uxPriority'[g] # BasePriority[g]
               PROVE  \E u \in Tasks : Lends(u, g)'
    BY DEF Lent
  <2>1. g # t /\ uxPriority'[g] = uxPriority[g]
    BY <1>1
  <2>2. PICK u \in Tasks : Lends(u, g)
    BY <2>1 DEF Flat, FlatInv, Lent
  <2>3. u # t
    BY <1>1, <2>2 DEF Lends
  <2> QED BY <1>1, <1>3, <1>5, <2>1, <2>2, <2>3 DEF Lends
<1>14. WaitersKnow'
  BY <1>3, <1>4, <1>6, <1>7 DEF Flat, FlatInv, WaitersKnow
<1>15. WokenFirst'
  <2> SUFFICES ASSUME NEW n \in Mutexes, xMutexHolder'[n] = Nobody, Waiters(n)' # {}
               PROVE  \E u \in ready' :
                         /\ want'[u] = n /\ pc'[u] \in {"parked", "try", "suspend", "recheck"}
                         /\ \A v \in Waiters(n)' : uxPriority'[v] <= uxPriority'[u]
    BY DEF WokenFirst
  <2>1. CASE n = m
    <3>1. PICK w \in D : \A v \in Waiters(m) : uxPriority[v] <= uxPriority[w]
      BY <1>2, <2>1
    <3> QED BY <1>2, <1>3, <1>7, <2>1, <3>1
  <2>2. CASE n # m
    <3>1. PICK u \in ready : /\ want[u] = n /\ pc[u] \in {"parked", "try", "suspend", "recheck"}
                             /\ \A v \in Waiters(n) : uxPriority[v] <= uxPriority[u]
      BY <1>4, <1>6, <2>2 DEF Flat, FlatInv, WokenFirst
    <3>2. u \in Tasks \ {t} /\ uxPriority'[u] = uxPriority[u]
      BY <1>1, <3>1, FlatFacts
    <3> QED BY <1>2, <1>3, <1>6, <1>7, <2>2, <3>1, <3>2
  <2> QED BY <2>1, <2>2
<1>16. CurrentAbove'
  <2>1. pxCurrentTCB' = t /\ t \in ready'
    BY <1>1, <1>2, <1>3
  <2>2. ASSUME NEW n \in Mutexes, ~pendSV', n \in Uses[t], NEW v \in Waiters(n)'
        PROVE  uxPriority'[v] <= uxPriority'[t]
    <3>1. n = m
      <4>1. m \in Uses[t]
        BY <1>1 DEF Flat, FlatInv, HoldersAreOutside
      <4> QED BY <2>2, <4>1 DEF Flat, FlatUse
    <3>2. v \in Waiters(m)
      BY <1>2, <2>2, <3>1
    <3>3. PICK w \in D : \A x \in Waiters(m) : uxPriority[x] <= uxPriority[w]
      BY <1>2, <3>2
    <3>4. uxPriority[w] <= uxPriority'[t] /\ uxPriority[v] <= uxPriority[w] /\ w \in Waiters(m)
      BY <1>2, <2>2, <3>2, <3>3
    <3> QED BY <1>1, <1>7, <3>2, <3>4
  <2> QED BY <2>1, <2>2 DEF CurrentAbove
<1>17. BitsNameReadyLists'
  BY <1>2 DEF BitsNameReadyLists
<1> QED BY <1>8, <1>9, <1>10, <1>11, <1>12, <1>13, <1>14, <1>15, <1>16, <1>17 DEF FlatInv

\* A step of the rest of the kernel, by which nobody enters or leaves a call and
\* no priority, mutex or event list changes.
LEMMA OutsideStep ==
    ASSUME Flat, UNCHANGED <<uxPriority, mutexVars, want, wait, xInheritanceOccurred>>,
           \A u \in Tasks : \/ pc'[u] = pc[u]
                            \/ pc[u] \in {"user", "asleep"} /\ pc'[u] \in {"user", "asleep"}
    PROVE  /\ HoldersAreOutside' /\ ListsSorted' /\ AboveBase' /\ NoInversion' /\ Lent'
           /\ WaitersKnow' /\ ParkedWaits'
           /\ \A m : Waiters(m)' = Waiters(m)
<1> USE DEF mutexVars
<1>1. \A u : Held(u)' = Held(u)
  BY DEF Held
<1>2. \A m : Waiters(m)' = Waiters(m)
  BY DEF Waiters
<1>3. HoldersAreOutside'
  BY <1>1 DEF Flat, FlatInv, HoldersAreOutside, InCall
<1>4. ListsSorted' /\ AboveBase' /\ NoInversion'
  BY <1>2 DEF Flat, FlatInv, ListsSorted, Sorted, AboveBase, NoInversion
<1>5. Lent'
  <2> SUFFICES ASSUME NEW g \in Tasks, uxPriority[g] # BasePriority[g]
               PROVE  \E u \in Tasks : Lends(u, g)'
    BY DEF Lent
  <2>1. PICK u \in Tasks : Lends(u, g)
    BY DEF Flat, FlatInv, Lent
  <2>2. Lends(u, g)'
    <3>1. pc'[u] = pc[u]
      BY <2>1 DEF Lends
    <3> QED BY <1>1, <2>1, <3>1 DEF Lends
  <2> QED BY <2>2
<1>6. WaitersKnow'
  BY <1>2 DEF Flat, FlatInv, WaitersKnow
<1>7. ParkedWaits'
  BY DEF Flat, FlatInv, ParkedWaits
<1> QED BY <1>2, <1>3, <1>4, <1>5, <1>6, <1>7

LEMMA SleepFlat ==
    ASSUME Flat, NEW t \in Tasks, Sleep(t)
    PROVE  FlatInv'
<1>1. /\ t \in ready /\ pc[t] = "user" /\ ready' = ready \ {t} /\ pendSV'
      /\ uxTopReadyPriority' = Reset(uxTopReadyPriority, uxPriority[t], ready \ {t})
      /\ UNCHANGED <<uxPriority, mutexVars, want, wait, xInheritanceOccurred>>
      /\ pc'[t] = "asleep" /\ \A u \in Tasks \ {t} : pc'[u] = pc[u]
  BY RunningReady DEF Sleep, Goto, Flat, IInv, TypeOK
<1>2. /\ HoldersAreOutside' /\ ListsSorted' /\ AboveBase' /\ NoInversion' /\ Lent'
      /\ WaitersKnow' /\ ParkedWaits'
      /\ \A m : Waiters(m)' = Waiters(m)
  BY <1>1, OutsideStep
<1>3. ListsConsistent'
  <2>1. \A m \in Mutexes : \A u \in Waiters(m) :
           pc'[u] = "parked" /\ want'[u] = m /\ u \notin ready'
    BY <1>1, FlatFacts
  <2>2. \A u \in Tasks \ ready' :
           pc'[u] = "asleep" \/ (pc'[u] = "parked" /\ u \in Waiters(want'[u]))
    BY <1>1 DEF Flat, FlatInv, ListsConsistent
  <2> QED BY <1>2, <2>1, <2>2 DEF ListsConsistent
<1>4. WokenFirst'
  BY <1>1, <1>2, FlatFacts DEF Flat, FlatInv, WokenFirst, mutexVars
<1>5. CurrentAbove'
  BY <1>1 DEF CurrentAbove
<1>6. BitsNameReadyLists'
  <2>1. uxTopReadyPriority = {uxPriority[u] : u \in ready \ {t}} \cup {uxPriority[t]}
    BY <1>1 DEF Flat, FlatInv, BitsNameReadyLists
  <2>2. uxTopReadyPriority' = {uxPriority[u] : u \in ready \ {t}}
    <3>1. CASE \E u \in ready \ {t} : uxPriority[u] = uxPriority[t]
      BY <1>1, <2>1, <3>1 DEF Reset
    <3>2. CASE ~ \E u \in ready \ {t} : uxPriority[u] = uxPriority[t]
      BY <1>1, <2>1, <3>2 DEF Reset
    <3> QED BY <3>1, <3>2
  <2> QED BY <1>1, <2>2 DEF BitsNameReadyLists
<1> QED BY <1>2, <1>3, <1>4, <1>5, <1>6 DEF FlatInv

LEMMA WakeFlat ==
    ASSUME Flat, NEW t \in Tasks, Wake(t)
    PROVE  FlatInv'
<1>1. /\ pc[t] = "asleep" /\ ready' = ready \cup {t} /\ pxCurrentTCB' = pxCurrentTCB
      /\ ~pendSV' => ~pendSV
      /\ uxTopReadyPriority' = uxTopReadyPriority \cup {uxPriority[t]}
      /\ UNCHANGED <<uxPriority, mutexVars, want, wait, xInheritanceOccurred>>
      /\ pc'[t] = "user" /\ \A u \in Tasks \ {t} : pc'[u] = pc[u]
  BY DEF Wake, Goto, Flat, IInv, TypeOK
<1>2. /\ HoldersAreOutside' /\ ListsSorted' /\ AboveBase' /\ NoInversion' /\ Lent'
      /\ WaitersKnow' /\ ParkedWaits'
      /\ \A m : Waiters(m)' = Waiters(m)
  BY <1>1, OutsideStep
<1>3. ListsConsistent'
  <2>1. \A m \in Mutexes : \A u \in Waiters(m) :
           pc'[u] = "parked" /\ want'[u] = m /\ u \notin ready'
    BY <1>1, FlatFacts
  <2>2. \A u \in Tasks \ ready' :
           pc'[u] = "asleep" \/ (pc'[u] = "parked" /\ u \in Waiters(want'[u]))
    BY <1>1 DEF Flat, FlatInv, ListsConsistent
  <2> QED BY <1>2, <2>1, <2>2 DEF ListsConsistent
<1>4. WokenFirst'
  <2> SUFFICES ASSUME NEW n \in Mutexes, xMutexHolder[n] = Nobody, Waiters(n) # {}
               PROVE  \E u \in ready' :
                         /\ want'[u] = n /\ pc'[u] \in {"parked", "try", "suspend", "recheck"}
                         /\ \A v \in Waiters(n) : uxPriority[v] <= uxPriority[u]
    BY <1>1, <1>2 DEF WokenFirst, mutexVars
  <2>1. PICK u \in ready : /\ want[u] = n /\ pc[u] \in {"parked", "try", "suspend", "recheck"}
                           /\ \A v \in Waiters(n) : uxPriority[v] <= uxPriority[u]
    BY DEF Flat, FlatInv, WokenFirst
  <2>2. u \in Tasks \ {t}
    BY <1>1, <2>1, FlatFacts
  <2> QED BY <1>1, <2>1, <2>2
<1>5. CurrentAbove'
  BY <1>1, <1>2 DEF Flat, FlatInv, CurrentAbove, mutexVars
<1>6. BitsNameReadyLists'
  BY <1>1 DEF Flat, FlatInv, BitsNameReadyLists
<1> QED BY <1>2, <1>3, <1>4, <1>5, <1>6 DEF FlatInv

\* The bit map names the ready lists, so no task that was woken is passed over.
LEMMA SwitchFlat ==
    ASSUME Flat, NEW t \in Tasks, SwitchContext(t)
    PROVE  FlatInv'
<1>1. /\ t \in ready /\ pxCurrentTCB' = t
      /\ \A p \in uxTopReadyPriority : p <= uxPriority[t]
      /\ UNCHANGED <<ready, uxTopReadyPriority, uxPriority, mutexVars, pc, want, wait,
                     xInheritanceOccurred>>
  BY DEF SwitchContext, prioVars, callVars
<1>2. /\ HoldersAreOutside' /\ ListsSorted' /\ AboveBase' /\ NoInversion' /\ Lent'
      /\ WaitersKnow' /\ ParkedWaits'
      /\ \A m : Waiters(m)' = Waiters(m)
  BY <1>1, OutsideStep
<1>3. ListsConsistent' /\ WokenFirst' /\ BitsNameReadyLists'
  BY <1>1, <1>2 DEF Flat, FlatInv, ListsConsistent, WokenFirst, BitsNameReadyLists, mutexVars
<1>4. CurrentAbove'
  <2>1. ASSUME NEW n \in Mutexes, xMutexHolder[n] = Nobody, NEW v \in Waiters(n)
        PROVE  uxPriority[v] <= uxPriority[t]
    <3>1. PICK u \in ready : \A w \in Waiters(n) : uxPriority[w] <= uxPriority[u]
      BY <2>1 DEF Flat, FlatInv, WokenFirst
    <3>2. uxPriority[u] <= uxPriority[t]
      BY <1>1, <3>1 DEF Flat, FlatInv, BitsNameReadyLists
    <3>3. uxPriority[u] \in Nat /\ uxPriority[t] \in Nat /\ uxPriority[v] \in Nat
      BY <3>1, FlatFacts
    <3> QED BY <3>1, <3>2, <3>3
  <2> QED BY <1>1, <1>2, <2>1 DEF CurrentAbove, mutexVars
<1> QED BY <1>2, <1>3, <1>4 DEF FlatInv

\* A waiter whose time is over leaves the event list, its call goes on.
LEMMA TickFlat ==
    ASSUME Flat, NEW m \in Mutexes, NEW n \in 1 .. Len(xTasksWaitingToReceive[m]), Tick(m, n)
    PROVE  FlatInv'
<1>0. PICK list, t : list = xTasksWaitingToReceive[m] /\ t = list[n]
  OBVIOUS
<1>1. /\ n \in 1 .. Len(list) /\ list \in Seq(Tasks) /\ Sorted(list)
      /\ Waiters(m) = Elems(list) /\ t \in Waiters(m)
  <2>1. Waiters(m) = Elems(list)
    BY <1>0, WaitersAre
  <2> QED BY <1>0, <2>1, FlatFacts DEF Elems, Flat, FlatInv, ListsSorted
<1>2. /\ t \in Tasks /\ pc[t] = "parked" /\ want[t] = m /\ t \notin ready
  BY <1>1, FlatFacts
<1>3. /\ wait' = [wait EXCEPT ![t] = "expired"]
      /\ xTasksWaitingToReceive' = [xTasksWaitingToReceive EXCEPT ![m] = Remove(list, n)]
      /\ ready' = ready \cup {t}
      /\ uxTopReadyPriority' = uxTopReadyPriority \cup {uxPriority[t]}
      /\ ~pendSV' => ~pendSV
      /\ UNCHANGED <<pxCurrentTCB, uxPriority, xMutexHolder, pc, want, xInheritanceOccurred>>
  BY <1>0 DEF Tick
<1>4. /\ xTasksWaitingToReceive'[m] = Remove(list, n)
      /\ \A k \in Mutexes \ {m} : xTasksWaitingToReceive'[k] = xTasksWaitingToReceive[k]
      /\ wait'[t] = "expired" /\ \A u \in Tasks \ {t} : wait'[u] = wait[u]
  BY <1>2, <1>3 DEF Flat, IInv, TypeOK
<1>5. Sorted(Remove(list, n)) /\ Elems(Remove(list, n)) = Elems(list) \ {t}
  BY <1>0, <1>1, RemoveSorts
<1>6. /\ Waiters(m)' = Waiters(m) \ {t}
      /\ \A k \in Mutexes \ {m} : Waiters(k)' = Waiters(k)
  <2>1. Waiters(m)' = Elems(xTasksWaitingToReceive'[m])
    BY DEF Waiters, Elems
  <2>2. \A k \in Mutexes \ {m} : Waiters(k)' = Waiters(k)
    BY <1>4 DEF Waiters
  <2> QED BY <1>1, <1>4, <1>5, <2>1, <2>2
<1>7. \A u : Held(u)' = Held(u)
  BY <1>3 DEF Held
<1>8. \A k \in Mutexes : Waiters(k)' \subseteq Waiters(k)
  BY <1>6
<1>9. HoldersAreOutside'
  BY <1>3, <1>7 DEF Flat, FlatInv, HoldersAreOutside, InCall
<1>10. ListsConsistent'
  <2>1. ASSUME NEW k \in Mutexes, NEW u \in Waiters(k)'
        PROVE  pc'[u] = "parked" /\ want'[u] = k /\ u \notin ready'
    <3>1. u \in Waiters(k) /\ u # t
      BY <1>2, <1>6, <2>1, FlatFacts, SMTT(30)
    <3> QED BY <1>3, <3>1, FlatFacts
  <2>2. ASSUME NEW u \in Tasks \ ready'
        PROVE  pc'[u] = "asleep" \/ (pc'[u] = "parked" /\ u \in Waiters(want[u])')
    <3>0. PICK k : k = want[u]
      OBVIOUS
    <3>1. k = want'[u]
      BY <1>3, <3>0
    <3>2. pc[u] = "asleep" \/ (pc[u] = "parked" /\ u \in Waiters(k) /\ k \in Mutexes)
      BY <1>3, <2>2, <3>0 DEF Flat, IInv, CallsKnowMutex, FlatInv, ListsConsistent
    <3>3. u \in Waiters(k) /\ k \in Mutexes => u \in Waiters(k)'
      BY <1>3, <1>6, <2>2
    <3> QED BY <1>3, <3>1, <3>2, <3>3
  <2> QED BY <2>1, <2>2 DEF ListsConsistent
<1>11. ListsSorted'
  <2> SUFFICES ASSUME NEW k \in Mutexes PROVE Sorted(xTasksWaitingToReceive[k])'
    BY DEF ListsSorted
  <2>1. CASE k = m
    BY <1>3, <1>4, <1>5, <2>1 DEF Sorted
  <2>2. CASE k # m
    BY <1>3, <1>4, <2>2 DEF Flat, FlatInv, ListsSorted, Sorted
  <2> QED BY <2>1, <2>2
<1>12. AboveBase' /\ NoInversion' /\ WaitersKnow'
  BY <1>3, <1>8 DEF Flat, FlatInv, AboveBase, NoInversion, WaitersKnow
<1>13. Lent'
  <2> SUFFICES ASSUME NEW g \in Tasks, uxPriority[g] # BasePriority[g]
               PROVE  \E u \in Tasks : Lends(u, g)'
    BY <1>3 DEF Lent
  <2>1. PICK u \in Tasks : Lends(u, g)
    BY DEF Flat, FlatInv, Lent
  <2> QED BY <1>2, <1>3, <1>4, <1>7, <2>1 DEF Lends
<1>14. WokenFirst'
  <2> SUFFICES ASSUME NEW k \in Mutexes, xMutexHolder[k] = Nobody, Waiters(k)' # {}
               PROVE  \E u \in ready' :
                         /\ want[u] = k /\ pc[u] \in {"parked", "try", "suspend", "recheck"}
                         /\ \A v \in Waiters(k)' : uxPriority[v] <= uxPriority[u]
    BY <1>3 DEF WokenFirst
  <2>1. Waiters(k) # {}
    BY <1>8
  <2>2. PICK u \in ready : /\ want[u] = k /\ pc[u] \in {"parked", "try", "suspend", "recheck"}
                           /\ \A v \in Waiters(k) : uxPriority[v] <= uxPriority[u]
    BY <2>1 DEF Flat, FlatInv, WokenFirst
  <2> QED BY <1>3, <1>8, <2>2
<1>15. CurrentAbove'
  BY <1>3, <1>8 DEF Flat, FlatInv, CurrentAbove
<1>16. ParkedWaits'
  BY <1>3, <1>4 DEF Flat, FlatInv, ParkedWaits
<1>17. BitsNameReadyLists'
  BY <1>3 DEF Flat, FlatInv, BitsNameReadyLists
<1> QED BY <1>9, <1>10, <1>11, <1>12, <1>13, <1>14, <1>15, <1>16, <1>17 DEF FlatInv

-----------------------------------------------------------------------------
(* A flat use of the mutexes: the invariant, and what it implies.            *)

LEMMA InitFlat == Init => FlatInv
<1> SUFFICES ASSUME Init PROVE FlatInv
  OBVIOUS
<1> USE MutexAssumption DEF Init
<1>1. (\A t \in Tasks : Held(t) = {}) /\ (\A m \in Mutexes : Waiters(m) = {})
  BY DEF Held, Waiters
<1>2. HoldersAreOutside /\ ListsConsistent /\ ParkedWaits
  BY <1>1 DEF HoldersAreOutside, ListsConsistent, ParkedWaits, InCall
<1>3. ListsSorted /\ AboveBase /\ NoInversion /\ BitsNameReadyLists
  BY <1>1 DEF ListsSorted, Sorted, AboveBase, NoInversion, BitsNameReadyLists
<1>4. Lent /\ WaitersKnow /\ WokenFirst /\ CurrentAbove
  BY <1>1 DEF Lent, WaitersKnow, WokenFirst, CurrentAbove
<1> QED BY <1>2, <1>3, <1>4 DEF FlatInv

LEMMA FlatStep ==
    ASSUME Flat, [Next]_vars
    PROVE  FlatInv'
<1>1. ASSUME NEW t \in Tasks, TaskStep(t) PROVE FlatInv'
  BY <1>1, TryTakesFlat, TryFailsFlat, OtherCallSteps, ParkFlat, DisinheritFlat DEF TaskStep
<1>2. ASSUME NEW t \in Tasks, Sleep(t) \/ Wake(t) \/ SwitchContext(t) PROVE FlatInv'
  BY <1>2, SleepFlat, WakeFlat, SwitchFlat
<1>3. ASSUME NEW t \in Tasks, NEW m \in Mutexes, NEW w \in Waits[t], Take(t, m, w)
      PROVE  FlatInv'
  BY <1>3, TakeFlat
<1>4. ASSUME NEW t \in Tasks, NEW m \in Mutexes, Give(t, m) PROVE FlatInv'
  BY <1>4, GiveFlat
<1>5. ASSUME NEW m \in Mutexes, NEW n \in 1 .. Len(xTasksWaitingToReceive[m]), Tick(m, n)
      PROVE  FlatInv'
  BY <1>5, TickFlat
<1>6. CASE UNCHANGED vars
  <2> USE <1>6 DEF vars, schedVars, prioVars, mutexVars, callVars
  <2>1. /\ HoldersAreOutside' /\ ListsSorted' /\ AboveBase' /\ NoInversion' /\ Lent'
        /\ WaitersKnow' /\ ParkedWaits'
        /\ \A m : Waiters(m)' = Waiters(m)
    BY OutsideStep
  <2>2. ListsConsistent' /\ WokenFirst' /\ BitsNameReadyLists' /\ CurrentAbove'
    BY <2>1 DEF Flat, FlatInv, ListsConsistent, WokenFirst, BitsNameReadyLists, CurrentAbove
  <2> QED BY <2>1, <2>2 DEF FlatInv
<1> QED BY <1>1, <1>2, <1>3, <1>4, <1>5, <1>6 DEF Next

-----------------------------------------------------------------------------
(* Waits without limit, as those of sys_mutex_lock are: mutexes may nest.     *)

\* Nobody waits with a timeout.
NoTimeouts == \A t \in Tasks : "finite" \notin Waits[t]

Distinct(list) == \A i, j \in 1 .. Len(list) : i < j => list[i] # list[j]

\* No wait times out, a waiter is parked for that mutex and off the ready lists,
\* who runs is on one, and the bit map names them.
NestedInv ==
    /\ \A t \in Tasks : wait[t] \in {"zero", "infinite"} /\ pc[t] \notin {"recheck", "disinherit"}
    /\ \A m \in Mutexes : Distinct(xTasksWaitingToReceive[m])
    /\ \A m \in Mutexes : \A u \in Waiters(m) :
          pc[u] = "parked" /\ want[u] = m /\ u \notin ready
    /\ ~pendSV => pxCurrentTCB \in ready
    /\ BitsNameReadyLists

Nested == IInv /\ NoTimeouts /\ NestedInv

\* An insertion of a newcomer keeps the items of a list distinct.
LEMMA InsertDistinct ==
    ASSUME NEW list \in Seq(Tasks), NEW x \in Tasks, NEW n \in 0 .. Len(list),
           Distinct(list), x \notin Elems(list)
    PROVE  Distinct(Insert(list, x, n)) /\ Elems(Insert(list, x, n)) \subseteq Elems(list) \cup {x}
<1> DEFINE new == Insert(list, x, n)
<1>1. /\ Len(new) = Len(list) + 1
      /\ \A i \in 1 .. Len(list) + 1 :
            new[i] = IF i <= n THEN list[i] ELSE IF i = n + 1 THEN x ELSE list[i - 1]
  BY Inserted
<1> HIDE DEF new
<1>2. \A i \in 1 .. Len(list) + 1 : new[i] \in Elems(list) \cup {x}
  <2> SUFFICES ASSUME NEW i \in 1 .. Len(list) + 1 PROVE new[i] \in Elems(list) \cup {x}
    OBVIOUS
  <2>1. CASE i <= n
    BY <1>1, <2>1 DEF Elems
  <2>2. CASE i = n + 1
    BY <1>1, <2>2
  <2>3. CASE i > n + 1
    <3>1. i - 1 \in 1 .. Len(list) /\ new[i] = list[i - 1]
      BY <1>1, <2>3
    <3> QED BY <3>1 DEF Elems
  <2> QED BY <2>1, <2>2, <2>3
<1>3. \A i \in 1 .. Len(list) : list[i] # x
  BY DEF Elems
<1>4. Distinct(new)
  <2> SUFFICES ASSUME NEW i \in 1 .. Len(list) + 1, NEW j \in 1 .. Len(list) + 1, i < j
               PROVE  new[i] # new[j]
    BY <1>1 DEF Distinct
  <2>1. CASE j <= n
    <3>1. new[i] = list[i] /\ new[j] = list[j] /\ i \in 1 .. Len(list) /\ j \in 1 .. Len(list)
      BY <1>1, <2>1
    <3> QED BY <3>1 DEF Distinct
  <2>2. CASE j = n + 1
    <3>1. new[i] = list[i] /\ new[j] = x /\ i \in 1 .. Len(list)
      BY <1>1, <2>2
    <3> QED BY <3>1, <1>3
  <2>3. CASE j > n + 1 /\ i = n + 1
    <3>1. new[i] = x /\ new[j] = list[j - 1] /\ j - 1 \in 1 .. Len(list)
      BY <1>1, <2>3
    <3> QED BY <3>1, <1>3
  <2>4. CASE j > n + 1 /\ i <= n
    <3>1. new[i] = list[i] /\ new[j] = list[j - 1] /\ i \in 1 .. Len(list)
          /\ j - 1 \in 1 .. Len(list) /\ i < j - 1
      BY <1>1, <2>4
    <3> QED BY <3>1 DEF Distinct
  <2>5. CASE i > n + 1
    <3>1. new[i] = list[i - 1] /\ new[j] = list[j - 1] /\ i - 1 \in 1 .. Len(list)
          /\ j - 1 \in 1 .. Len(list) /\ i - 1 < j - 1
      BY <1>1, <2>5
    <3> QED BY <3>1 DEF Distinct
  <2> QED BY <2>1, <2>2, <2>3, <2>4, <2>5
<1> QED BY <1>1, <1>2, <1>4 DEF new, Elems

LEMMA TailDistinct ==
    ASSUME NEW list \in Seq(Tasks), list # <<>>, Distinct(list)
    PROVE  /\ Head(list) \in Elems(list) /\ Distinct(Tail(list))
           /\ Elems(Tail(list)) \subseteq Elems(list) \ {Head(list)}
<1>1. /\ 1 \in 1 .. Len(list) /\ Head(list) = list[1] /\ Len(Tail(list)) = Len(list) - 1
      /\ \A i \in 1 .. Len(list) - 1 : Tail(list)[i] = list[i + 1]
  OBVIOUS
<1>2. \A i \in 1 .. Len(list) - 1 : i + 1 \in 1 .. Len(list) /\ list[i + 1] # list[1]
  BY <1>1 DEF Distinct
<1>3. Distinct(Tail(list))
  <2> SUFFICES ASSUME NEW i \in 1 .. Len(list) - 1, NEW j \in 1 .. Len(list) - 1, i < j
               PROVE  Tail(list)[i] # Tail(list)[j]
    BY <1>1 DEF Distinct
  <2>1. i + 1 \in 1 .. Len(list) /\ j + 1 \in 1 .. Len(list) /\ i + 1 < j + 1
    OBVIOUS
  <2> QED BY <1>1, <2>1 DEF Distinct
<1> QED BY <1>1, <1>2, <1>3 DEF Elems

LEMMA NestedFacts ==
    ASSUME Nested
    PROVE  /\ uxPriority \in [Tasks -> Nat] /\ BasePriority \in [Tasks -> Nat]
           /\ ready \subseteq Tasks /\ BitsNameReadyLists
           /\ \A m \in Mutexes : xTasksWaitingToReceive[m] \in Seq(Tasks)
           /\ \A m \in Mutexes : Waiters(m) \subseteq Tasks
           /\ \A t : Running(t) => t \in ready /\ \A m \in Mutexes : t \notin Waiters(m)
<1>1. \A m \in Mutexes : xTasksWaitingToReceive[m] \in Seq(Tasks)
  BY DEF Nested, IInv, TypeOK
<1>2. \A m \in Mutexes : Waiters(m) \subseteq Tasks
  BY <1>1 DEF Waiters
<1> QED BY <1>1, <1>2, MutexAssumption DEF Nested, IInv, TypeOK, NestedInv, Running

\* A step of the call that parks nobody.
LEMMA NestedCallStep ==
    ASSUME Nested, NEW t \in Tasks, Running(t),
           UNCHANGED <<schedVars, prioVars, xTasksWaitingToReceive>>,
           \A u \in Tasks \ {t} : pc'[u] = pc[u] /\ want'[u] = want[u] /\ wait'[u] = wait[u],
           pc'[t] \notin {"recheck", "disinherit"}, wait'[t] \in {"zero", "infinite"}
    PROVE  NestedInv'
<1> USE DEF schedVars, prioVars
<1>1. \A m : Waiters(m)' = Waiters(m)
  BY DEF Waiters
<1>2. \A m \in Mutexes : \A u \in Waiters(m) : u \in Tasks \ {t}
  BY NestedFacts
<1>3. \A m \in Mutexes : \A u \in Waiters(m)' :
         pc'[u] = "parked" /\ want'[u] = m /\ u \notin ready'
  BY <1>1, <1>2 DEF Nested, NestedInv
<1>4. BitsNameReadyLists' /\ (~pendSV' => pxCurrentTCB' \in ready')
  BY DEF Nested, NestedInv, BitsNameReadyLists
<1>5. \A m \in Mutexes : Distinct(xTasksWaitingToReceive'[m])
  BY DEF Nested, NestedInv
<1>6. \A u \in Tasks : wait'[u] \in {"zero", "infinite"} /\ pc'[u] \notin {"recheck", "disinherit"}
  BY DEF Nested, NestedInv
<1> QED BY <1>3, <1>4, <1>5, <1>6 DEF NestedInv, Distinct

LEMMA NestedTakeSteps ==
    ASSUME Nested, NEW t \in Tasks,
           \/ \E m \in Mutexes, w \in Waits[t] : Take(t, m, w)
           \/ TaskStep(t) /\ ~Park(t)
    PROVE  NestedInv'
<1>1. wait[t] \in {"zero", "infinite"} /\ pc[t] \notin {"recheck", "disinherit"}
  BY DEF Nested, NestedInv
<1>2. CASE \E m \in Mutexes, w \in Waits[t] : Take(t, m, w)
  <2>1. PICK m \in Mutexes, w \in Waits[t] : Take(t, m, w)
    BY <1>2
  <2>2. w \in {"zero", "infinite"}
    BY <2>1, MutexAssumption DEF Nested, NoTimeouts
  <2>3. /\ Running(t) /\ UNCHANGED <<schedVars, prioVars, xTasksWaitingToReceive>>
        /\ \A u \in Tasks \ {t} : pc'[u] = pc[u] /\ want'[u] = want[u] /\ wait'[u] = wait[u]
        /\ pc'[t] = "try" /\ wait'[t] = w
    BY <2>1 DEF Take, Goto, mutexVars, Nested, IInv, TypeOK
  <2> QED BY <2>2, <2>3, NestedCallStep
<1>3. CASE TryTakes(t) \/ TryFails(t) \/ SuspendFindsFree(t) \/ Resume(t)
  <2>1. /\ Running(t) /\ UNCHANGED <<schedVars, prioVars, xTasksWaitingToReceive>>
        /\ \A u \in Tasks \ {t} : pc'[u] = pc[u] /\ want'[u] = want[u] /\ wait'[u] = wait[u]
        /\ pc'[t] \notin {"recheck", "disinherit"} /\ wait'[t] = wait[t]
    BY <1>3 DEF TryTakes, TryFails, SuspendFindsFree, Resume, Goto, mutexVars, Nested, IInv, TypeOK
  <2> QED BY <1>1, <2>1, NestedCallStep
<1>4. ~SuspendTimesOut(t) /\ ~Recheck(t) /\ ~DisinheritAfterTimeout(t)
  BY <1>1 DEF SuspendTimesOut, Recheck, DisinheritAfterTimeout
<1> QED BY <1>2, <1>3, <1>4 DEF TaskStep

LEMMA NestedPark ==
    ASSUME Nested, NEW t \in Tasks, Park(t)
    PROVE  NestedInv'
<1>0. PICK m, h, list : /\ m = want[t] /\ h = xMutexHolder[m]
                        /\ list = xTasksWaitingToReceive[m]
  OBVIOUS
<1>1. Running(t) /\ pc[t] = "suspend" /\ h # Nobody
  BY <1>0 DEF Park
<1>2. /\ t \in ready /\ m \in Mutexes /\ h \in Tasks
      /\ \A n \in Mutexes : t \notin Waiters(n)
      /\ uxPriority \in [Tasks -> Nat] /\ ready \subseteq Tasks /\ BitsNameReadyLists
      /\ list \in Seq(Tasks)
  <2>1. m \in Mutexes
    BY <1>0, <1>1 DEF Nested, IInv, CallsKnowMutex
  <2>2. h \in Tasks
    BY <1>0, <1>1, <2>1 DEF Nested, IInv, TypeOK
  <2> QED BY <1>0, <1>1, <2>1, <2>2, NestedFacts
<1>3. /\ ready' = ready \ {t} /\ pendSV' = TRUE /\ wait' = wait /\ want' = want
      /\ pc'[t] = "parked" /\ \A u \in Tasks \ {t} : pc'[u] = pc[u]
  BY DEF Park, Goto, Nested, IInv, TypeOK
<1>4. PICK k \in 0 .. Len(list) :
        xTasksWaitingToReceive' = [xTasksWaitingToReceive EXCEPT ![m] = Insert(list, t, k)]
  BY <1>0 DEF Park
<1>5. /\ xTasksWaitingToReceive'[m] = Insert(list, t, k)
      /\ \A n \in Mutexes \ {m} : xTasksWaitingToReceive'[n] = xTasksWaitingToReceive[n]
  BY <1>2, <1>4 DEF Nested, IInv, TypeOK
<1>6. /\ Distinct(Insert(list, t, k)) /\ Elems(Insert(list, t, k)) \subseteq Elems(list) \cup {t}
      /\ Elems(list) = Waiters(m)
  <2>1. Elems(list) = Waiters(m)
    BY <1>0, WaitersAre
  <2>2. Distinct(list)
    BY <1>0, <1>2 DEF Nested, NestedInv
  <2> QED BY <1>2, <2>1, <2>2, InsertDistinct
<1>7. /\ Waiters(m)' \subseteq Waiters(m) \cup {t}
      /\ \A n \in Mutexes \ {m} : Waiters(n)' = Waiters(n)
  <2>1. Waiters(m)' = Elems(xTasksWaitingToReceive'[m])
    BY DEF Waiters, Elems
  <2>2. \A n \in Mutexes \ {m} : Waiters(n)' = Waiters(n)
    BY <1>5 DEF Waiters
  <2> QED BY <1>5, <1>6, <2>1, <2>2
<1>8. \A n \in Mutexes : \A u \in Waiters(n)' :
         pc'[u] = "parked" /\ want'[u] = n /\ u \notin ready'
  <2> SUFFICES ASSUME NEW n \in Mutexes, NEW u \in Waiters(n)'
               PROVE  pc'[u] = "parked" /\ want'[u] = n /\ u \notin ready'
    OBVIOUS
  <2>1. CASE u = t
    BY <1>0, <1>2, <1>3, <1>7, <2>1
  <2>2. CASE u # t
    <3>1. u \in Waiters(n) /\ u \in Tasks \ {t}
      BY <1>7, <2>2, NestedFacts
    <3> QED BY <1>3, <3>1 DEF Nested, NestedInv
  <2> QED BY <2>1, <2>2
<1>9. \A n \in Mutexes : Distinct(xTasksWaitingToReceive'[n])
  BY <1>5, <1>6 DEF Nested, NestedInv
<1>10. BitsNameReadyLists'
  <2> DEFINE bits == IF Inherits(h, t) THEN BitsMoved(h, uxPriority[t], uxPriority[h])
                     ELSE uxTopReadyPriority
  <2>1. uxTopReadyPriority' = IF \E u \in ready \ {t} : uxPriority'[u] = uxPriority[t]
                              THEN bits ELSE bits \ {uxPriority[t]}
    BY <1>0 DEF Park
  <2>2. bits = {uxPriority'[u] : u \in ready} /\ uxPriority'[t] = uxPriority[t]
    <3>1. CASE Inherits(h, t)
      <4>1. uxPriority' = [uxPriority EXCEPT ![h] = uxPriority[t]] /\ uxPriority[t] \in Nat
        BY <1>0, <1>2, <3>1 DEF Park
      <4>2. h # t
        BY <1>2, <3>1 DEF Inherits
      <4> QED BY <1>2, <3>1, <4>1, <4>2, BitsMovedRight
    <3>2. CASE ~Inherits(h, t)
      <4>1. uxPriority' = uxPriority
        BY <1>0, <3>2 DEF Park
      <4> QED BY <1>2, <3>2, <4>1 DEF BitsNameReadyLists
    <3> QED BY <3>1, <3>2
  <2> HIDE DEF bits
  <2>3. {uxPriority'[u] : u \in ready} = {uxPriority'[u] : u \in ready \ {t}} \cup {uxPriority[t]}
    BY <1>2, <2>2
  <2>4. CASE \E u \in ready \ {t} : uxPriority'[u] = uxPriority[t]
    BY <1>3, <2>1, <2>2, <2>3, <2>4 DEF BitsNameReadyLists
  <2>5. CASE ~ \E u \in ready \ {t} : uxPriority'[u] = uxPriority[t]
    BY <1>3, <2>1, <2>2, <2>3, <2>5 DEF BitsNameReadyLists
  <2> QED BY <2>4, <2>5
<1>11. \A u \in Tasks : wait'[u] \in {"zero", "infinite"} /\ pc'[u] \notin {"recheck", "disinherit"}
  BY <1>3 DEF Nested, NestedInv
<1> QED BY <1>3, <1>8, <1>9, <1>10, <1>11 DEF NestedInv, Distinct

LEMMA NestedGive ==
    ASSUME Nested, NEW t \in Tasks, NEW m \in Mutexes, Give(t, m)
    PROVE  NestedInv'
<1>0. PICK list : list = xTasksWaitingToReceive[m]
  OBVIOUS
<1>1. /\ Running(t) /\ t \in ready /\ pc[t] = "user"
      /\ \A n \in Mutexes : t \notin Waiters(n)
      /\ uxPriority \in [Tasks -> Nat] /\ BasePriority[t] \in Nat /\ ready \subseteq Tasks
      /\ BitsNameReadyLists /\ list \in Seq(Tasks)
  <2>1. Running(t) /\ pc[t] = "user"
    BY DEF Give
  <2> QED BY <1>0, <2>1, NestedFacts
<1>2. UNCHANGED <<pxCurrentTCB, pc, want, wait>>
  BY DEF Give, callVars
<1> DEFINE bits == IF GivesBack(t) THEN BitsMoved(t, BasePriority[t], uxPriority[t])
                   ELSE uxTopReadyPriority
<1>3. /\ bits = {uxPriority'[u] : u \in ready}
      /\ \A u \in Tasks \ {t} : uxPriority'[u] = uxPriority[u]
  <2>1. CASE GivesBack(t)
    <3>1. uxPriority' = [uxPriority EXCEPT ![t] = BasePriority[t]]
      BY <2>1 DEF Give
    <3> QED BY <1>1, <2>1, <3>1, BitsMovedRight
  <2>2. CASE ~GivesBack(t)
    <3>1. uxPriority' = uxPriority
      BY <2>2 DEF Give
    <3> QED BY <1>1, <2>2, <3>1 DEF BitsNameReadyLists
  <2> QED BY <2>1, <2>2
<1>4. \A u \in Tasks : wait'[u] \in {"zero", "infinite"} /\ pc'[u] \notin {"recheck", "disinherit"}
  BY <1>2 DEF Nested, NestedInv
<1>5. pxCurrentTCB' \in ready
  BY <1>1, <1>2 DEF Running
<1>6. CASE list = <<>>
  <2>1. /\ uxTopReadyPriority' = bits
        /\ ready' = ready /\ xTasksWaitingToReceive' = xTasksWaitingToReceive
    BY <1>0, <1>6 DEF Give
  <2>2. \A n : Waiters(n)' = Waiters(n)
    BY <2>1 DEF Waiters
  <2>3. BitsNameReadyLists'
    BY <1>3, <2>1 DEF BitsNameReadyLists
  <2>4. /\ \A n \in Mutexes : Distinct(xTasksWaitingToReceive'[n])
        /\ \A n \in Mutexes : \A u \in Waiters(n)' :
              pc'[u] = "parked" /\ want'[u] = n /\ u \notin ready'
    BY <1>2, <2>1, <2>2 DEF Nested, NestedInv
  <2> QED BY <1>4, <1>5, <2>1, <2>3, <2>4 DEF NestedInv, Distinct
<1>7. CASE list # <<>>
  <2>0. PICK w : w = Head(list)
    OBVIOUS
  <2>1. /\ xTasksWaitingToReceive' = [xTasksWaitingToReceive EXCEPT ![m] = Tail(list)]
        /\ ready' = ready \cup {w}
        /\ uxTopReadyPriority' = bits \cup {uxPriority[w]}
    BY <1>0, <1>7, <2>0 DEF Give
  <2>2. /\ Waiters(m) = Elems(list) /\ w \in Waiters(m)
        /\ Distinct(Tail(list)) /\ Elems(Tail(list)) \subseteq Waiters(m) \ {w}
    <3>1. Waiters(m) = Elems(list)
      BY <1>0, WaitersAre
    <3>2. Distinct(list)
      BY <1>0 DEF Nested, NestedInv
    <3> QED BY <1>1, <1>7, <2>0, <3>1, <3>2, TailDistinct
  <2>3. /\ xTasksWaitingToReceive'[m] = Tail(list)
        /\ \A n \in Mutexes \ {m} : xTasksWaitingToReceive'[n] = xTasksWaitingToReceive[n]
    BY <2>1 DEF Nested, IInv, TypeOK
  <2>4. /\ Waiters(m)' \subseteq Waiters(m) \ {w}
        /\ \A n \in Mutexes \ {m} : Waiters(n)' = Waiters(n)
    <3>1. Waiters(m)' = Elems(xTasksWaitingToReceive'[m])
      BY DEF Waiters, Elems
    <3>2. \A n \in Mutexes \ {m} : Waiters(n)' = Waiters(n)
      BY <2>3 DEF Waiters
    <3> QED BY <2>2, <2>3, <3>1, <3>2
  <2>5. w \in Tasks \ {t} /\ uxPriority'[w] = uxPriority[w]
    BY <1>1, <1>3, <2>2, NestedFacts
  <2>6. BitsNameReadyLists'
    BY <1>3, <2>1, <2>5 DEF BitsNameReadyLists
  <2>7. \A n \in Mutexes : \A u \in Waiters(n)' :
           pc'[u] = "parked" /\ want'[u] = n /\ u \notin ready'
    <3> SUFFICES ASSUME NEW n \in Mutexes, NEW u \in Waiters(n)'
                 PROVE  pc'[u] = "parked" /\ want'[u] = n /\ u \notin ready'
      OBVIOUS
    <3>1. u \in Waiters(n) /\ (n = m => u # w)
      BY <2>4
    <3>2. pc[u] = "parked" /\ want[u] = n /\ u \notin ready /\ want[w] = m
      BY <2>2, <3>1 DEF Nested, NestedInv
    <3> QED BY <1>2, <2>1, <3>1, <3>2
  <2>8. \A n \in Mutexes : Distinct(xTasksWaitingToReceive'[n])
    BY <2>2, <2>3 DEF Nested, NestedInv
  <2> QED BY <1>4, <1>5, <2>1, <2>6, <2>7, <2>8 DEF NestedInv, Distinct
<1> QED BY <1>6, <1>7

\* The rest of the kernel's steps.
LEMMA NestedOther ==
    ASSUME Nested,
           \/ \E t \in Tasks : Sleep(t) \/ Wake(t) \/ SwitchContext(t)
           \/ UNCHANGED vars
    PROVE  NestedInv'
<1> USE DEF vars, schedVars, prioVars, mutexVars, callVars
<1>1. UNCHANGED <<uxPriority, xTasksWaitingToReceive, want, wait>>
  BY DEF Sleep, Wake, SwitchContext
<1>2. \A m : Waiters(m)' = Waiters(m)
  BY <1>1 DEF Waiters
<1>3. \A m \in Mutexes : Distinct(xTasksWaitingToReceive'[m])
  BY <1>1 DEF Nested, NestedInv
<1>4. /\ \A u \in Tasks : \/ pc'[u] = pc[u]
                          \/ pc[u] \in {"user", "asleep"} /\ pc'[u] \in {"user", "asleep"}
      /\ \A u \in ready' : u \in ready \/ pc[u] = "asleep"
  BY DEF Sleep, Wake, SwitchContext, Goto, Nested, IInv, TypeOK
<1>5. \A u \in Tasks : wait'[u] \in {"zero", "infinite"} /\ pc'[u] \notin {"recheck", "disinherit"}
  BY <1>1, <1>4 DEF Nested, NestedInv
<1>6. \A m \in Mutexes : \A u \in Waiters(m)' :
         pc'[u] = "parked" /\ want'[u] = m /\ u \notin ready'
  <2> SUFFICES ASSUME NEW m \in Mutexes, NEW u \in Waiters(m)
               PROVE  pc'[u] = "parked" /\ want'[u] = m /\ u \notin ready'
    BY <1>2
  <2>1. u \in Tasks /\ pc[u] = "parked" /\ want[u] = m /\ u \notin ready
    BY NestedFacts DEF Nested, NestedInv
  <2> QED BY <1>1, <1>4, <2>1
<1>7. ~pendSV' => pxCurrentTCB' \in ready'
  <2>1. ASSUME NEW t \in Tasks, Sleep(t) PROVE pendSV'
    BY <2>1 DEF Sleep
  <2>2. ASSUME NEW t \in Tasks, Wake(t) PROVE ~pendSV' => pxCurrentTCB' \in ready'
    <3>1. (~pendSV' => ~pendSV) /\ pxCurrentTCB' = pxCurrentTCB /\ ready \subseteq ready'
      BY <2>2 DEF Wake
    <3> QED BY <3>1 DEF Nested, NestedInv
  <2>3. ASSUME NEW t \in Tasks, SwitchContext(t) PROVE pxCurrentTCB' \in ready'
    BY <2>3 DEF SwitchContext
  <2>4. CASE UNCHANGED vars
    BY <2>4 DEF Nested, NestedInv
  <2> QED BY <2>1, <2>2, <2>3, <2>4
<1>8. BitsNameReadyLists'
  <2>1. ASSUME NEW t \in Tasks, Sleep(t) PROVE BitsNameReadyLists'
    <3>1. /\ t \in ready /\ ready' = ready \ {t} /\ uxPriority' = uxPriority
          /\ uxTopReadyPriority' = Reset(uxTopReadyPriority, uxPriority[t], ready \ {t})
      BY <2>1, NestedFacts DEF Sleep
    <3>2. uxTopReadyPriority = {uxPriority[u] : u \in ready \ {t}} \cup {uxPriority[t]}
      BY <3>1 DEF Nested, NestedInv, BitsNameReadyLists
    <3>3. uxTopReadyPriority' = {uxPriority[u] : u \in ready \ {t}}
      <4>1. CASE \E u \in ready \ {t} : uxPriority[u] = uxPriority[t]
        BY <3>1, <3>2, <4>1 DEF Reset
      <4>2. CASE ~ \E u \in ready \ {t} : uxPriority[u] = uxPriority[t]
        BY <3>1, <3>2, <4>2 DEF Reset
      <4> QED BY <4>1, <4>2
    <3> QED BY <3>1, <3>3 DEF BitsNameReadyLists
  <2>2. ASSUME NEW t \in Tasks, Wake(t) PROVE BitsNameReadyLists'
    BY <2>2 DEF Wake, Nested, NestedInv, BitsNameReadyLists
  <2>3. ASSUME NEW t \in Tasks, SwitchContext(t) PROVE BitsNameReadyLists'
    BY <2>3 DEF SwitchContext, Nested, NestedInv, BitsNameReadyLists
  <2>4. CASE UNCHANGED vars
    BY <2>4 DEF Nested, NestedInv, BitsNameReadyLists
  <2> QED BY <2>1, <2>2, <2>3, <2>4
<1> QED BY <1>3, <1>5, <1>6, <1>7, <1>8 DEF NestedInv, Distinct

LEMMA NestedStep ==
    ASSUME Nested, [Next]_vars
    PROVE  NestedInv'
<1>1. ASSUME NEW m \in Mutexes, NEW n \in 1 .. Len(xTasksWaitingToReceive[m]), Tick(m, n)
      PROVE  FALSE
  <2>1. PICK t : t = xTasksWaitingToReceive[m][n]
    OBVIOUS
  <2>2. t \in Tasks
    BY <2>1, NestedFacts
  <2> QED BY <1>1, <2>1, <2>2 DEF Tick, Nested, NestedInv
<1>2. ASSUME NEW t \in Tasks, TaskStep(t) PROVE NestedInv'
  BY <1>2, NestedTakeSteps, NestedPark
<1>3. ASSUME NEW t \in Tasks, Sleep(t) \/ Wake(t) \/ SwitchContext(t) PROVE NestedInv'
  BY <1>3, NestedOther
<1>4. ASSUME NEW t \in Tasks, \E m \in Mutexes, w \in Waits[t] : Take(t, m, w) PROVE NestedInv'
  BY <1>4, NestedTakeSteps
<1>5. ASSUME NEW t \in Tasks, NEW m \in Mutexes, Give(t, m) PROVE NestedInv'
  BY <1>5, NestedGive
<1>6. CASE UNCHANGED vars
  BY <1>6, NestedOther
<1> QED BY <1>1, <1>2, <1>3, <1>4, <1>5, <1>6 DEF Next

LEMMA InitNested == Init => NestedInv
<1> SUFFICES ASSUME Init PROVE NestedInv
  OBVIOUS
<1> USE MutexAssumption DEF Init
<1>1. \A m \in Mutexes : Waiters(m) = {} /\ Distinct(xTasksWaitingToReceive[m])
  BY DEF Waiters, Distinct
<1>2. BitsNameReadyLists
  BY DEF BitsNameReadyLists
<1> QED BY <1>1, <1>2 DEF NestedInv

-----------------------------------------------------------------------------
(* What follows.                                                             *)

\* FlatInv is inductive where no task takes a mutex while it holds another.
THEOREM FlatInvariance == FlatUse /\ Spec => []FlatInv
<1>1. CASE FlatUse
  <2>1. IInv /\ FlatInv /\ [Next]_vars => FlatInv'
    BY <1>1, FlatStep DEF Flat
  <2> QED BY <2>1, InitFlat, Invariance, PTL DEF Spec
<1> QED BY <1>1

\* No holder runs below a task that waits for its mutex, so no task of middle
\* priority keeps both from running.  Where mutexes nest this is not so: a
\* holder that waits for a second mutex does not pass on what it inherits.
THEOREM NeverInverted == FlatUse /\ Spec => []NoInversion
<1>1. FlatInv => NoInversion
  BY DEF FlatInv
<1> QED BY <1>1, FlatInvariance, PTL

\* A raised priority is that of a task which is still in a call for the mutex.
THEOREM InheritedFromAWaiter == FlatUse /\ Spec => []InheritedForAWaiter
<1>1. FlatInv => InheritedForAWaiter
  BY DEF FlatInv, Lent, Lends, InheritedForAWaiter
<1> QED BY <1>1, FlatInvariance, PTL

\* The bit map names exactly the ready lists that hold a task, if mutexes do not
\* nest or, as in lwIP, nobody waits for one with a timeout.  With both, the bit
\* that vTaskPriorityDisinheritAfterTimeout resets may be another's.
THEOREM BitsRight == (FlatUse \/ NoTimeouts) /\ Spec => []BitsNameReadyLists
<1>1. FlatInv => BitsNameReadyLists
  BY DEF FlatInv
<1>2. NestedInv => BitsNameReadyLists
  BY DEF NestedInv
<1>3. FlatUse /\ Spec => []BitsNameReadyLists
  BY <1>1, FlatInvariance, PTL
<1>4. NoTimeouts /\ Spec => []BitsNameReadyLists
  <2>1. CASE NoTimeouts
    <3>1. IInv /\ NestedInv /\ [Next]_vars => NestedInv'
      BY <2>1, NestedStep DEF Nested
    <3> QED BY <1>2, <3>1, InitNested, Invariance, PTL DEF Spec
  <2> QED BY <2>1
<1> QED BY <1>3, <1>4
=============================================================================
