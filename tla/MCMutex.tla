------------------------------ MODULE MCMutex ------------------------------
(* Instances of Mutex for TLC.                                              *)
EXTENDS Mutex

CONSTANTS idle, low, mid, high

MCTasks == {idle, low, mid, high}
MCBasePriority == [t \in MCTasks |-> CASE t = idle -> 0 [] t = low -> 1
                                      [] t = mid -> 2 [] t = high -> 3]
MCLowPriority == [MCBasePriority EXCEPT ![mid] = 1]
OneMutex == [t \in MCTasks |-> IF t = idle THEN {} ELSE {1}]
TwoMutexes == [t \in MCTasks |-> CASE t = idle -> {} [] t = low -> {1, 2}
                                  [] t = mid -> {2} [] t = high -> {1}]
AllWaits == [t \in MCTasks |-> {"zero", "finite", "infinite"}]
InfiniteWaits == [t \in MCTasks |-> {"infinite"}]

\* What the assertion in xQueueSemaphoreTake stops stays as it is; anything else
\* that stops is a deadlock.
Stopped == Halted /\ UNCHANGED vars
MCSpec == Init /\ [][Next \/ Stopped]_vars /\ Fairness
=============================================================================
