------------------------------- MODULE Mailbox -------------------------------
(***************************************************************************)
(* What a message queue promises to the tasks and interrupt handlers that  *)
(* use it (lwIP's mailboxes and the timer command queue are such queues):  *)
(* a bounded FIFO in which every operation takes effect at one instant,    *)
(* an untimed call never fails, a polling call fails only on a full or     *)
(* empty queue, and a timed receive never gives up on a non-empty one.     *)
(* How waiting tasks are parked and woken is module Queue's business.      *)
(***************************************************************************)
EXTENDS Sequences, Naturals

CONSTANTS Tasks, Length, Values, None

VARIABLES
    mail,       \* the messages, oldest first
    call,       \* what each task is doing: "none", "send" or "receive"
    wait,       \* "zero", "finite" or "infinite"; "expired" when time is up
    item,       \* the message to send, or the last one received
    result      \* how the task's last call ended

vars == <<mail, call, wait, item, result>>

Init ==
    /\ mail = <<>>
    /\ call = [t \in Tasks |-> "none"]
    /\ wait = [t \in Tasks |-> "zero"]
    /\ item = [t \in Tasks |-> None]
    /\ result = [t \in Tasks |-> "pass"]

Begin(t) ==
    /\ call[t] = "none"
    /\ \E c \in {"send", "receive"}, w \in {"zero", "finite", "infinite"} :
          /\ call' = [call EXCEPT ![t] = c]
          /\ wait' = [wait EXCEPT ![t] = w]
          /\ IF c = "send"
             THEN \E v \in Values : item' = [item EXCEPT ![t] = v]
             ELSE item' = item
    /\ UNCHANGED <<mail, result>>

Return(t, r) ==
    /\ call' = [call EXCEPT ![t] = "none"]
    /\ wait' = [wait EXCEPT ![t] = "zero"]
    /\ result' = [result EXCEPT ![t] = r]

Send(t) ==
    /\ call[t] = "send" /\ Len(mail) < Length
    /\ mail' = Append(mail, item[t])
    /\ Return(t, "pass")
    /\ UNCHANGED item

Receive(t) ==
    /\ call[t] = "receive" /\ mail # <<>>
    /\ mail' = Tail(mail)
    /\ item' = [item EXCEPT ![t] = Head(mail)]
    /\ Return(t, "pass")

\* A poll fails on a full queue; a timed send fails once its time is up.
SendFails(t) ==
    /\ call[t] = "send"
    /\ wait[t] = "expired" \/ (wait[t] = "zero" /\ Len(mail) = Length)
    /\ Return(t, "full")
    /\ UNCHANGED <<mail, item>>

\* A receive that may fail does so only on an empty queue.
ReceiveFails(t) ==
    /\ call[t] = "receive" /\ wait[t] \in {"zero", "expired"}
    /\ mail = <<>>
    /\ Return(t, "empty")
    /\ UNCHANGED <<mail, item>>

Expire(t) ==
    /\ call[t] # "none" /\ wait[t] = "finite"
    /\ wait' = [wait EXCEPT ![t] = "expired"]
    /\ UNCHANGED <<mail, call, item, result>>

\* A timed receive that finds a message after all tries once more.
LastTry(t) ==
    /\ call[t] = "receive" /\ wait[t] = "expired" /\ mail # <<>>
    /\ wait' = [wait EXCEPT ![t] = "zero"]
    /\ UNCHANGED <<mail, call, item, result>>

SendFromISR ==
    /\ Len(mail) < Length
    /\ \E v \in Values : mail' = Append(mail, v)
    /\ UNCHANGED <<call, wait, item, result>>

ReceiveFromISR ==
    /\ mail # <<>>
    /\ mail' = Tail(mail)
    /\ UNCHANGED <<call, wait, item, result>>

Next ==
    \/ \E t \in Tasks :
          \/ Begin(t) \/ Send(t) \/ Receive(t) \/ SendFails(t)
          \/ ReceiveFails(t) \/ Expire(t) \/ LastTry(t)
    \/ SendFromISR
    \/ ReceiveFromISR

Spec == Init /\ [][Next]_vars

=============================================================================
