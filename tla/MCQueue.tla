------------------------------- MODULE MCQueue -------------------------------
(* Instances of Queue for TLC.                                              *)
EXTENDS Queue, TLC

CONSTANTS hi, lo, idle

Waits == {"zero", "finite", "infinite"}

\* Two tasks of different priorities that make every call.
TwoTasks == {hi, lo, idle}
TwoPrio == (hi :> 2) @@ (lo :> 1) @@ (idle :> 0)
AllCalls == [t \in TwoTasks |->
                IF t = idle THEN {} ELSE {"send", "receive"} \X Waits]
HiSleeps == {hi}

\* A receiver that sleeps now and then above a sender, and interrupts that post
\* too, as they do for the tcpip thread: it waits with a timeout armed or without
\* one, and the sender calls sys_mbox_post and sys_mbox_trypost.
ServerCalls == (hi :> {<<"receive", "infinite">>, <<"receive", "finite">>})
               @@ (lo :> {<<"send", "infinite">>, <<"send", "zero">>}) @@ (idle :> {})

\* The processor takes a pending exception, and between interrupts it executes
\* the current task (strong fairness: each tick may pend PendSV anew, but its
\* handler takes far less than a tick period); a sleeper's timeout comes, at a
\* tick that does not always fall into a stretch with the scheduler suspended;
\* and a task that sleeps now and then comes back to its queue call.
WakeSleeper(t) == t \in timed /\ Tick /\ t \notin timed'

FairSpec ==
    /\ Spec
    /\ WF_vars(PendSV)
    /\ SF_vars(\E t \in Tasks : TaskStep(t))
    /\ \A t \in Tasks \ {Idle} : SF_vars(WakeSleeper(t)) /\ SF_vars(Call(t))

\* A receiver parked with a message in the queue gets out of the call (with no
\* rival that could take the message, that is: with the message).
ParkedReceiverServed ==
    \A t \in Tasks \ {Idle} :
        (t \in xTasksWaitingToReceive /\ uxMessagesWaiting > 0)
            ~> pc[t] = "user"

\* A sender parked on a full queue is taken off the list again, however busily
\* interrupts refill the queue.
ParkedSenderReleased ==
    \A t \in Tasks \ {Idle} :
        t \in xTasksWaitingToSend ~> t \notin xTasksWaitingToSend
=============================================================================
