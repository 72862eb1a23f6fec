# A verification of the TCP echo firmware

This directory specifies, model-checks and proves parts of the firmware in this
repository: a TCP echo server for the FRDM-K64F board, on lwIP 2.1 and FreeRTOS
V10.2.1 with NXP's Ethernet driver. Everything is TLA+. TLC checks small
instances, TLAPS proves theorems for every value of the constants.

Paths below are relative to `src/frdmk64f_lwip_tcpecho_freertos_myssn/`;
`kernel/` stands for `amazon-freertos/freertos_kernel/`.

## 1. The system

One processor, five tasks, and the interrupts of the tick and of the Ethernet
controller:

| task | priority | what it does |
|---|---|---|
| timer daemon | 17 | executes the calls that interrupts pend, here `xEventGroupSetBits` |
| `tcpip_thread` | 8 | fetches messages from `tcpip_mbox`, runs the whole of lwIP, sends frames |
| `aescrc_task` | 4 | encrypts a test vector, prints it, returns |
| `tcpecho_thread` | 3 | netconn calls: accept, receive, write, close |
| idle | 0 | |

A received frame goes: controller -> descriptor ring -> receive interrupt
(`ethernetif_input`, in the interrupt handler) -> pbuf -> message posted to
`tcpip_mbox` (a FreeRTOS queue) -> `tcpip_thread` -> TCP -> the connection's
receive mailbox (another queue) -> `tcpecho_thread`. A frame to send goes:
`netconn_write` under the core lock (a FreeRTOS mutex) -> TCP -> ARP ->
`ethernetif_linkoutput` -> descriptor ring -> controller. When the ring is full the
sender waits on an event group, which the transmit interrupt sets by way of the
timer queue and the timer daemon.

### 1.1 Inventory

| component | source | state | operations | hard behaviours | what makes it correct |
|---|---|---|---|---|---|
| scheduler | `kernel/tasks.c`, `portable/.../port.c` | ready, delayed, overflow, suspended and pending-ready lists, current task, suspension count, pended ticks, PendSV | suspend and resume all, place on and remove from an event list, switch, tick | interrupts between any two steps of a blocking call; wake-ups while suspended | the highest ready task runs; every task is in one place; no owed switch is forgotten |
| tick time | `kernel/tasks.c` | tick count, overflows, cached unblock time, wake times | tick, delay, delay until, time-out check | wrap of the 32-bit count, pended ticks, cache that goes stale | nobody wakes early or late, no time-out is early or missed |
| queue | `kernel/queue.c` | ring, write and read position, count, two lock counts, two event lists | send, receive, both from interrupts, lock, unlock | test-then-block race, one post that should wake two, time-out against wake-up | FIFO, nothing lost, no receiver parked beside a message |
| mutex | `kernel/queue.c`, `tasks.c` | holder, count, inherited priority | take, give, inherit, disinherit, time out | several waiters, several mutexes, time-outs | the holder runs at the highest waiter's priority, and gets its own back |
| event group | `kernel/event_groups.c` | bits, waiters | wait, set, set from an interrupt | the bit is set between the test and the wait | no lost wake-up |
| timers | `kernel/timers.c` | command queue, two timer lists | pend a call, process commands and expired timers | full command queue, wrap of the time | a pended call is executed once, in order |
| Ethernet transmit | `drivers/fsl_enet.c`, `lwip/port/enet_ethernetif_kinetis.c` | descriptor ring, event flag | `ENET_SendFrame`, transmit interrupt, wait | ring full against interrupt, full timer queue, frames of several descriptors | once, in order, and every call returns |
| Ethernet receive | the same, `lwip/port/enet_ethernetif.c` | descriptor ring | `ENET_GetRxFrameSize`, `ENET_ReadFrame`, receive interrupt | controller writes while the handler reads, errors, exhausted pools | in order, nothing leaked, nothing left behind |
| tcpip thread | `lwip/src/api/tcpip.c` | mailbox, message pool, core lock | input, callback, API call, time-outs | mailbox and pool full | messages handled once, in order |
| start | `source/lwip_tcpecho_freertos.c`, `port.c` | objects created so far, interrupt mask | `main` | the controller is enabled before the scheduler and before the queue its handler posts to | no assertion fails, no interrupt's work is lost |
| system layer | `lwip/port/sys_arch.c` | mailboxes, semaphores | post, fetch, time-outs in ms | time-outs rounded and mixed up with results | lwIP's contract of mailboxes and semaphores |
| network API | `lwip/src/api/api_lib.c`, `api_msg.c` | connections, receive and accept mailboxes | accept, recv, write, close | full mailbox, close against data | bytes in order, nobody waits for ever |
| TCP | `lwip/src/core/tcp*.c` | state of each connection, unsent, unacked and out-of-order segments, timers | input, output, time-outs | loss, duplication, reordering, simultaneous close | the stream of bytes is delivered in order, once |
| lwIP time-outs | `lwip/src/core/timeouts.c` | sorted list | add, remove, run | wrap; handlers that change the list | due handlers run in order |
| ARP | `lwip/src/core/ipv4/etharp.c` | table of entries with states and queues | find, update, query, timer | recycling of entries with queued packets | at most one entry per address; no packet lost from a stable entry |
| memory | `lwip/src/core/pbuf.c`, `mem.c`, `memp.c` | pools, reference counts | alloc, free, ref | shared chains | freed once, by the last owner |
| AES, CRC | `source/aes.c`, `crc.c` | none | functions | | agree with their definitions |
| serial | `component/` | ring buffer of the UART | read, write, interrupt | ring full against interrupt | FIFO |

Not modelled at all, now or later: PPP, IPv6, 6LoWPAN, sockets, DHCP, DNS, MQTT and
the other parts of lwIP that the build configures out or never calls; stream
buffers; CMSIS and device headers, clocks, pins and start-up code; `Debug/`.

## 2. Modules

| module | models | used by |
|---|---|---|
| `Scheduler` | state and pieces of steps of the scheduler, with lists as sets and time abstract | EXTENDed by `Queue` |
| `Queue` | `xQueueGenericSend`, `xQueueReceive`, their interrupt versions, `vTaskDelay`, lock and unlock, the tick and PendSV | |
| `Mailbox` | what callers take a queue for: a bounded FIFO with blocking, polling and timed calls | implemented by `Queue` and by the ring of `EnetTx` |
| `TickTime` | the tick counter, delayed lists, `vTaskDelay`, `vTaskDelayUntil`, time-outs, with `TickType_t` of a given width | |
| `EnetTx` | from `ethernetif_linkoutput` to the wire and back through interrupt, timer queue and event group | |
| `EnetRx` | from the wire to `tcpip_thread` | |
| `Boot` | `main`, to the running tasks | |
| `Mutex` | `xQueueSemaphoreTake` and the give of a mutex, `xTaskPriorityInherit` and its two inverses, the ready lists' bit map | |
| `Stream` | what one direction of a TCP connection promises | implemented twice by `Tcp` |
| `Tcp` | a connection of two hosts that both run `tcp.c`, `tcp_in.c` and `tcp_out.c`, over a faulty network | |
| `QueueProofs`, `QueueWakeupProofs`, `TickTimeProofs`, `EnetTxProofs`, `EnetRxProofs`, `BootProofs`, `MutexProofs`, `TcpProofs` | theorems | |
| `MC...` | instances for TLC | |

A definition named `...Missed`, `...Untested`, `...Unwrapped` and so on, with a comment that
begins "Mutant", stands before the operator of the code that it corrupts. It is used by no
specification: replacing the one by the other shows that the property really
depends on that code.

### 2.1 Scheduler and Queue

Every access to the kernel's data is in a critical section or with the scheduler
suspended, so one action is one critical section, or one stretch of code between two
places at which an interrupt can do something visible. `pc[t]` is where task `t` is in
the call it is executing:

    user -> try -> suspend -> lock -> timeout -> test -> place
         -> unlockTx -> unlockRx -> resume -> (yield | recheck | try)

`xQueueGenericSend` and `xQueueReceive` have the same shape and share these labels, and
`op[t]` tells them apart; `vTaskDelay` uses `suspend`, `place`, `resume` and `yield`. They
differ once: after a time-out `xQueueReceive` looks again whether the queue is empty
(`Recheck`) and the sender returns at once. `path[t]` remembers why the call is
unlocking the queue (it timed out, is to try again, or is parked). An interrupt
(`Tick`, `SendFromISR`, `ReceiveFromISR`) can happen between any two actions, also
of another task; PendSV is pending until no interrupt handler runs, and is taken before the
task's next step. A wait is "zero", "finite" or "infinite": when a finite wait is
over is left open here (any tick may end it) and is `TickTime`'s subject.

Lists are sets, and the head of a list is any member of the highest priority. The
lists keep equal priorities in FIFO order, which no property here needs, and which
the set allows as one of its choices.

`Position(i)` in the refinement mapping walks the ring from `pcReadFrom`, which points at
the message read last: the oldest message is one further on. The mapping takes `Mailbox`'s
`call` from `pc` and `op`, and a call that has timed out to `"expired"`.

### 2.2 TickTime

`Wrap` is `2^configTICK_TYPE_WIDTH`; `Plus` and `Minus` are the C arithmetic. `clock` (every tick that came; it never wraps), `wake`,
`entered`, `total` and `last` are history: no action of the code reads them. They say
what the wrapped values mean, and the properties compare the two.
A tick that arrives with the scheduler suspended only counts in `uxPendedTicks`, and `xTaskResumeAll` later replays
each. `now`, the time the kernel has to know of, is `clock` without the ticks still pended, so that a tick that is pended and then lost
moves `now` but nobody's wake-up, which the properties see.

### 2.3 EnetTx and EnetRx

A descriptor is a record with the flags the code tests. The controller (`Transmit`, `Receive`) is
external: it takes the next ready descriptor, or fills the next empty one, at any time. The interrupt
handlers are two or more actions, so the controller acts between reading the ring and clearing the
event, and so on. In the build every buffer holds a whole frame, so a frame takes one descriptor; the driver also
has code for frames of several, where descriptors that keep the length of their last frame
can mislead `ENET_GetRxFrameSize`; no run checks that case for the receiver. In `EnetTx` each frame takes some number of descriptors from the constant `Sizes`, chosen when
`linkoutput` is called (`size`), so that short and long frames mix. In `EnetRx` the constant `Buffers` is that number for all
frames, 1 in the run that checks the build's behaviour. Frame numbers stand for the contents.

In `EnetTx` the daemon executes `xEventGroupSetBits` with the scheduler suspended, so `SetBits` is
one action; so is the sender's `WaitBits`. The timer queue has `TimerQueueLength` places and a post to a full queue
fails, as in the code.

In `EnetRx` what becomes of a packet once `tcpip_thread` has it is left open: it may be freed at once,
or kept (in a receive mailbox or an out-of-order queue) and freed later.

### 2.4 Boot

`Program` lists what `main` and the functions it calls do, in order: objects created, the core lock taken and released
around each `netifapi` call, tasks created, the scheduler started. `nested` is "the critical nesting count is not 0", which
holds from the start because the count is initialised with 0xaaaaaaaa (`port.c:146`): the first critical
section masks the interrupts and no exit unmasks them until the first task is started.

In the model as in the code the firmware ends in `aescrc_test_task` (`halted = "exit"`). The task returns at its end (`source/lwip_tcpecho_freertos.c:186`)
to `prvTaskExitError`, which masks the interrupts and loops; it has a higher priority than the echo server's task and never waits, so the server never runs.
`port.c:221-223` says "A function that implements a task must not exit or attempt to return to its caller as there is nothing to return to". Every
complete behaviour of the model gets there, so no run is spent on it; `NothingOverlooked` speaks of that moment.

### 2.5 Mutex

Both of lwIP's locks in this build, the core lock and the heap's, are FreeRTOS mutexes. `pc[t]` is where a task is:

    user -> try -> suspend -> parked -> recheck -> disinherit -> user

`try` is the critical section at the head of `xQueueSemaphoreTake`'s loop. `suspend` is the stretch from `vTaskSuspendAll` to
`xTaskResumeAll`: no interrupt may use a mutex, so only ticks can happen in it, which the kernel keeps until the resume, and the
stretch is one action. `recheck` and `disinherit` are the second test and the critical section after a time-out, with room in
between for the mutex to change hands. A task may also sleep while it holds a mutex (`Sleep`, `Wake`), as a sender does that waits in
`linkoutput` with the core lock held; what wakes it is external. `halted` is the assertion at `queue.c:1507`, which `MCMutexAssert` shows to fail; the task stays there
and nothing runs any more.

Event lists are sequences sorted by the priority a task had when it was placed, because inheritance does not re-sort them. `BitsMoved` is
what `taskRESET_READY_PRIORITY` and `prvAddTaskToReadyList` do to the bit map when a ready task changes its priority.

### 2.6 Tcp and Stream

The stack of a host runs under the core lock, so one action is one segment received, one call of the application or one timer. Each
handler of the code is an operator from a context to a context: the pcb, the segments it has sent, the application's state, the listener's
`accepts_pending`, and what `tcp_receive` left for `tcp_input` (`recv_data`, `recv_flags`). `Input` composes them as
`tcp_input` does, with the refused data first and `tcp_output` last, so a received segment is one action with everything it causes.

- A byte is its place in the stream of its writer. `SeqSpace` is 2^32 in the code and 32 in the runs; `TCP_MSS`
  1460 and `TCP_WND` 2920 become `Mss` and `TcpWnd`. The congestion window is kept up to `TcpWnd`: no window is larger, and
  `ssthresh` never drops below two segments, which is the window.
- The network is a queue of `NetMax` segments to each host. It loses the oldest, copies it behind the others or lets the others
  overtake it, and drops what finds it full. `ip_output_if` may fail for one whole step (`SendFails`), memory for a FIN may be missing, and
  the application may refuse data for a while (`Refusers`, `recv_tcp` with a full mailbox) or shut down its side only (`HalfClosers`).
- Timers run at any time. One that goes off while segments are under way costs a fault, since the network was slower than the
  timer then; all faults together are at most `MaxFaults`.
- `tcp_slowtmr` asserts of a ticking persist timer that there is something to send (`PersistSends`). A host that fails an assertion stops
  for good, so `SlowTimer` is disabled there; `MCTcpPersist` shows that it happens.
- Left out: several pcbs and `tcp_kill_*`, failure to allocate a pcb or a SYN, keep-alive, `tcp_abort` by the application,
  closing the listener, the round-trip estimate (a timer may run out at any time), the send buffer and queue length, hence also the clause of
  `tcp_do_output_nagle` that sends when either is used up, and a step in which the layer below takes the first segment and fails for the second (it fails for a
  whole step or not at all). Compiled out in this build: the out-of-order queue, SACK,
  time stamps, window scaling.

`Stream` is what either direction promises: bytes in order, none missing, none twice, and the end only after the last. `Tcp` implements
it in both directions at once (`Streams`, in `MCTcp`), with the application's counts as the refinement mapping, but for one case. `tcp_split_unsent_seg` means to hand the FIN of
a segment to its second half, and writes the remaining flags back with `TCPH_SET_FLAG`, which only sets bits (`tcp_out.c:934`, `lwip/prot/tcp.h:93`), so
both halves carry the FIN (`SplitUnsent`; `MCTcpSplit` finds it). A close puts the FIN on a segment that waits for a window smaller than itself, the persist timer
splits it, and the peer may take the first half with the FIN: its application is told the end after 2 of 3 bytes, what follows is acknowledged but never taken
in CLOSE_WAIT, and the writer retransmits from FIN_WAIT_1 until it gives up. Under the plain specification TLC finds this `Stream` broken in 14 steps, with one lost
window update. `MCTcp` therefore adds a history variable, `split`, of the hosts that have split their FIN (`SplitsFin`: both halves are queued, or the first
is under way and the same tick has freed the pcb); `Streams` asks of such a host's stream no more than
that what was read is in order. All other properties hold of such behaviours as well and are checked there: `QueuesHoldTheRest` says that
the text of the queue is contiguous and that behind a segment with the FIN all have it.

What the model shows about the code besides, without a comment or assertion in the code that says otherwise:

1. *A FIN in the middle.* A fast retransmission whose send fails leaves the earlier segment in `unsent` and the later one in
   `unacked`. `tcp_close` then lets `tcp_send_fin` put the FIN on the last unsent segment (`tcp_out.c:1005-1015`), which is the earlier one. With
   `SendFails = {client}`, `MaxFaults = 2`, a window of 4 and 4 bytes `QueuesHoldTheRest` fails. In `MCTcp` the writing host's sends succeed.
2. *A delayed acknowledgement dropped.* `tcp_fasttmr` clears both flags after `tcp_output` (`tcp.c:1494-1498`) also when Nagle's algorithm
   kept it from sending. The acknowledgement then waits for the peer's retransmission.
3. *No callback in TIME_WAIT.* An application that has half-closed keeps its pcb; `tcp_slowtmr` frees it after TIME_WAIT without the
   error callback (`tcp.c:1451-1465`) that `LAST_ACK` gives (`tcp_in.c:608-610`). `NothingDropped` speaks of applications that have shut down nothing.
4. *Refused text lost at the end.* A half-closed application refuses the peer's last text, and the FIN comes with it. The acknowledgement
   of the host's own FIN then takes the pcb from CLOSING to TIME_WAIT, and `tcp_pcb_purge` (`tcp_in.c:1025`, `tcp.c:2143-2147`) frees the
   text, which the peer holds for delivered; from FIN_WAIT the refused text goes into TIME_WAIT, where no timer offers it again.
   `NothingDropped` leaves half-closed hosts that refuse out; asked of them too, with `HalfClosers = {server}`, it fails in 14 steps.
5. *Two closed windows.* Hosts whose receive windows are both 0 answer each other's empty acknowledgements (`tcp_in.c:1882`) without
   end. In `MCTcp` only the client writes.

## 3. What TLC checks

| run | question | result |
|---|---|---|
| `MCQueueTasks` | with two tasks, every kind of wait and interrupts on both sides: are the lists, the lock and the choice of the running task right, and is no wake-up lost, whatever interrupts what? | 353 000 states |
| `MCQueueMailbox` | with a receiver, a sender and an interrupt that posts, on a ring of two: is the queue a `Mailbox`, and is a parked task served? | 163 000 |
| `MCTickTime` | does everybody wake at the right tick, does `vTaskDelayUntil` keep its period, is a time-out neither early nor missed? | 1 200 000 |
| `MCEnetTx` | with frames of one and two descriptors: is the ring a FIFO that loses and swaps nothing, does a waiting sender always have a wake-up coming, and does every send of a one-descriptor frame return? | 155 000 |
| `MCEnetRx` | is nothing leaked, reordered or overlooked? | 4 500 |
| `MCBoot` | does no assertion fail, and is everything handled that was posted before the scheduler ran? | 250 |
| `MCMutex` | do inherited priorities arrive, stay while somebody waits and go back, is the bit map right, and does the highest task get its mutex? | 134 000 |
| `MCTcp` | do both ends agree, is no segment, timer or byte lost by a host, is a window never taken back, and is each direction a `Stream`, but for a split FIN? | 333 000 |

Four runs show that the code does not do what a comment or an assertion of it says:

- `MCMutexAssert` (`AssertionHolds`): a task waits for a mutex with a time-out and passes its priority on to the holder. Its time runs out, which sets
  the remaining wait to 0. Before it looks again the holder gives the mutex, so the function does not exit but goes round its loop, and a task of
  higher priority takes the mutex and sleeps with it. The try that follows finds the mutex held, no wait left and an inheritance: `queue.c:1502-1504`
  says that this cannot be, and the assertion below it stops the firmware. lwIP's two mutexes are taken without a time-out, so this firmware does not get there.
- `MCMutexYield` (`HighestPriorityRuns`): a task that holds two mutexes and an inherited priority gives both. When a task of no higher priority
  than its own waits for the last, `xQueueGenericSend` does not look at the yield that `xTaskPriorityDisinherit` asks for, and the task it had kept waiting
  is not switched to. The firmware takes the heap's mutex inside the core lock, so a task does hold two, but it gives the core lock last, and never sleeps with both.
- `MCTcpSplit` (`FinMigrates`): the split segment of section 2.6, whose flags "migrate" (`tcp_out.c:900`), keeps the FIN in both halves.
- `MCTcpPersist` (`PersistTicksForText`): a segment of one byte waits for a closed window, the update that opens the window is
  lost, and the zero-window probe carries that byte. The acknowledgement empties the send queue, nothing resets `persist_backoff`, and the next
  `tcp_slowtmr` fails its assertion, which stops the firmware (`sys_assert`).

### 3.1 Bounds

- Queue: two tasks of different priorities and idle, length 1 or 2, one or two values, and
  `LockMax = 2` interrupts while the queue is locked. In `MCQueueTasks` both tasks send and receive, so that both can be parked on the same side with
  interrupts to serve them, two of which make the lock's count wake both; in `MCQueueMailbox` length 2 makes the ring's pointers
  wrap at different times, the sender's rival is the interrupt, and the receiver has none, since only then does each message mean that a parked
  receiver gets out. That rivals do not break the mailbox is proved (`QueueIsMailbox`) for any number of tasks.
- TickTime: a counter of 4 values that wraps twice within `MaxNow = 8`; at most two pended ticks.
  Everything the code does with times is comparison and one addition, so what matters is on which side
  of a wrap each of three times lies, and 4 values have all those cases.
- EnetTx: a ring of 3, so that a long frame can find one descriptor free and not the other, and `Sizes = {1, 2}`; a timer queue of 2
  (10 in the build): short enough to overflow. Frame
  numbers are reused after `Frames`, more than are in flight, so the run has no other bound.
- EnetRx: ring, pool, messages and mailbox of 2 or 3, each of which fills; 6 frames, which go around the ring twice.
- Boot: two frames arrive, at any time. `MaxFrame < TxBdNumber` keeps the replies within the transmit ring, whose filling is `EnetTx`'s subject.

- Mutex: three tasks of three priorities and idle, one mutex, every wait, every task may sleep: the least with a holder, a waiter and
  one that inheritance must keep out, in every assignment of these parts. The two-mutex run has two low tasks of equal priority and one above, which is what its question needs.
- Tcp: a window of one full segment of two bytes, three bytes to send: a full segment, a short one, a window that closes. Numbers from 30 in a space of 32
  wrap between the first and second byte. One fault in `MCTcp`, at any point and of any kind, with a retry limit of 1 (12 in the
  build, 6 for a SYN) and one duplicate acknowledgement for a fast retransmission (3 in the build), so that one fault reaches every branch of recovery: time-out,
  fast retransmission, persist timer, probe, a split segment, giving up. Without half-closing and with two faults the instance holds as well (about 890 000 states), but takes too long to be a run. `MCTcpPersist` needs no counted fault: the window update
  finds a full network.

`CHECK_DEADLOCK FALSE` is set where the system may really stop: in `EnetRx` when the network is silent (the frame bound is used up), in `Boot` when the firmware halts, in `Tcp` when the connection is over or
the faults are used up. `MCMutex` checks for deadlock: its specification (`MCSpec`) lets a firmware that the assertion has stopped stay as it is (`Stopped`), and
anything else that stops is an error. In the runs that look for a violation it is off.

### 3.2 Fairness

- `MCQueue!FairSpec`, in `MCQueueMailbox`: PendSV is weakly fair (the processor takes a pending exception). A task's step is strongly
  fair: higher priorities may preempt it again and again, but they block again and again. Ticks
  that wake a sleeper, and calls by tasks that are due to call, are strongly fair because a tick sometimes
  falls into a stretch with the scheduler suspended, where it only counts; the idle task neither sleeps nor calls and is left out of the conjunction. The run's tasks each make calls for ever,
  so that the liveness properties are not about callers who left.
- `EnetTx!FairSpec`: the controller and its interrupt are weakly fair. The daemon and the sender are strongly fair, because an interrupt
  can disable each of their steps for a while. `MCEnetTx` uses it for all its properties; only `SendReturns` needs it.

- `Mutex!Fairness`: PendSV, a task's steps inside a call, and what a sleeper waits for are weakly fair. A give is strongly fair: a
  holder gives the mutex back some time if it runs again and again. Nothing makes a running task of middle priority stop, which is what inheritance is for.

`Tcp` states no fairness: a connection may be left alone for ever, and all its properties are about safety.

## 4. What is proved

| theorem | for every |
|---|---|
| `QueueProofs!TypeCorrect`, `LockDisciplined`, `ListsAreConsistent`, `HighestPriority` | set of tasks and priorities, length, values, calls |
| `QueueWakeupProofs!NoLostWakeup` | the same |
| `QueueProofs!QueueIsMailbox`: the queue implements `Mailbox` | the same |
| `TickTimeProofs!TypeCorrect`, `NobodyOversleeps`, `SwitchSafe`, `WakesOnTime`, `TimeoutsNotEarly`, `TimeoutsDue`, `PeriodsKept` | width of the counter, set of tasks, number of ticks |
| `EnetTxProofs!TypeCorrect`, `WakeupArrives`, `FramesInOrder`, and `RingIsMailbox`: the ring implements `Mailbox` | ring size, timer queue length, set of sizes of frames |
| `EnetRxProofs!TypeCorrect`, `NothingLost` | ring, pools, mailbox, descriptors per frame |
| `EnetRxProofs!NothingOverlooked`, `DeliveredInOrder` | ring, pools, mailbox, with one descriptor per frame |
| `BootProofs!TypeCorrect`, `ComesUp`, `FramesHandled` | number of frames that arrive, ring that takes their replies |
| `MutexProofs!TypeCorrect`, `HeldIsCounted`, `PriorityComesBack` | set of tasks, priorities, mutexes, waits |
| `MutexProofs!NeverInverted`, `InheritedFromAWaiter` | set of tasks, priorities, mutexes, waits, where mutexes do not nest |
| `MutexProofs!BitsRight` | the same, or with nesting where nobody waits with a time-out |
| `TcpProofs!TypeCorrect`, `TimersRun`, `NothingIsDropped` | segment size, window, sequence space larger than twice the window, retry limits, length of texts, network and faults, set of hosts that refuse, half-close or fail to send |
| `TcpProofs!OrderAcrossTheWrap`, `AnnouncedWindowRight` | segment size, window, sequence space that is large enough for it |

They rest on `SchedulerAssumption`, `QueueAssumption`, `TickTimeAssumption`, `EnetTxAssumption`, `EnetRxAssumption`, `BootAssumption`,
`NoneAssumption`, `MutexAssumption` and `TcpAssumption`, which say no more than that the sizes are positive numbers, priorities and limits of retries are numbers, the
idle task is a task that makes no calls and has priority 0, `None` is no task, the replies to the frames that arrive during the start fit the transmit
ring, the sets of tasks and mutexes are finite, and half the sequence space is larger than the window.

Some theorems have a hypothesis on the constants, each of which the build meets or a property needs:

- `Buffers = 1`: the build's receive buffers hold a whole frame.
- `NoTimeouts`: `sys_mutex_lock` takes both of lwIP's mutexes with `portMAX_DELAY`. The core lock is held when the heap's lock is taken, so mutexes nest in
  the firmware, and this is the case in which the bit map is proved to be right there.
- `FlatUse`: no task takes a mutex while it holds another. `NoInversion` does not hold without it: `xTaskPriorityInherit` raises the holder, and when that one is itself
  parked on a second mutex, neither its place on the event list nor the second mutex's holder is looked at. In the firmware a task may hold the core lock and wait for the heap's, whose holder
  never waits for anything, so such a stretch ends with the next give.
- With neither of the two, `BitsNameReadyLists` is violated. With two mutexes that three tasks use and finite waits, TLC finds it in 27 steps: a waiter lends
  its priority, is itself raised through another mutex it holds, and times out. `vTaskPriorityDisinheritAfterTimeout` then lowers the ready holder, the only task on its
  list, and resets the bit of the priority it goes to (`tasks.c:4185`), so that the bit of the list it leaves stays. No comment of the code excludes this use; lwIP never makes it.

The arguments:

- **Queue.** `TypeOK /\ LockDiscipline` is inductive with `CallShape`: what `op`, `path` and the wait can be at each `pc`. With it, the
  scheduler is suspended exactly while one task is between `lock` and `resume`, and the queue is locked exactly between `lock` and the
  unlocks. `ListsConsistent` needs in addition that the running task is ready, or has just placed itself on a
  list with the scheduler suspended (`RunnerReady`). `HighestPriorityRuns` follows with "a switch that is owed is pending".
- **The queue is a mailbox.** The mapping is the one of section 2.1. `RingShape` says that the write index is the read index plus the count plus one, modulo the length; with it a copy into
  the ring appends to the mail and a copy out of it takes its head (`MailAppended` and its counterpart), and every other step leaves the
  mail alone. `SendersHoldAnItem` and the call shapes map each step of a blocking call to a step of `Mailbox` or to a stutter, the return after a
  time-out to a call whose time is up.
- **No lost wake-up.** `WakeupsAccounted` counts: messages in the queue are at most those that
  tasks are already going to try for (`GoingToTry`), plus what the lock count holds. It is not inductive: between the test and
  the placing a receiver is not parked yet. `PlacingAccounted` says the same of a receiver about to park itself, with the messages
  that interrupts have posted since the test covered by the lock count. Each step changes the two sides by the same amount, or
  removes a message together with the task that was going for it.
- **TickTime.** `SleepersFiled`: with `Base`, the time at which the counter was last 0, a task on the current delayed list wakes at
  `Base + xItemValue` and one on the overflow list a full period later, and the cached unblock time is not beyond any of
  the first. A wrap moves `Base` by one period and swaps the lists, which leaves the statement true, because the list that
  leaves is empty then. The lemma `TimeoutsExact` uses a similar relation between `xTimeOnEntering`, `xOverflowCount` and `entered`, and the two theorems on time-outs are its halves.
- **EnetTx.** `WakeInv`: while the sender is blocked, a descriptor is still to be sent, or an event, an interrupt, a pended call or the bit itself is on its way. A pended
  call dropped by a full timer queue is covered by the calls that fill it. For `FramesInOrder`, `Flight(n)` says that the ready descriptors are the `n`
  from the controller's to the driver's, and that each holds the frame after the one before it, or a further part of the
  long frame being sent; the sender's frame follows the last of them. `Fill` takes `n` to `n + 1` and `Transmit` to `n - 1`, with all indices
  taken modulo the ring. For `RingIsMailbox` the mail is the frames of the completed descriptors, each at the place that the number of
  such descriptors up to it gives (`UpTo`, `Nth`), since a long frame takes several places in the ring and one in the mail. The counts make it
  independent of where the ring starts: `Fill` with the last part adds a descriptor with the highest count (`QueuedAppended`), `Transmit` removes the one with
  count 1 and lowers the others (`QueuedTaken`), and a part that does not end a frame changes no count.
- **EnetRx.** `RxInv` relates pool, message pool, mailbox and packets in hands. `SeenInv`: when the handler has gone and no event is
  pending, the descriptors from the driver's to the controller's are empty, unless the loop was cut short. `OrderInv` adds to `InOrder` that with one
  descriptor per frame the full descriptors are those from the driver's to the controller's (`FullAre`) and that no frame seen
  is younger than the last to arrive; without the first the order around the ring is not preserved.
- **Boot.** `BootInv` says, for each place of `main`, which objects and tasks exist by then and that the interrupts are masked (`Created`, `Masked`), that the
  current task is the one `main` is taken for and then the most urgent (`Current`), who has the core lock (`LockHeld`), and that every
  frame that arrived is in the ring with an interrupt pending, in the mailbox, or handled (`Accounted`). The assertions follow because no
  interrupt is taken before its queue exists; that nothing is overlooked follows because the test task runs only while `tcpip_thread` is blocked, with an empty mailbox.

- **Mutex.** `IInv = TypeOK /\ HeldCounted /\ BaseWhenNoneHeld /\ CallsKnowMutex`. The count of held mutexes decides when a priority goes back, so
  `BaseWhenNoneHeld` is not inductive without `HeldCounted` (`uxMutexesHeld` is the cardinality of the set of mutexes that name the task as
  holder), which needs in turn that a task in a call knows its mutex. Inheritance only changes the priority of a holder, and
  the disinheritance after a time-out, though it may meet another holder than the inheritance did, only changes one that holds something.
  `FlatInv` is what `NoInversion` and `InheritedForAWaiter` need besides. A holder is in no call for a mutex, so a waiter has its own priority
  (`HoldersAreOutside`, `AboveBase`), and event lists, which are never re-sorted, stay sorted (`ListsSorted`, `ListsConsistent`). A raised
  priority is owed to somebody who will give it back or take the mutex (`Lent`), and whoever raised it knows so (`WaitersKnow`): after a time-out it
  takes the disinheritance upon itself. The hard case is a mutex that is free while others wait for it: the woken waiter may have been overtaken.
  Then the most urgent waiter is on its way (`WokenFirst`), so whoever runs is no less urgent (`CurrentAbove`) and may take
  it without inverting anything. TLC checked `FlatInv` and `NestedInv` on the run's instance and on two mutexes first.
  `NestedInv` is short: without time-outs a waiter stays parked until the give that takes it off the list, so every raise of a ready task moves its
  bit from an old to a new list, and a priority only goes back when the last mutex is given, by the running task.
- **Tcp, each host by itself.** The invariant behind `TypeCorrect`, `TimersRun` and `NothingIsDropped` is `Hosts /\ Counters`: the types, and for each host
  `HostOK`, which relates its pcb to its application. It assumes nothing of the segments that come in but their types, so it holds whatever the network does. `HostOK` is
  needed because what the properties say depends on where the application is: before the connection is there nothing is refused and nothing is left
  to close; up to FIN_WAIT_2 no end of the stream was told, so that text that is taken can be given; a state in which the host has sent its FIN means an application that has shut
  down; a pcb that waits in SYN_SENT has its SYN queued, without which `tcp_process` would take the head of an empty queue; only a listener's new pcb counts in
  `accepts_pending`; and whatever is unacknowledged is timed (`Timed`). A call is a chain of operators on a context, and each operator has a lemma that says
  what it leaves alone (`Sends`, `Along`, `Goes`, `Arrives`, `Handles`, `Leads`, from the narrowest to the widest). In
  `tcp_input` text passes through two hands: `Arrives` says that `tcp_process` moves `rcv_nxt` by the text that it leaves for `tcp_input`, and
  `Handles` that afterwards the application holds it or `refused_data` does, so that `Holding` grew by just that. Sorting into a queue
  (`Insert`, `Place`) keeps its type because the place found is the first of a set of indices, which exists because every set of naturals has a least element; that holds of `Placed`, a recursive
  function, for every number of segments by the same argument on the first number for which it would fail. TLC checked `HostOK` as an invariant of `MCTcp`'s instance and of a variant of it first.
- **Tcp, numbers.** Arithmetic modulo the sequence space is unrolled once (`Turn`); `BehindIsBefore` says that a place less than half the space behind another is before
  it for `TCP_SEQ_LT`. `AnnouncedWindowRight` assumes that the announced edge lags by at most the window and a FIN, and `EndsAgree`
  checks a bit more than that of every reachable pcb of `MCTcp`.

### 4.1 Only model-checked

- Liveness (`ParkedReceiverServed`, `ParkedSenderReleased`, `HighestGetsMutex`, and `SendReturns` for frames of one descriptor): fairness and ENABLED are
  out of the prover's reach.
- `EndsAgree`, `EdgeKept` and `Streams` of `MCTcp` (`Streams` is false of the code without its condition on the split FIN). Each is about both hosts and all segments between them: what is announced, acknowledged and
  under way, with zero-window probes and FINs that go beyond the announced edge. They are not theorems for all constants either. A sequence number comes
  round again once more than half of `SeqSpace` was written, and a segment that was delayed until then is taken for a new one: the code relies on the life time of a segment, which
  the model's network does not have. The edge that `EdgeKept` compares relies on a peer that keeps to the window.
- `QueuesHoldTheRest`. It needs the order of the queues, hence that what is queued spans less than half of `SeqSpace` (`TCP_SND_BUF` in the code; in the model
  `MaxWrite` is what bounds it), and it is false where a fast retransmission's send fails (section 2.6, 1). Its last part, that unsent text can go or has
  a timer, needs the same: what fits is decided by distances between sequence numbers.

No module declares a RECURSIVE operator. The library's induction theorems take an operator as a parameter, which the provers cannot instantiate. What a recursive function
computes can therefore not be proved by citing them; `PlacedType` shows the way around it that was needed here.

## 5. Plan

Done, in this order: `Scheduler`, `Queue`, `Mailbox`, `TickTime`, `EnetTx`, `EnetRx`, `Boot`, `Mutex`, `Stream`, `Tcp`, and their theorems. The
project keeps to a dozen runs, so what comes next shares a run with the component it is composed with. Left, in this order:

1. `SysArch`: `sys_arch_mbox_fetch`, `sys_arch_sem_wait`, `sys_mbox_free`, `sys_sem_new` on top of `Mailbox`, with
   time-outs in milliseconds. Wanted: a fetch that returns a message never reports a time-out; what a new semaphore's count is.
2. `Netconn`: `recv_tcp`, `accept_function`, the receive mailbox and the echo server, composed with `Stream` for the connection. Wanted: bytes
   echoed in order; the server is not left waiting.
3. `Timeouts` (`timeouts.c`): sorted across the wrap, handlers that change the list, against an abstract set of deadlines.
4. `Etharp`: the table, with ageing and queued packets. Wanted: one entry for each address; queued packets are sent or freed once.
5. `Pbuf` and `Mem`: reference counts of chains shared by several owners; the heap's coalescing in `mem.c`.
6. `Timers` (`timers.c`): active lists, commands stamped with a time before or after a wrap.
7. `Reass` (`ip4_frag.c`), the UART's ring, AES and CRC as functions against their definitions on bounded inputs.
8. Proofs: `EdgeKept` from an invariant on what the peer may have under way, with `SeqSpace` larger than all that is written.
