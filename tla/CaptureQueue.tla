---------------------------- MODULE CaptureQueue ----------------------------
(***************************************************************************)
(* The capture queue (capture_queue.c), its worker thread                  *)
(* (capture_worker.c) and the way main.c starts, feeds and stops them.     *)
(*                                                                         *)
(* Two threads.  The main thread runs the event loop: relaying a decrypted *)
(* chunk calls on_inspect_data, which pushes a message; a termination      *)
(* signal ends the loop, stops the worker and closes the queue.  The       *)
(* worker blocks in read(2) on an eventfd and drains the queue when woken. *)
(* All accesses to head, tail and slots happen with the queue's mutex      *)
(* held, so a push and a drain are one step each; the eventfd write that   *)
(* follows a push is outside the mutex and is a step of its own.           *)
(*                                                                         *)
(* A message is the number of the push that queued it (so it is never 0,   *)
(* the NULL pointer).  head and tail are unsigned words that wrap at Word. *)
(***************************************************************************)
EXTENDS Integers, Sequences, FiniteSets

CONSTANTS Size,       \* PF_CAPTURE_QUEUE_SIZE, 1 << 12 in the code
          Laps,       \* how many times the ring fits in a word, 2^32 / Size
          DrainBatch, \* DRAIN_BATCH, 64 in the code
          MaxPush     \* bound: how many messages the main thread pushes

ASSUME QueueAssumption ==
    /\ Size \in Nat \ {0}
    /\ Laps \in Nat \ {0, 1}
    /\ DrainBatch \in Nat \ {0}
    /\ MaxPush \in Nat

Word == Size * Laps   \* number of values of the uint32_t cursors

VARIABLES
    head, tail,   \* the cursors
    slots,        \* the ring of message pointers
    dropped, enqueued,   \* the counters of the queue
    evfd,         \* q->eventfd: "invalid" (-1), "open" or "stale" (closed)
    efd,          \* the kernel's counter behind the eventfd
    main,         \* where the main thread is
    wired,        \* pf_tproxy_set_inspect_cb was called
    running,      \* g_running
    worker,       \* where the worker thread is
    batch,        \* batch[] of worker_main, from the message being processed on
    handled,      \* history: messages given to the callback
    lost          \* history: messages freed by the queue itself

ring == <<head, tail, slots>>
ghosts == <<handled, lost>>
vars == <<head, tail, slots, dropped, enqueued, evfd, efd, main, wired,
          running, worker, batch, handled, lost>>

-----------------------------------------------------------------------------
\* Number of queued messages, as the unsigned subtraction head - tail.
Used == (head - tail) % Word

\* How far slot j is ahead of the tail.
Ahead(j) == (j - tail) % Size

\* The queued messages, oldest first.
Queued == [i \in 1..Used |-> slots[(tail + i - 1) % Size]]

\* How many messages have left the ring.
Gone == enqueued - Used

InQueue(m) == \E i \in DOMAIN Queued : Queued[i] = m

MainSteps == {"init", "start", "wire", "loop", "wake", "stopwake", "join",
              "close", "done"}
WorkerSteps == {"none", "check", "read", "recheck", "drain", "process", "exited"}

Init ==
    /\ head = 0 /\ tail = 0
    /\ slots = [j \in 0..Size-1 |-> 0]
    /\ dropped = 0 /\ enqueued = 0
    /\ evfd = "invalid" /\ efd = 0
    /\ main = "init" /\ wired = FALSE
    /\ running = FALSE /\ worker = "none" /\ batch = <<>>
    /\ handled = {} /\ lost = {}

-----------------------------------------------------------------------------
(* Start-up, main thread. *)

\* pf_capture_queue_init: a failed eventfd(2) leaves the descriptor at -1.
QueueInit ==
    /\ main = "init"
    /\ \/ evfd' = "open" /\ main' = "start"
       \/ evfd' = "invalid" /\ main' = "wire"
    /\ UNCHANGED <<ring, dropped, enqueued, efd, wired, running, worker, batch, ghosts>>

\* pf_capture_worker_start: when the thread cannot be created main closes the
\* queue again, which leaves the number of the closed descriptor in place.
WorkerStart ==
    /\ main = "start"
    /\ main' = "wire"
    /\ \/ running' = TRUE /\ worker' = "check" /\ UNCHANGED evfd
       \/ evfd' = "stale" /\ UNCHANGED <<running, worker>>
    /\ UNCHANGED <<ring, dropped, enqueued, efd, wired, batch, ghosts>>

\* The inspect callback is wired when pf_mitm_init succeeds, whatever became
\* of the queue.
WireInspect ==
    /\ main = "wire"
    /\ main' = "loop"
    /\ wired' \in BOOLEAN
    /\ UNCHANGED <<ring, dropped, enqueued, evfd, efd, running, worker, batch, ghosts>>

-----------------------------------------------------------------------------
(* The event loop, main thread. *)

\* Fault: a full ring is not noticed until one message too late.
PushFullTooLate ==
    /\ main = "loop" /\ wired /\ enqueued < MaxPush
    /\ LET full == Used > Size
           oldest == slots[tail % Size]
       IN /\ IF full THEN /\ tail' = (tail + 1) % Word
                          /\ dropped' = dropped + 1
                          /\ lost' = lost \cup {oldest}
                     ELSE UNCHANGED <<tail, dropped, lost>>
          /\ slots' = [slots EXCEPT ![head % Size] = enqueued + 1]
    /\ head' = (head + 1) % Word
    /\ enqueued' = enqueued + 1
    /\ main' = "wake"
    /\ UNCHANGED <<evfd, efd, wired, running, worker, batch, handled>>

\* Fault: the newest queued message is given up instead of the oldest.
PushDropsNewest ==
    /\ main = "loop" /\ wired /\ enqueued < MaxPush
    /\ IF Used >= Size
       THEN /\ dropped' = dropped + 1
            /\ lost' = lost \cup {slots[(head - 1) % Size]}
            /\ slots' = [slots EXCEPT ![(head - 1) % Size] = enqueued + 1]
            /\ UNCHANGED head
       ELSE /\ slots' = [slots EXCEPT ![head % Size] = enqueued + 1]
            /\ head' = (head + 1) % Word
            /\ UNCHANGED <<dropped, lost>>
    /\ enqueued' = enqueued + 1
    /\ main' = "wake"
    /\ UNCHANGED <<tail, evfd, efd, wired, running, worker, batch, handled>>

\* Fault: the drop path forgets its counter.
PushForgetsCount ==
    /\ main = "loop" /\ wired /\ enqueued < MaxPush
    /\ IF Used >= Size THEN /\ tail' = (tail + 1) % Word
                            /\ lost' = lost \cup {slots[tail % Size]}
                       ELSE UNCHANGED <<tail, lost>>
    /\ slots' = [slots EXCEPT ![head % Size] = enqueued + 1]
    /\ head' = (head + 1) % Word
    /\ enqueued' = enqueued + 1
    /\ main' = "wake"
    /\ UNCHANGED <<dropped, evfd, efd, wired, running, worker, batch, handled>>

\* on_inspect_data reaching pf_capture_queue_push, up to the unlock.  A full
\* ring drops its oldest message.  When the ring is full the freed slot is the
\* one the new message is stored in.
Push ==
    /\ main = "loop" /\ wired /\ enqueued < MaxPush
    /\ IF Used >= Size THEN /\ tail' = (tail + 1) % Word
                            /\ dropped' = dropped + 1
                            /\ lost' = lost \cup {slots[tail % Size]}
                       ELSE UNCHANGED <<tail, dropped, lost>>
    /\ slots' = [slots EXCEPT ![head % Size] = enqueued + 1]
    /\ head' = (head + 1) % Word
    /\ enqueued' = enqueued + 1
    /\ main' = "wake"
    /\ UNCHANGED <<evfd, efd, wired, running, worker, batch, handled>>

\* The eventfd write that ends pf_capture_queue_push.
Wake ==
    /\ main = "wake"
    /\ main' = "loop"
    /\ efd' = IF evfd = "open" THEN efd + 1 ELSE efd
    /\ UNCHANGED <<ring, dropped, enqueued, evfd, wired, running, worker, batch,
                   handled, lost>>

-----------------------------------------------------------------------------
(* Shutdown, main thread: a termination signal ended the loop. *)

StopWorker ==
    /\ main = "loop"
    /\ running' = FALSE
    /\ main' = IF running THEN "stopwake" ELSE "close"
    /\ UNCHANGED <<ring, dropped, enqueued, evfd, efd, wired, worker, batch, ghosts>>

\* Fault: the worker is joined without being woken.
StopWithoutWake ==
    /\ main = "stopwake"
    /\ main' = "join"
    /\ UNCHANGED <<ring, dropped, enqueued, evfd, efd, wired, running, worker,
                   batch, ghosts>>

StopWake ==
    /\ main = "stopwake"
    /\ main' = "join"
    /\ efd' = efd + 1
    /\ UNCHANGED <<ring, dropped, enqueued, evfd, wired, running, worker, batch, ghosts>>

\* Fault: the worker is detached rather than joined.
JoinDoesNotWait ==
    /\ main = "join"
    /\ main' = "close"
    /\ UNCHANGED <<ring, dropped, enqueued, evfd, efd, wired, running, worker,
                   batch, ghosts>>

JoinWorker ==
    /\ main = "join" /\ worker = "exited"
    /\ main' = "close"
    /\ UNCHANGED <<ring, dropped, enqueued, evfd, efd, wired, running, worker,
                   batch, ghosts>>

\* pf_capture_queue_close frees what is left and closes the descriptor again
\* even when the start-up path had closed it already.
CloseQueue ==
    /\ main = "close"
    /\ main' = "done"
    /\ lost' = lost \cup {Queued[i] : i \in DOMAIN Queued}
    /\ slots' = [j \in 0..Size-1 |-> IF Ahead(j) < Used THEN 0 ELSE slots[j]]
    /\ tail' = head
    /\ evfd' = IF evfd = "open" THEN "stale" ELSE evfd
    /\ UNCHANGED <<head, dropped, enqueued, efd, wired, running, worker, batch, handled>>

\* The process has exited: nothing more happens.
Exited == main = "done" /\ UNCHANGED vars

-----------------------------------------------------------------------------
(* worker_main. *)

CheckRunning ==
    /\ worker = "check"
    /\ worker' = IF running THEN "read" ELSE "exited"
    /\ UNCHANGED <<ring, dropped, enqueued, evfd, efd, main, wired, running, batch, ghosts>>

\* read(2) on a blocking eventfd returns at once, and resets the counter, when
\* the counter is not zero.
ReadEventfd ==
    /\ worker = "read" /\ efd > 0
    /\ efd' = 0
    /\ worker' = "recheck"
    /\ UNCHANGED <<ring, dropped, enqueued, evfd, main, wired, running, batch, ghosts>>

\* A signal handler interrupts the sleeping read: EINTR, continue.
ReadInterrupted ==
    /\ worker = "read" /\ efd = 0
    /\ worker' = "check"
    /\ UNCHANGED <<ring, dropped, enqueued, evfd, efd, main, wired, running, batch, ghosts>>

RecheckRunning ==
    /\ worker = "recheck"
    /\ worker' = IF running THEN "drain" ELSE "exited"
    /\ UNCHANGED <<ring, dropped, enqueued, evfd, efd, main, wired, running, batch, ghosts>>

\* Fault: the cursor advances but the pointers stay in their slots.
DrainLeavesSlots ==
    /\ worker = "drain"
    /\ LET got == IF Used < DrainBatch THEN Used ELSE DrainBatch
       IN /\ batch' = [i \in 1..got |-> Queued[i]]
          /\ tail' = (tail + got) % Word
          /\ worker' = IF got = 0 THEN "check" ELSE "process"
    /\ UNCHANGED <<head, slots, dropped, enqueued, evfd, efd, main, wired, running, ghosts>>

\* pf_capture_queue_drain(batch, DRAIN_BATCH): nothing got ends the inner loop.
Drain ==
    /\ worker = "drain"
    /\ LET got == IF Used < DrainBatch THEN Used ELSE DrainBatch
       IN /\ batch' = [i \in 1..got |-> Queued[i]]
          /\ slots' = [j \in 0..Size-1 |-> IF Ahead(j) < got THEN 0 ELSE slots[j]]
          /\ tail' = (tail + got) % Word
          /\ worker' = IF got = 0 THEN "check" ELSE "process"
    /\ UNCHANGED <<head, dropped, enqueued, evfd, efd, main, wired, running, ghosts>>

\* Fault: a batch is walked from its end.
ProcessBackwards ==
    /\ worker = "process"
    /\ handled' = handled \cup {batch[Len(batch)]}
    /\ batch' = SubSeq(batch, 1, Len(batch) - 1)
    /\ worker' = IF Len(batch) = 1 THEN "drain" ELSE "process"
    /\ UNCHANGED <<ring, dropped, enqueued, evfd, efd, main, wired, running, lost>>

\* Fault: one drain per wake-up instead of draining until nothing is left.
ProcessThenSleep ==
    /\ worker = "process"
    /\ handled' = handled \cup {Head(batch)}
    /\ batch' = Tail(batch)
    /\ worker' = IF Len(batch) = 1 THEN "check" ELSE "process"
    /\ UNCHANGED <<ring, dropped, enqueued, evfd, efd, main, wired, running, lost>>

\* The callback (capture_process_msg) consumes and frees one message.
Process ==
    /\ worker = "process"
    /\ handled' = handled \cup {Head(batch)}
    /\ batch' = Tail(batch)
    /\ worker' = IF Len(batch) = 1 THEN "drain" ELSE "process"
    /\ UNCHANGED <<ring, dropped, enqueued, evfd, efd, main, wired, running, lost>>

-----------------------------------------------------------------------------
MainNext == \/ QueueInit \/ WorkerStart \/ WireInspect
            \/ Push \/ Wake
            \/ StopWorker \/ StopWake \/ JoinWorker \/ CloseQueue

WorkerNext == \/ CheckRunning \/ ReadEventfd \/ ReadInterrupted
              \/ RecheckRunning \/ Drain \/ Process

Next == MainNext \/ WorkerNext \/ Exited

\* Both threads are scheduled.  Nothing obliges the main thread to relay a
\* chunk or a user to stop the daemon; and read(2) need not be interrupted.
Fairness ==
    /\ WF_vars(Wake) /\ WF_vars(StopWake) /\ WF_vars(JoinWorker) /\ WF_vars(CloseQueue)
    /\ WF_vars(CheckRunning) /\ WF_vars(ReadEventfd) /\ WF_vars(RecheckRunning)
    /\ WF_vars(Drain) /\ WF_vars(Process)

Spec == Init /\ [][Next]_vars

FairSpec == Spec /\ Fairness

-----------------------------------------------------------------------------
Msgs == 1..MaxPush

TypeOK ==
    /\ head \in 0..Word-1 /\ tail \in 0..Word-1
    /\ slots \in [0..Size-1 -> 0..MaxPush]
    /\ dropped \in Nat /\ enqueued \in 0..MaxPush
    /\ evfd \in {"invalid", "open", "stale"} /\ efd \in Nat
    /\ main \in MainSteps /\ worker \in WorkerSteps
    /\ wired \in BOOLEAN /\ running \in BOOLEAN
    /\ batch \in Seq(Msgs)
    /\ handled \subseteq Msgs /\ lost \subseteq Msgs

\* The wrapping cursors and the masked slots describe the queue they stand
\* for at every moment: between 0 and Size consecutive messages, the newest
\* of which is the last one pushed, each in the slot its distance from the
\* tail says, and every other slot NULL (so that no pointer is freed twice and
\* none is forgotten).  Behaviour of push, drain and close in capture_queue.c.
RingIntegrity ==
    /\ Used <= Size
    /\ Used <= enqueued
    /\ slots = [j \in 0..Size-1 |->
                   IF Ahead(j) < Used THEN Gone + 1 + Ahead(j) ELSE 0]

\* Every message pushed is in exactly one place: handled by the callback, in
\* the worker's batch, in the ring, or freed by the queue.  Nothing is leaked,
\* processed twice or freed under the worker's feet.
Batched == {batch[i] : i \in DOMAIN batch}
ExactlyOnePlace ==
    /\ handled \cup lost \cup Batched = 1..Gone
    /\ handled \cap lost = {} /\ handled \cap Batched = {} /\ lost \cap Batched = {}
    /\ \A i, j \in DOMAIN batch : i < j => batch[i] < batch[j]

\* The counters account for the losses: until the queue is closed `dropped` is
\* the number of messages the queue freed, so that enqueued - dropped is what
\* the worker got or will get.
CountersAccountForLoss ==
    main # "done" => Cardinality(lost) = dropped

\* No lost wake-up, as a state: a worker that is about to sleep, or asleep, on
\* a zero eventfd while messages are queued has a producer that has yet to
\* write the eventfd.  This is what the write after the unlock must guarantee.
WakeupPending ==
    (worker \in {"check", "read"} /\ running /\ Used > 0 /\ efd = 0) => main = "wake"

\* pf_capture_worker_stop returns only when the worker is gone, so closing the
\* queue destroys nothing the worker still uses; and at the end nothing is
\* leaked: every message pushed was handled or freed.
CleanShutdown ==
    /\ main \in {"close", "done"} => worker \in {"none", "exited"} /\ batch = <<>>
    /\ main = "done" => handled \cup lost = 1..enqueued

\* Messages reach the callback in the order they were pushed.
OrderedDelivery ==
    [][\A new \in handled' \ handled : \A old \in handled : old < new]_vars

\* While the daemon runs a message is lost only to a full ring, it is the
\* oldest one queued, and exactly Size newer messages remain behind it.
LossOnlyWhenFull ==
    [][main = "loop" =>
          \A m \in lost' \ lost : Used = Size /\ m = Gone + 1 /\ enqueued' = m + Size]_vars

\* With a worker, no message stays in the ring for ever: every push wakes the
\* worker, no matter how the write of the eventfd interleaves with its reads,
\* and every drain continues until the ring is empty.
QueuedIsTaken ==
    \A m \in Msgs : (worker # "none" /\ InQueue(m)) ~> ~InQueue(m)

\* pf_capture_worker_stop never hangs: the thread is woken, notices that
\* g_running is 0 and is joined, and the queue is closed.
StopTerminates == (main = "stopwake") ~> (main = "done")

-----------------------------------------------------------------------------
\* The queue and its worker implement the abstract channel.
Channel == INSTANCE LossyChannel WITH
    Capacity <- Size, BatchMax <- DrainBatch,
    offered <- enqueued, pending <- Queued, taken <- batch

ImplementsChannel == Channel!Spec
=============================================================================
