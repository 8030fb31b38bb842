----------------------- MODULE ProducerConsumerQueue -----------------------
(***************************************************************************)
(* src/common/Threading/ProducerConsumerQueue.h: the queue through which   *)
(* the database workers and the map update workers get their work.         *)
(*                                                                         *)
(* Every method runs under _queueLock, so each is one atomic action, except *)
(* WaitAndPop, whose condition wait releases the lock: a consumer then sits *)
(* in `waiting' until a notification, or a spurious wakeup, takes it out   *)
(* and makes it evaluate the loop condition again.                         *)
(*                                                                         *)
(* The module declares the queue's state and its operations; the modules   *)
(* that use a queue extend it and conjoin the operations to their actions. *)
(***************************************************************************)
EXTENDS Naturals, Sequences

VARIABLES
  queue,      \* _queue, oldest element first
  shutdown,   \* _shutdown, never reset once set
  waiting     \* the consumers blocked in _condition.wait

queueVars == <<queue, shutdown, waiting>>

QueueInit ==
  /\ queue = <<>>
  /\ shutdown = FALSE
  /\ waiting = {}

\* Mutant: Push forgets to notify.
NotifyOne_Forgotten == UNCHANGED waiting

\* _condition.notify_one(): wakes one of the blocked consumers, if there is one.
NotifyOne ==
  \/ waiting = {} /\ UNCHANGED waiting
  \/ \E c \in waiting : waiting' = waiting \ {c}

\* Mutant: the newest element is put in front.
Push_Front(v) ==
  /\ queue' = <<v>> \o queue
  /\ NotifyOne
  /\ UNCHANGED shutdown

\* Push does not look at _shutdown: an element pushed after Cancel stays queued.
Push(v) ==
  /\ queue' = Append(queue, v)
  /\ NotifyOne
  /\ UNCHANGED shutdown

\* WaitAndPop, the loop: the consumer releases the lock and blocks.
BlockOn(c) ==
  /\ c \notin waiting
  /\ queue = <<>> /\ ~shutdown
  /\ waiting' = waiting \union {c}
  /\ UNCHANGED <<queue, shutdown>>

\* WaitAndPop, past the loop with an element to hand out: c receives v.
Receive(c, v) ==
  /\ c \notin waiting
  /\ queue # <<>> /\ ~shutdown
  /\ v = Head(queue)
  /\ queue' = Tail(queue)
  /\ UNCHANGED <<shutdown, waiting>>

\* WaitAndPop, past the loop because of Cancel: c gets nothing, queued or not.
ReceiveNothing(c) ==
  /\ c \notin waiting
  /\ shutdown
  /\ UNCHANGED queueVars

\* A condition variable may return without a notification.
SpuriousWakeup(c) ==
  /\ c \in waiting
  /\ waiting' = waiting \ {c}
  /\ UNCHANGED <<queue, shutdown>>

\* Mutant: nobody is told of the shutdown.
Cancel_Silent ==
  /\ queue' = <<>>
  /\ shutdown' = TRUE
  /\ UNCHANGED waiting

\* Cancel: what is queued is deleted, every blocked consumer is woken.
Cancel ==
  /\ queue' = <<>>
  /\ shutdown' = TRUE
  /\ waiting' = {}
=============================================================================
