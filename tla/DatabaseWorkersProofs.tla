----------------------- MODULE DatabaseWorkersProofs -----------------------
(***************************************************************************)
(* Theorems about DatabaseWorkers, for any number of workers and           *)
(* operations and with or without auto setup.                              *)
(***************************************************************************)
EXTENDS DatabaseWorkers, DataLemmas, FiniteSetTheorems

\* The inductive invariant: TypeOK alone is not inductive, because only the
\* life of threads and connections (Lifecycle) tells that what FinishCall
\* appends to `executed' is an operation.
IInv == TypeOK /\ Lifecycle /\ NoLostWakeup /\ NoEarlyExit

\* The initial state satisfies the inductive invariant.
LEMMA InitInv == Init => IInv
<1> SUFFICES ASSUME Init PROVE IInv
  OBVIOUS
<1> USE DEF Init, QueueInit
<1>1. TypeOK
  <2>1. queue \in Seq(Op) /\ sent \in Seq(Op) /\ executed \in Seq(Op)
    OBVIOUS
  <2>2. stage \in [Worker -> Stage] /\ pool \in Pool
    BY DEF Stage, Pool
  <2> QED
    BY <2>1, <2>2 DEF TypeOK
<1>2. Lifecycle
  BY DEF Lifecycle
<1>3. NoLostWakeup /\ NoEarlyExit
  BY DEF NoLostWakeup, NoEarlyExit
<1> QED
  BY <1>1, <1>2, <1>3 DEF IInv

\* The worker threads, the callers' wakeups included, preserve it.
LEMMA WorkerInv ==
  ASSUME IInv, NEW w \in Worker, WorkerStep(w) \/ Wakeup(w) PROVE IInv'
<1> USE DEF IInv, TypeOK, Lifecycle, NoLostWakeup, NoEarlyExit, AllGone,
            workerVars, poolVars, queueVars, Pool, Stage, Token
<1>1. CASE WaitForWork(w)
  BY <1>1 DEF WaitForWork, BlockOn
<1>2. CASE TakeWork(w)
  BY <1>2, OpAssumption DEF TakeWork, Receive
<1>3. CASE TakeNothing(w)
  BY <1>3 DEF TakeNothing, ReceiveNothing
<1>4. CASE ExitThread(w)
  BY <1>4 DEF ExitThread
<1>5. CASE StartCall(w)
  BY <1>5 DEF StartCall
<1>6. CASE FinishCall(w)
  BY <1>6 DEF FinishCall
<1>7. CASE Wakeup(w)
  BY <1>7 DEF Wakeup, SpuriousWakeup
<1> QED
  BY <1>1, <1>2, <1>3, <1>4, <1>5, <1>6, <1>7 DEF WorkerStep

\* So does a caller.
LEMMA CallerInv == ASSUME IInv, NEW o \in Op, Enqueue(o) PROVE IInv'
  BY WorkerAssumption
  DEF IInv, TypeOK, Lifecycle, NoLostWakeup, NoEarlyExit, AllGone, workerVars,
      poolVars, queueVars, Pool, Stage, Token, Enqueue, Push, NotifyOne

\* So does the main thread where it opens the pool ...
LEMMA OpenInv ==
  ASSUME IInv,
         \/ \E w \in Worker : Construct(w) \/ Connected(w) \/ ConnectFailed(w)
         \/ BeginOpen \/ OpenAgain \/ GiveUp
  PROVE IInv'
<1> USE DEF IInv, TypeOK, Lifecycle, NoLostWakeup, NoEarlyExit, AllGone,
            workerVars, poolVars, queueVars, Pool, Stage, Token
<1>1. CASE \E w \in Worker : Construct(w)
  BY <1>1 DEF Construct
<1>2. CASE \E w \in Worker : Connected(w)
  BY <1>2 DEF Connected
<1>3. CASE \E w \in Worker : ConnectFailed(w)
  BY <1>3 DEF ConnectFailed
<1>4. CASE BeginOpen
  BY <1>4 DEF BeginOpen
<1>5. CASE OpenAgain
  BY <1>5 DEF OpenAgain
<1>6. CASE GiveUp
  BY <1>6 DEF GiveUp
<1> QED
  BY <1>1, <1>2, <1>3, <1>4, <1>5, <1>6

\* ... and where it closes and destroys it.
LEMMA CloseInv ==
  ASSUME IInv,
         \/ \E w \in Worker : Destruction(w)
         \/ BeginClose \/ EndClose \/ DestroyPool
  PROVE IInv'
<1> USE DEF IInv, TypeOK, Lifecycle, NoLostWakeup, NoEarlyExit, AllGone,
            workerVars, poolVars, queueVars, Pool, Stage, Token
<1>1. CASE \E w \in Worker : SetToken(w)
  BY <1>1 DEF SetToken, Destroy
<1>2. CASE \E w \in Worker : CancelQueue(w)
  BY <1>2, RangeInSet, WorkerAssumption DEF CancelQueue, Destroy, Cancel
<1>3. CASE \E w \in Worker : Join(w)
  BY <1>3 DEF Join, Destroy
<1>4. CASE \E w \in Worker : CloseHandle(w)
  BY <1>4 DEF CloseHandle, Destroy
<1>5. CASE BeginClose
  BY <1>5 DEF BeginClose
<1>6. CASE EndClose
  BY <1>6 DEF EndClose
<1>7. CASE DestroyPool
  BY <1>7, RangeInSet, WorkerAssumption DEF DestroyPool, Cancel
<1> QED
  BY <1>1, <1>2, <1>3, <1>4, <1>5, <1>6, <1>7 DEF Destruction

LEMMA NextInv == IInv /\ [Next]_vars => IInv'
<1> SUFFICES ASSUME IInv, [Next]_vars PROVE IInv'
  OBVIOUS
<1>1. CASE UNCHANGED vars
  BY <1>1 DEF IInv, TypeOK, Lifecycle, NoLostWakeup, NoEarlyExit, AllGone,
              vars, workerVars, poolVars, queueVars, Token
<1> QED
  BY <1>1, WorkerInv, CallerInv, OpenInv, CloseInv DEF Next, Terminated

\* Every reachable state satisfies the inductive invariant.
THEOREM Invariance == Spec => []IInv
  BY InitInv, NextInv, PTL DEF Spec

\* The variables always hold what the code's types allow.
THEOREM TypeCorrect == Spec => []TypeOK
  BY Invariance, PTL DEF IInv

\* Push's notify_one is enough: work is never queued behind workers that all
\* sleep, and none sleeps through Cancel.
THEOREM WakeupsAreKept == Spec => []NoLostWakeup
  BY Invariance, PTL DEF IInv

\* A worker thread ends only because it is destroyed or the queue is cancelled,
\* never because another worker was faster.
THEOREM ThreadsStay == Spec => []NoEarlyExit
  BY Invariance, PTL DEF IInv

\* An operation runs on an open connection, whatever the pool is going through.
THEOREM CallsOnOpenConnection == Spec => []ConnectionOutlivesCall
<1>1. IInv => ConnectionOutlivesCall
  BY DEF IInv, TypeOK, Lifecycle, AllGone, Pool, Stage, ConnectionOutlivesCall
<1> QED
  BY Invariance, <1>1, PTL

-----------------------------------------------------------------------------
(* Where the operations are *)

\* The operations in the workers' hands, and those that have left the queue there.
InHand == {held[w] : w \in Worker} \ {NoOp}
Popped == InHand \union Range(executed) \union leaked

\* An operation is in one place at a time, and only there where it was sent.
Ownership ==
  /\ IsInjective(sent) /\ IsInjective(queue) /\ IsInjective(executed)
  /\ \A v, w \in Worker : held[v] = held[w] /\ held[v] # NoOp => v = w
  /\ Range(sent) = Range(queue) \union Popped \union discarded
  /\ Range(queue) \cap (Popped \union discarded) = {}
  /\ Popped \cap discarded = {}
  /\ InHand \cap (Range(executed) \union leaked) = {}
  /\ Range(executed) \cap leaked = {}

\* The queue holds what was sent last, in that order; who has left it for a worker
\* was sent before everybody who has not.
Order ==
  /\ Len(queue) <= Len(sent)
  /\ \A a \in DOMAIN queue : queue[a] = sent[Len(sent) - Len(queue) + a]
  /\ ~shutdown => discarded = {}
  /\ \A j \in DOMAIN sent : sent[j] \in Popped => \A i \in 1..j : sent[i] \in Popped

Placed == IInv /\ Ownership /\ Order

dataVars == <<queue, shutdown, held, sent, executed, discarded, leaked>>

LEMMA InitPlaced == Init => Placed
<1> SUFFICES ASSUME Init PROVE Placed
  OBVIOUS
<1>1. InHand = {} /\ Range(queue) = {} /\ Range(executed) = {} /\ Range(sent) = {}
  BY DEF Init, QueueInit, InHand, Range
<1> QED
  BY <1>1, InitInv DEF Init, QueueInit, Placed, Ownership, Order, Popped, IsInjective

\* A step that moves no operation.
LEMMA NothingMoves ==
  ASSUME Placed, UNCHANGED dataVars
  PROVE  Ownership' /\ Order'
BY DEF Placed, dataVars, Ownership, Order, Popped, InHand

\* The hand of one worker changes.
LEMMA HandChange ==
  ASSUME Placed, NEW w \in Worker, NEW x \in Op \union {NoOp},
         held' = [held EXCEPT ![w] = x], x \notin InHand
  PROVE  /\ InHand' = (InHand \ {held[w]}) \union ({x} \ {NoOp})
         /\ \A u, v \in Worker : held'[u] = held'[v] /\ held'[u] # NoOp => u = v
<1>1. /\ \A v \in Worker : held'[v] = IF v = w THEN x ELSE held[v]
      /\ \A u, v \in Worker : held[u] = held[v] /\ held[u] # NoOp => u = v
      /\ \A v \in Worker : held[v] # NoOp => held[v] # x
  BY DEF Placed, IInv, TypeOK, Ownership, InHand
<1> QED
  BY <1>1 DEF InHand

\* The oldest operation goes from the queue into a worker's hand.
LEMMA TakeWorkPlaced ==
  ASSUME Placed, NEW w \in Worker, TakeWork(w)
  PROVE  Ownership' /\ Order'
<1>1. PICK o \in Op : /\ queue # <<>> /\ ~shutdown /\ o = Head(queue) /\ queue' = Tail(queue)
                      /\ held' = [held EXCEPT ![w] = o]
                      /\ UNCHANGED <<shutdown, sent, executed, discarded, leaked>>
  BY DEF TakeWork, Receive
<1>2. /\ queue \in Seq(Op) /\ sent \in Seq(Op) /\ held[w] = NoOp /\ o # NoOp
  BY OpAssumption DEF Placed, IInv, TypeOK, Lifecycle, TakeWork
<1>3. /\ queue' \in Seq(Op) /\ Len(queue') = Len(queue) - 1
      /\ Range(queue) = Range(queue') \union {o} /\ o \notin Range(queue')
      /\ IsInjective(queue')
  BY <1>1, <1>2, RangeTail DEF Placed, Ownership
<1>4. o \notin InHand
  BY <1>3 DEF Placed, Ownership, Popped
<1>5. /\ InHand' = InHand \union {o}
      /\ \A u, v \in Worker : held'[u] = held'[v] /\ held'[u] # NoOp => u = v
  <2>1. InHand' = (InHand \ {held[w]}) \union ({o} \ {NoOp})
    BY <1>1, <1>4, HandChange
  <2>2. NoOp \notin InHand
    BY DEF InHand
  <2>3. \A u, v \in Worker : held'[u] = held'[v] /\ held'[u] # NoOp => u = v
    BY <1>1, <1>4, HandChange
  <2> QED
    BY <1>2, <2>1, <2>2, <2>3
<1>6. Ownership'
  <2>1. Popped' = Popped \union {o}
    BY <1>1, <1>5 DEF Popped
  <2>2. o \in Range(queue) /\ o \notin Popped \union discarded
    BY <1>3 DEF Placed, Ownership
  <2>3. /\ Range(sent) = Range(queue) \union Popped \union discarded
        /\ Range(queue) \cap (Popped \union discarded) = {}
        /\ Popped \cap discarded = {}
        /\ InHand \cap (Range(executed) \union leaked) = {}
        /\ Range(executed) \cap leaked = {}
        /\ IsInjective(sent) /\ IsInjective(executed)
    BY DEF Placed, Ownership
  <2>4. /\ Range(sent) = Range(queue') \union Popped' \union discarded
        /\ Range(queue') \cap (Popped' \union discarded) = {}
        /\ Popped' \cap discarded = {}
        /\ InHand' \cap (Range(executed) \union leaked) = {}
    BY <1>3, <1>5, <2>1, <2>2, <2>3 DEF Popped
  <2> QED
    BY <1>1, <1>3, <1>5, <2>3, <2>4 DEF Ownership
<1>7. Popped' = Popped \union {o} /\ discarded = {}
  BY <1>1, <1>5 DEF Popped, Placed, Order
<1>8. /\ Len(queue) \in Nat \ {0} /\ Len(sent) \in Nat
      /\ DOMAIN queue = 1..Len(queue) /\ DOMAIN sent = 1..Len(sent)
      /\ DOMAIN queue' = 1..(Len(queue) - 1)
      /\ \A a \in 1..(Len(queue) - 1) : queue'[a] = queue[a + 1]
      /\ o = queue[1]
  BY <1>1, <1>2, HeadTailProperties, LenProperties, EmptySeq
<1> DEFINE n == Len(sent) - Len(queue)
<1>9. n \in Nat /\ o = sent[n + 1] /\ \A a \in 1..Len(queue) : queue[a] = sent[n + a]
  <2>1. n \in Nat /\ \A a \in 1..Len(queue) : queue[a] = sent[n + a]
    BY <1>8 DEF Placed, Order
  <2> QED
    BY <1>8, <2>1
<1>10. \A a \in DOMAIN queue' : queue'[a] = sent[Len(sent) - Len(queue') + a]
  <2> SUFFICES ASSUME NEW a \in 1..(Len(queue) - 1)
               PROVE  queue'[a] = sent[Len(sent) - Len(queue') + a]
    BY <1>8
  <2>1. a + 1 \in 1..Len(queue) /\ n + (a + 1) = Len(sent) - Len(queue') + a
    BY <1>3, <1>8
  <2> QED
    BY <1>8, <1>9, <2>1
<1>11. ASSUME NEW i \in DOMAIN sent, i <= n PROVE sent[i] \in Popped
  <2>1. sent[i] \in Range(queue) \union Popped
    BY <1>7 DEF Placed, Ownership, Range
  <2>2. ASSUME NEW a \in 1..Len(queue), sent[i] = queue[a] PROVE FALSE
    <3>1. n + a \in DOMAIN sent /\ n + a # i /\ sent[n + a] = sent[i]
      BY <1>8, <1>9, <1>11, <2>2 DEF Placed, Order
    <3> QED
      BY <3>1 DEF Placed, Ownership, IsInjective
  <2> QED
    BY <1>8, <2>1, <2>2 DEF Range
<1>12. ASSUME NEW j \in DOMAIN sent, sent[j] \in Popped', NEW i \in 1..j
       PROVE  sent[i] \in Popped'
  <2>1. CASE sent[j] \in Popped
    BY <1>7, <1>12, <2>1 DEF Placed, Order
  <2>2. CASE sent[j] = o
    <3>1. n + 1 \in DOMAIN sent
      BY <1>8, <1>9 DEF Placed, Order
    <3>2. j = n + 1
      BY <1>9, <2>2, <3>1 DEF Placed, Ownership, IsInjective
    <3>3. i = n + 1 \/ (i \in DOMAIN sent /\ i <= n)
      BY <1>8, <1>9, <1>12, <3>2
    <3> QED
      BY <1>7, <1>9, <1>11, <3>3
  <2> QED
    BY <1>7, <1>12, <2>1, <2>2
<1>13. Order'
  BY <1>1, <1>3, <1>7, <1>8, <1>10, <1>12 DEF Placed, Order
<1> QED
  BY <1>6, <1>13

\* It leaves the hand again: executed, or leaked because the worker was cancelled.
LEMMA HandEmptied ==
  ASSUME Placed, NEW w \in Worker, held' = [held EXCEPT ![w] = NoOp]
  PROVE  /\ InHand' = InHand \ {held[w]}
         /\ held[w] # NoOp => held[w] \in InHand
         /\ \A u, v \in Worker : held'[u] = held'[v] /\ held'[u] # NoOp => u = v
<1>1. NoOp \notin InHand
  BY DEF InHand
<1>2. InHand' = (InHand \ {held[w]}) \union ({NoOp} \ {NoOp})
  BY <1>1, HandChange
<1>3. \A u, v \in Worker : held'[u] = held'[v] /\ held'[u] # NoOp => u = v
  BY <1>1, HandChange
<1> QED
  BY <1>2, <1>3 DEF InHand

LEMMA ExitThreadPlaced ==
  ASSUME Placed, NEW w \in Worker, ExitThread(w)
  PROVE  Ownership' /\ Order'
<1>1. /\ held' = [held EXCEPT ![w] = NoOp] /\ leaked' = leaked \union ({held[w]} \ {NoOp})
      /\ UNCHANGED <<queue, shutdown, sent, executed, discarded>>
  BY DEF ExitThread, queueVars
<1>2. /\ InHand' = InHand \ {held[w]} /\ (held[w] # NoOp => held[w] \in InHand)
      /\ \A u, v \in Worker : held'[u] = held'[v] /\ held'[u] # NoOp => u = v
  BY <1>1, HandEmptied
<1>3. NoOp \notin InHand
  BY DEF InHand
<1>4. Popped' = Popped /\ InHand' \cap (Range(executed) \union leaked') = {}
      /\ Range(executed) \cap leaked' = {}
  BY <1>1, <1>2, <1>3 DEF Popped, Placed, Ownership
<1> QED
  BY <1>1, <1>2, <1>4 DEF Placed, Ownership, Order

LEMMA FinishCallPlaced ==
  ASSUME Placed, NEW w \in Worker, FinishCall(w)
  PROVE  Ownership' /\ Order'
<1>1. /\ held' = [held EXCEPT ![w] = NoOp] /\ executed' = Append(executed, held[w])
      /\ UNCHANGED <<queue, shutdown, sent, discarded, leaked>>
  BY DEF FinishCall, queueVars
<1>2. held[w] \in Op /\ held[w] # NoOp /\ executed \in Seq(Op)
  BY DEF FinishCall, Placed, IInv, TypeOK, Lifecycle
<1>3. /\ InHand' = InHand \ {held[w]} /\ held[w] \in InHand
      /\ \A u, v \in Worker : held'[u] = held'[v] /\ held'[u] # NoOp => u = v
  BY <1>1, <1>2, HandEmptied
<1>4. held[w] \notin Range(executed) \union leaked
  BY <1>3 DEF Placed, Ownership
<1>5. Range(executed') = Range(executed) \union {held[w]} /\ IsInjective(executed')
  BY <1>1, <1>2, <1>4, RangeAppend DEF Placed, Ownership
<1>6. Popped' = Popped /\ InHand' \cap (Range(executed') \union leaked) = {}
      /\ Range(executed') \cap leaked = {}
  BY <1>1, <1>3, <1>4, <1>5 DEF Popped, Placed, Ownership
<1> QED
  BY <1>1, <1>3, <1>5, <1>6 DEF Placed, Ownership, Order

\* A caller adds an operation behind all others.
LEMMA EnqueuePlaced ==
  ASSUME Placed, NEW o \in Op, Enqueue(o)
  PROVE  Ownership' /\ Order'
<1>1. /\ o \notin Range(sent) /\ sent' = Append(sent, o) /\ queue' = Append(queue, o)
      /\ UNCHANGED <<shutdown, held, executed, discarded, leaked>>
  BY DEF Enqueue, Push, workerVars
<1>2. queue \in Seq(Op) /\ sent \in Seq(Op)
  BY DEF Placed, IInv, TypeOK
<1>3. o \notin Range(queue) \union Popped \union discarded
  BY <1>1 DEF Placed, Ownership
<1>4. /\ Range(queue') = Range(queue) \union {o} /\ IsInjective(queue')
      /\ Range(sent') = Range(sent) \union {o} /\ IsInjective(sent')
      /\ Len(queue') = Len(queue) + 1 /\ Len(sent') = Len(sent) + 1
  BY <1>1, <1>2, <1>3, RangeAppend DEF Placed, Ownership
<1>5. Popped' = Popped /\ InHand' = InHand
  BY <1>1 DEF Popped, InHand
<1>6. Ownership'
  BY <1>1, <1>3, <1>4, <1>5 DEF Placed, Ownership
<1>7. /\ DOMAIN queue = 1..Len(queue) /\ DOMAIN queue' = 1..(Len(queue) + 1)
      /\ DOMAIN sent = 1..Len(sent) /\ DOMAIN sent' = 1..(Len(sent) + 1)
      /\ \A a \in 1..Len(queue) : queue'[a] = queue[a]
      /\ \A j \in 1..Len(sent) : sent'[j] = sent[j]
      /\ queue'[Len(queue) + 1] = o /\ sent'[Len(sent) + 1] = o
      /\ Len(queue) \in Nat /\ Len(sent) \in Nat /\ Len(queue) <= Len(sent)
  BY <1>1, <1>2 DEF Placed, Order
<1>8. ASSUME NEW a \in DOMAIN queue'
      PROVE  queue'[a] = sent'[Len(sent') - Len(queue') + a]
  <2>1. Len(sent') - Len(queue') + a = Len(sent) - Len(queue) + a
    BY <1>4, <1>7
  <2>2. CASE a = Len(queue) + 1
    <3>1. Len(sent) - Len(queue) + a = Len(sent) + 1
      BY <1>7, <2>2
    <3> QED
      BY <1>7, <2>1, <2>2, <3>1
  <2>3. CASE a \in 1..Len(queue)
    <3>1. Len(sent) - Len(queue) + a \in 1..Len(sent)
      BY <1>7, <2>3
    <3>2. queue[a] = sent[Len(sent) - Len(queue) + a]
      BY <1>7, <2>3 DEF Placed, Order
    <3> QED
      BY <1>7, <2>1, <2>3, <3>1, <3>2
  <2> QED
    BY <1>7, <2>2, <2>3
<1>9. ASSUME NEW j \in DOMAIN sent', sent'[j] \in Popped', NEW i \in 1..j
      PROVE  sent'[i] \in Popped'
  <2>1. j \in DOMAIN sent /\ i \in DOMAIN sent
    BY <1>3, <1>5, <1>7, <1>9
  <2>2. sent[j] \in Popped => sent[i] \in Popped
    BY <2>1, <1>9 DEF Placed, Order
  <2> QED
    BY <1>5, <1>7, <1>9, <2>1, <2>2
<1>10. Order'
  BY <1>1, <1>4, <1>7, <1>8, <1>9 DEF Placed, Order
<1> QED
  BY <1>6, <1>10

\* What is queued is deleted.
LEMMA CancelPlaced ==
  ASSUME Placed, Cancel, discarded' = discarded \union Range(queue),
         UNCHANGED <<held, sent, executed, leaked>>
  PROVE  Ownership' /\ Order'
<1>1. queue' = <<>> /\ shutdown' /\ Range(queue') = {} /\ Popped' = Popped /\ InHand' = InHand
  BY DEF Cancel, Range, Popped, InHand
<1>2. IsInjective(queue') /\ DOMAIN queue' = {} /\ Len(queue') = 0
  BY <1>1 DEF IsInjective
<1>3. Len(sent) \in Nat
  BY DEF Placed, IInv, TypeOK
<1>4. Ownership'
  BY <1>1, <1>2 DEF Placed, Ownership
<1>5. Order'
  BY <1>1, <1>2, <1>3 DEF Placed, Order
<1> QED
  BY <1>4, <1>5

\* Every other step moves none.
LEMMA IdleSteps ==
  ASSUME \/ \E w \in Worker : WaitForWork(w) \/ TakeNothing(w) \/ StartCall(w) \/ Wakeup(w)
         \/ \E w \in Worker : SetToken(w) \/ Join(w) \/ CloseHandle(w)
         \/ \E w \in Worker : Construct(w) \/ Connected(w) \/ ConnectFailed(w)
         \/ BeginOpen \/ BeginClose \/ EndClose \/ OpenAgain \/ GiveUp
         \/ UNCHANGED vars
  PROVE  UNCHANGED dataVars
<1> USE DEF dataVars, vars, queueVars, workerVars, poolVars
<1>1. ASSUME NEW w \in Worker, WaitForWork(w) \/ TakeNothing(w) \/ StartCall(w) \/ Wakeup(w)
      PROVE  UNCHANGED dataVars
  BY <1>1 DEF WaitForWork, TakeNothing, StartCall, Wakeup, BlockOn, ReceiveNothing, SpuriousWakeup
<1>2. ASSUME NEW w \in Worker, SetToken(w) \/ Join(w) \/ CloseHandle(w)
      PROVE  UNCHANGED dataVars
  BY <1>2 DEF SetToken, Join, CloseHandle
<1>3. ASSUME NEW w \in Worker, Construct(w) \/ Connected(w) \/ ConnectFailed(w)
      PROVE  UNCHANGED dataVars
  BY <1>3 DEF Construct, Connected, ConnectFailed
<1>4. ASSUME BeginOpen \/ BeginClose \/ EndClose \/ OpenAgain \/ GiveUp
      PROVE  UNCHANGED dataVars
  BY <1>4 DEF BeginOpen, BeginClose, EndClose, OpenAgain, GiveUp
<1> QED
  BY <1>1, <1>2, <1>3, <1>4

LEMMA CancelSteps ==
  ASSUME DestroyPool \/ \E w \in Worker : CancelQueue(w)
  PROVE  /\ Cancel /\ discarded' = discarded \union Range(queue)
         /\ UNCHANGED <<held, sent, executed, leaked, pc>>
BY DEF CancelQueue, DestroyPool, workerVars

LEMMA NextPlaced == Placed /\ [Next]_vars => Placed'
<1> SUFFICES ASSUME Placed, [Next]_vars PROVE Placed'
  OBVIOUS
<1>1. IInv'
  BY NextInv DEF Placed
<1>2. Ownership' /\ Order'
  <2>1. ASSUME NEW w \in Worker, TakeWork(w) \/ ExitThread(w) \/ FinishCall(w)
        PROVE  Ownership' /\ Order'
    BY <2>1, TakeWorkPlaced, ExitThreadPlaced, FinishCallPlaced
  <2>2. ASSUME NEW o \in Op, Enqueue(o) PROVE Ownership' /\ Order'
    BY <2>2, EnqueuePlaced
  <2>3. CASE DestroyPool \/ \E w \in Worker : CancelQueue(w)
    BY <2>3, CancelSteps, CancelPlaced
  <2>4. CASE UNCHANGED dataVars
    BY <2>4, NothingMoves
  <2> QED
    BY <2>1, <2>2, <2>3, <2>4, IdleSteps DEF Next, WorkerStep, Destruction, Terminated
<1> QED
  BY <1>1, <1>2 DEF Placed

THEOREM PlacedAlways == Spec => []Placed
  BY InitPlaced, NextPlaced, PTL DEF Spec

\* Operations overtake one another only in different workers' hands: whatever was
\* enqueued before an executed operation has left the queue, too.
THEOREM QueueKeepsOrder == Spec => []OvertakingBounded
<1>1. Placed => OvertakingBounded
  <2> SUFFICES ASSUME Placed, NEW j \in DOMAIN sent, sent[j] \in Range(executed), NEW i \in 1..j
               PROVE  sent[i] \in Range(executed) \union Range(held) \union leaked
    BY DEF OvertakingBounded
  <2>1. sent[i] \in Popped
    BY DEF Placed, Order, Popped
  <2>2. InHand \subseteq Range(held)
    BY DEF InHand, Range, Placed, IInv, TypeOK
  <2> QED
    BY <2>1, <2>2 DEF Popped
<1> QED
  BY <1>1, PlacedAlways, PTL

-----------------------------------------------------------------------------
(* The refinement of AsyncExecution *)

\* Where o is, when it is in one place.
Calling(o) == \E w \in Worker : held[w] = o /\ pc[w] = "call"

Place(o) ==
  IF o \in Range(executed) THEN "done"
  ELSE IF o \in discarded \union leaked THEN "dropped"
  ELSE IF Calling(o) THEN "running"
  ELSE IF o \in Range(queue) \union InHand THEN "pending" ELSE "unsent"

\* Nothing occurs twice in an injective sequence.
LEMMA Occurrences ==
  ASSUME NEW S, NEW s \in Seq(S), IsInjective(s), NEW o
  PROVE  Cardinality({i \in DOMAIN s : s[i] = o}) = IF o \in Range(s) THEN 1 ELSE 0
<1>1. CASE o \in Range(s)
  <2>1. PICK i \in DOMAIN s : s[i] = o
    BY <1>1 DEF Range
  <2>2. {k \in DOMAIN s : s[k] = o} = {i}
    BY <2>1 DEF IsInjective
  <2> QED
    BY <1>1, <2>2, FS_Singleton
<1>2. CASE o \notin Range(s)
  <2>1. {k \in DOMAIN s : s[k] = o} = {}
    BY <1>2 DEF Range
  <2> QED
    BY <1>2, <2>1, FS_EmptySet
<1> QED
  BY <1>1, <1>2

\* An operation is in one place at most.
LEMMA FoundOnce ==
  ASSUME Placed, NEW o \in Op
  PROVE  ~(Found(o) > 1)
<1>1. o # NoOp
  BY OpAssumption
<1>2. Cardinality({i \in DOMAIN queue : queue[i] = o}) = IF o \in Range(queue) THEN 1 ELSE 0
  BY Occurrences DEF Placed, IInv, TypeOK, Ownership
<1>3. Cardinality({i \in DOMAIN executed : executed[i] = o}) = IF o \in Range(executed) THEN 1 ELSE 0
  BY Occurrences DEF Placed, IInv, TypeOK, Ownership
<1>4. Cardinality({w \in Worker : held[w] = o}) = IF o \in InHand THEN 1 ELSE 0
  <2>1. CASE o \in InHand
    <3>1. PICK w \in Worker : held[w] = o
      BY <2>1 DEF InHand
    <3>2. {v \in Worker : held[v] = o} = {w}
      BY <1>1, <3>1 DEF Placed, Ownership
    <3> QED
      BY <2>1, <3>2, FS_Singleton
  <2>2. CASE o \notin InHand
    <3>1. {v \in Worker : held[v] = o} = {}
      BY <1>1, <2>2 DEF InHand
    <3> QED
      BY <2>2, <3>1, FS_EmptySet
  <2> QED
    BY <2>1, <2>2
<1> DEFINE gone == {S \in {<<1, discarded>>, <<2, leaked>>} : o \in S[2]}
<1>5. Cardinality(gone) = IF o \in discarded \union leaked THEN 1 ELSE 0
  <2>1. ~(o \in discarded /\ o \in leaked)
    BY DEF Placed, Ownership, Popped
  <2>2. CASE o \in discarded
    <3>1. gone = {<<1, discarded>>}
      BY <2>1, <2>2
    <3> QED
      BY <2>2, <3>1, FS_Singleton
  <2>3. CASE o \in leaked
    <3>1. gone = {<<2, leaked>>}
      BY <2>1, <2>3
    <3> QED
      BY <2>3, <3>1, FS_Singleton
  <2>4. CASE o \notin discarded \union leaked
    <3>1. gone = {}
      BY <2>4
    <3> QED
      BY <2>4, <3>1, FS_EmptySet
  <2> QED
    BY <2>2, <2>3, <2>4
<1>6. /\ ~(o \in Range(queue) /\ o \in InHand) /\ ~(o \in Range(queue) /\ o \in Range(executed))
      /\ ~(o \in Range(queue) /\ o \in discarded \union leaked)
      /\ ~(o \in InHand /\ o \in Range(executed)) /\ ~(o \in InHand /\ o \in discarded \union leaked)
      /\ ~(o \in Range(executed) /\ o \in discarded \union leaked)
  BY DEF Placed, Ownership, Popped
<1> HIDE DEF gone
<1>7. Found(o) = Cardinality({i \in DOMAIN queue : queue[i] = o}) + Cardinality({w \in Worker : held[w] = o})
                   + Cardinality({i \in DOMAIN executed : executed[i] = o}) + Cardinality(gone)
  BY DEF Found, gone
<1> QED
  BY <1>2, <1>3, <1>4, <1>5, <1>6, <1>7

\* So the refinement mapping is what it looks like.
LEMMA StatusIsPlace == Placed => \A o \in Op : StatusOf(o) = Place(o)
<1> SUFFICES ASSUME Placed, NEW o \in Op PROVE StatusOf(o) = Place(o)
  OBVIOUS
<1>1. ~(Found(o) > 1) /\ o # NoOp
  BY FoundOnce, OpAssumption
<1>2. /\ o \in Range(executed) => o \notin Range(queue) \union InHand \union discarded \union leaked
      /\ o \in discarded \union leaked => o \notin Range(queue) \union InHand
      /\ o \in Range(queue) => o \notin InHand
  BY DEF Placed, Ownership, Popped
<1>3. o \in InHand <=> \E w \in Worker : held[w] = o
  BY <1>1 DEF InHand
<1>4. \A w \in Worker : held[w] = o => pc[w] = "call" \/ pc[w] = "check"
  BY <1>1 DEF Placed, IInv, Lifecycle
<1>5. \A v, w \in Worker : held[v] = o /\ held[w] = o => v = w
  BY <1>1 DEF Placed, Ownership
<1>6. /\ Calling(o) => o \in InHand
      /\ (\E w \in Worker : held[w] = o /\ pc[w] = "check") <=> o \in InHand /\ ~Calling(o)
  BY <1>3, <1>4, <1>5 DEF Calling
<1>7. StatusOf(o) = CASE o \in Range(executed) -> "done"
                      [] o \in discarded \union leaked -> "dropped"
                      [] Calling(o) -> "running"
                      [] o \in Range(queue) \/ (o \in InHand /\ ~Calling(o)) -> "pending"
                      [] OTHER -> "unsent"
  BY <1>1, <1>6 DEF StatusOf, Calling
<1> QED
  BY <1>2, <1>6, <1>7 DEF Place

Closing == pool \in {"closing", "closed", "destroyed"}

\* The places before and after are the abstract status before and after.
LEMMA StatusPlaces ==
  Placed /\ Placed' => /\ \A o \in Op : StatusOf(o) = Place(o)
                       /\ (\A o \in Op : StatusOf(o) = Place(o))'
BY StatusIsPlace, PTL

\* A step that changes the place of o alone, or of none, or drops what is in D.
LEMMA MoveOne ==
  ASSUME Placed, Placed', NEW o \in Op, NEW from, NEW to, Place(o) = from, Place(o)' = to,
         \A p \in Op \ {o} : Place(p)' = Place(p)
  PROVE  Abstract!Move(o, from, to)
BY StatusPlaces DEF Abstract!Move

LEMMA MoveNone ==
  ASSUME Placed, Placed', \A o \in Op : Place(o)' = Place(o)
  PROVE  UNCHANGED [o \in Op |-> StatusOf(o)]
BY StatusPlaces

LEMMA MoveMany ==
  ASSUME Placed, Placed', NEW D \in SUBSET Op, Closing, Closing',
         \A o \in D : Place(o) = "pending" /\ Place(o)' = "dropped",
         \A o \in Op \ D : Place(o)' = Place(o)
  PROVE  Abstract!Drop(D)
BY StatusPlaces DEF Abstract!Drop, Closing

\* No operation moves and nobody begins or ends to execute one.
LEMMA SamePlaces ==
  ASSUME Placed, UNCHANGED dataVars,
         \A w \in Worker : held[w] # NoOp => (pc'[w] = "call" <=> pc[w] = "call")
  PROVE  \A o \in Op : Place(o)' = Place(o)
<1> SUFFICES ASSUME NEW o \in Op PROVE Place(o)' = Place(o)
  OBVIOUS
<1>1. Calling(o)' <=> Calling(o)
  BY OpAssumption DEF Calling, dataVars
<1> QED
  BY <1>1 DEF Place, InHand, dataVars

LEMMA StartCallPlaces ==
  ASSUME Placed, Placed', NEW w \in Worker, StartCall(w)
  PROVE  \E o \in Op : Abstract!Start(o)
<1>1. PICK o \in Op : /\ held[w] = o /\ o # NoOp /\ pc[w] = "check"
                      /\ pc' = [pc EXCEPT ![w] = "call"] /\ UNCHANGED dataVars /\ UNCHANGED pool
  BY DEF StartCall, Placed, IInv, TypeOK, dataVars, queueVars, poolVars
<1>2. o \in InHand
  BY <1>1 DEF InHand
<1>3. Calling(o)' /\ ~Calling(o) /\ \A p \in Op \ {o} : Calling(p)' <=> Calling(p)
  <2>1. \A v \in Worker : held[v] = o => v = w
    BY <1>1 DEF Placed, Ownership
  <2>2. \A v \in Worker : pc'[v] = IF v = w THEN "call" ELSE pc[v]
    BY <1>1 DEF Placed, IInv, TypeOK
  <2> QED
    BY <1>1, <2>1, <2>2 DEF Calling, dataVars
<1>4. Place(o) = "pending" /\ Place(o)' = "running"
  BY <1>1, <1>2, <1>3 DEF Place, InHand, dataVars, Placed, Ownership, Popped
<1>5. \A p \in Op \ {o} : Place(p)' = Place(p)
  BY <1>1, <1>3 DEF Place, InHand, dataVars
<1> QED
  BY <1>1, <1>4, <1>5, MoveOne DEF Abstract!Start

LEMMA TakeWorkPlaces ==
  ASSUME Placed, NEW w \in Worker, TakeWork(w)
  PROVE  (\A p \in Op : Place(p)' = Place(p)) /\ UNCHANGED pool
<1>1. PICK o \in Op : /\ queue # <<>> /\ o = Head(queue) /\ queue' = Tail(queue)
                      /\ held' = [held EXCEPT ![w] = o] /\ pc' = [pc EXCEPT ![w] = "check"]
                      /\ UNCHANGED <<executed, discarded, leaked, pool>>
  BY DEF TakeWork, Receive, poolVars
<1>2. queue \in Seq(Op) /\ held[w] = NoOp /\ o # NoOp
  BY OpAssumption DEF Placed, IInv, TypeOK, Lifecycle, TakeWork
<1>3. Range(queue) = Range(queue') \union {o}
  BY <1>1, <1>2, RangeTail DEF Placed, Ownership
<1>4. o \notin InHand
  BY <1>3 DEF Placed, Ownership, Popped
<1>5. InHand' = InHand \union {o}
  <2>1. InHand' = (InHand \ {held[w]}) \union ({o} \ {NoOp})
    BY <1>1, <1>4, HandChange
  <2> QED
    BY <1>2, <2>1 DEF InHand
<1>6. \A p \in Op : Calling(p)' <=> Calling(p)
  <2>1. \A v \in Worker : /\ held'[v] = IF v = w THEN o ELSE held[v]
                          /\ pc'[v] = IF v = w THEN "check" ELSE pc[v]
    BY <1>1 DEF Placed, IInv, TypeOK
  <2> QED
    BY <1>2, <2>1, OpAssumption DEF Calling
<1>7. \A p \in Op : p \in Range(queue') \union InHand' <=> p \in Range(queue) \union InHand
  BY <1>3, <1>5
<1> QED
  BY <1>1, <1>6, <1>7 DEF Place

\* A cancelled worker gives up what it has taken: only while the pool is closed.
LEMMA ExitThreadPlaces ==
  ASSUME Placed, Placed', NEW w \in Worker, ExitThread(w)
  PROVE  (UNCHANGED [o \in Op |-> StatusOf(o)] \/ \E D \in SUBSET Op : Abstract!Drop(D)) /\ UNCHANGED pool
<1>1. /\ held' = [held EXCEPT ![w] = NoOp] /\ leaked' = leaked \union ({held[w]} \ {NoOp})
      /\ pc' = [pc EXCEPT ![w] = "exited"] /\ pc[w] = "check"
      /\ UNCHANGED <<queue, shutdown, sent, executed, discarded, pool>>
  BY DEF ExitThread, queueVars, poolVars
<1>2. /\ InHand' = InHand \ {held[w]} /\ (held[w] # NoOp => held[w] \in InHand)
  BY <1>1, HandEmptied
<1>3. \A p \in Op : Calling(p)' <=> Calling(p)
  <2>1. \A v \in Worker : /\ held'[v] = IF v = w THEN NoOp ELSE held[v]
                          /\ pc'[v] = IF v = w THEN "exited" ELSE pc[v]
    BY <1>1 DEF Placed, IInv, TypeOK
  <2> QED
    BY <1>1, <2>1, OpAssumption DEF Calling
<1>4. CASE held[w] = NoOp
  <2>1. InHand' = InHand /\ leaked' = leaked
    BY <1>1, <1>2, <1>4 DEF InHand
  <2> QED
    BY <1>1, <1>3, <2>1, MoveNone DEF Place
<1>5. CASE held[w] # NoOp
  <2>1. held[w] \in Op /\ held[w] \in InHand /\ Closing
    <3>1. stage[w] \in {"stopping", "cancelled", "joined", "closed"}
      BY <1>5 DEF ExitThread, Token
    <3>2. pool \notin {"new", "opening", "open_failed", "failed", "open"}
      BY <1>5, <3>1 DEF Placed, IInv, Lifecycle
    <3> QED
      BY <1>2, <1>5, <3>2 DEF Placed, IInv, TypeOK, Pool, Closing
  <2>2. PICK o \in Op : o = held[w]
    BY <2>1
  <2>3. ~Calling(o)
    BY <1>1, <1>5, <2>2 DEF Calling, Placed, Ownership
  <2>4. Place(o) = "pending" /\ Place(o)' = "dropped"
    BY <1>1, <2>1, <2>2, <2>3, <1>5 DEF Place, Placed, Ownership, Popped
  <2>5. \A p \in Op \ {o} : Place(p)' = Place(p)
    BY <1>1, <1>2, <1>3, <2>2 DEF Place
  <2>6. Abstract!Drop({o})
    BY <1>1, <2>1, <2>4, <2>5, MoveMany DEF Closing
  <2> QED
    BY <1>1, <2>6
<1> QED
  BY <1>4, <1>5

LEMMA FinishCallPlaces ==
  ASSUME Placed, Placed', NEW w \in Worker, FinishCall(w)
  PROVE  \E o \in Op : Abstract!Finish(o)
<1>1. PICK o \in Op : /\ o = held[w] /\ o # NoOp /\ pc[w] = "call" /\ pc' = [pc EXCEPT ![w] = "pop"]
                      /\ held' = [held EXCEPT ![w] = NoOp] /\ executed' = Append(executed, o)
                      /\ UNCHANGED <<queue, discarded, leaked, pool>>
  BY DEF FinishCall, queueVars, poolVars, Placed, IInv, TypeOK, Lifecycle
<1>2. InHand' = InHand \ {o} /\ o \in InHand
  BY <1>1, HandEmptied
<1>3. Range(executed') = Range(executed) \union {o}
  BY <1>1, RangeAppend DEF Placed, IInv, TypeOK
<1>4. Calling(o) /\ \A p \in Op \ {o} : Calling(p)' <=> Calling(p)
  <2>1. \A v \in Worker : /\ held'[v] = IF v = w THEN NoOp ELSE held[v]
                          /\ pc'[v] = IF v = w THEN "pop" ELSE pc[v]
    BY <1>1 DEF Placed, IInv, TypeOK
  <2> QED
    BY <1>1, <2>1, OpAssumption DEF Calling
<1>5. Place(o) = "running" /\ Place(o)' = "done"
  BY <1>2, <1>3, <1>4 DEF Place, Placed, Ownership, Popped
<1>6. \A p \in Op \ {o} : Place(p)' = Place(p)
  BY <1>1, <1>2, <1>3, <1>4 DEF Place
<1> QED
  BY <1>1, <1>5, <1>6, MoveOne DEF Abstract!Finish

LEMMA EnqueuePlaces ==
  ASSUME Placed, Placed', NEW o \in Op, Enqueue(o)
  PROVE  Abstract!Send(o)
<1>1. /\ o \notin Range(sent) /\ queue' = Append(queue, o) /\ pool = "open"
      /\ UNCHANGED <<held, executed, discarded, leaked, pc, pool>>
  BY DEF Enqueue, Push, workerVars, poolVars
<1>2. Range(queue') = Range(queue) \union {o}
  BY <1>1, RangeAppend DEF Placed, IInv, TypeOK
<1>3. o \notin Range(queue) \union Popped \union discarded
  BY <1>1 DEF Placed, Ownership
<1>4. ~Calling(o) /\ \A p \in Op : Calling(p)' <=> Calling(p)
  BY <1>1, <1>3, OpAssumption DEF Calling, Popped, InHand
<1>5. Place(o) = "unsent" /\ Place(o)' = "pending"
  BY <1>1, <1>2, <1>3, <1>4 DEF Place, Popped
<1>6. \A p \in Op \ {o} : Place(p)' = Place(p)
  BY <1>1, <1>2, <1>4 DEF Place, InHand
<1> QED
  BY <1>1, <1>5, <1>6, MoveOne DEF Abstract!Send

\* What is deleted with the queue is dropped.
LEMMA CancelPlaces ==
  ASSUME Placed, Cancel, discarded' = discarded \union Range(queue),
         UNCHANGED <<held, sent, executed, leaked, pc>>
  PROVE  /\ Range(queue) \in SUBSET Op
         /\ \A o \in Range(queue) : Place(o) = "pending" /\ Place(o)' = "dropped"
         /\ \A o \in Op \ Range(queue) : Place(o)' = Place(o)
<1>1. Range(queue) \in SUBSET Op
  BY RangeInSet DEF Placed, IInv, TypeOK
<1>2. \A o \in Op : Calling(o)' <=> Calling(o)
  BY DEF Calling
<1>3. Range(queue') = {} /\ InHand' = InHand
  BY DEF Cancel, Range, InHand
<1>4. ASSUME NEW o \in Range(queue) PROVE Place(o) = "pending" /\ Place(o)' = "dropped"
  <2>1. o \notin Range(executed) \union discarded \union leaked /\ o \notin InHand
    BY <1>4 DEF Placed, Ownership, Popped
  <2>2. ~Calling(o)
    BY <1>1, <1>4, <2>1, OpAssumption DEF Calling, InHand
  <2> QED
    BY <1>4, <2>1, <2>2 DEF Place
<1>5. \A o \in Op \ Range(queue) : Place(o)' = Place(o)
  BY <1>2, <1>3 DEF Place
<1> QED
  BY <1>1, <1>4, <1>5

LEMMA IdlePlaces ==
  ASSUME Placed, Placed',
         \/ \E w \in Worker : WaitForWork(w) \/ TakeNothing(w) \/ Wakeup(w)
         \/ \E w \in Worker : SetToken(w) \/ Join(w) \/ CloseHandle(w)
         \/ \E w \in Worker : Construct(w) \/ Connected(w) \/ ConnectFailed(w)
         \/ BeginOpen \/ BeginClose \/ EndClose \/ OpenAgain \/ GiveUp
         \/ UNCHANGED vars
  PROVE  UNCHANGED [o \in Op |-> StatusOf(o)]
<1>1. UNCHANGED dataVars
  BY IdleSteps
<1>2. \A w \in Worker : held[w] # NoOp => (pc'[w] = "call" <=> pc[w] = "call")
  <2> USE DEF vars, workerVars, poolVars
  <2>1. ASSUME NEW w \in Worker, WaitForWork(w) \/ TakeNothing(w) \/ Wakeup(w)
        PROVE  \A v \in Worker : pc'[v] = "call" <=> pc[v] = "call"
    BY <2>1 DEF WaitForWork, TakeNothing, Wakeup, Placed, IInv, TypeOK
  <2>2. ASSUME NEW w \in Worker, SetToken(w) \/ Join(w) \/ CloseHandle(w)
        PROVE  pc' = pc
    BY <2>2 DEF SetToken, Join, CloseHandle
  <2>3. ASSUME NEW w \in Worker, Construct(w) \/ Connected(w) \/ ConnectFailed(w)
        PROVE  \A v \in Worker : pc'[v] = "call" <=> pc[v] = "call"
    BY <2>3 DEF Construct, Connected, ConnectFailed, Placed, IInv, TypeOK, Lifecycle
  <2>4. BeginOpen \/ BeginClose \/ EndClose \/ GiveUp => pc' = pc
    BY DEF BeginOpen, BeginClose, EndClose, GiveUp
  <2>5. OpenAgain => \A v \in Worker : held[v] = NoOp
    BY DEF OpenAgain, Placed, IInv, Lifecycle
  <2> QED
    BY <2>1, <2>2, <2>3, <2>4, <2>5
<1> QED
  BY <1>1, <1>2, SamePlaces, MoveNone

\* While the pool is not being closed these leave `closing' as it is, too.
LEMMA IdleClosing ==
  ASSUME \/ \E w \in Worker : WaitForWork(w) \/ TakeNothing(w) \/ Wakeup(w)
         \/ \E w \in Worker : SetToken(w) \/ Join(w) \/ CloseHandle(w)
         \/ \E w \in Worker : Construct(w) \/ Connected(w) \/ ConnectFailed(w)
         \/ BeginOpen \/ EndClose \/ OpenAgain \/ GiveUp
         \/ UNCHANGED vars
  PROVE  UNCHANGED Closing
<1> USE DEF Closing, vars, poolVars
<1>1. ASSUME NEW w \in Worker, WaitForWork(w) \/ TakeNothing(w) \/ Wakeup(w)
      PROVE  UNCHANGED Closing
  BY <1>1 DEF WaitForWork, TakeNothing, Wakeup
<1>2. ASSUME NEW w \in Worker, SetToken(w) \/ Join(w) \/ CloseHandle(w)
      PROVE  UNCHANGED Closing
  BY <1>2 DEF SetToken, Join, CloseHandle, Destroy
<1>3. ASSUME NEW w \in Worker, Construct(w) \/ Connected(w) \/ ConnectFailed(w)
      PROVE  UNCHANGED Closing
  BY <1>3 DEF Construct, Connected, ConnectFailed
<1>4. ASSUME BeginOpen \/ EndClose \/ OpenAgain \/ GiveUp
      PROVE  UNCHANGED Closing
  BY <1>4 DEF BeginOpen, EndClose, OpenAgain, GiveUp
<1> QED
  BY <1>1, <1>2, <1>3, <1>4

\* Every step is one of AsyncExecution, or changes nothing there.
LEMMA NextRefines ==
  ASSUME Placed, Placed', [Next]_vars
  PROVE  [Abstract!Next]_Abstract!vars
<1>1. CASE \/ \E w \in Worker : WaitForWork(w) \/ TakeNothing(w) \/ Wakeup(w)
           \/ \E w \in Worker : SetToken(w) \/ Join(w) \/ CloseHandle(w)
           \/ \E w \in Worker : Construct(w) \/ Connected(w) \/ ConnectFailed(w)
           \/ BeginOpen \/ EndClose \/ OpenAgain \/ GiveUp
           \/ UNCHANGED vars
  <2>1. UNCHANGED [o \in Op |-> StatusOf(o)] /\ UNCHANGED Closing
    BY <1>1, IdlePlaces, IdleClosing
  <2> QED
    BY <2>1 DEF Abstract!vars, Closing
<1>2. CASE BeginClose
  <2>1. UNCHANGED [o \in Op |-> StatusOf(o)]
    BY <1>2, IdlePlaces
  <2> QED
    BY <1>2, <2>1 DEF BeginClose, Abstract!Next, Abstract!Close
<1>3. ASSUME NEW w \in Worker, TakeWork(w) PROVE UNCHANGED Abstract!vars
  <2>1. UNCHANGED [o \in Op |-> StatusOf(o)] /\ UNCHANGED pool
    BY <1>3, TakeWorkPlaces, MoveNone
  <2> QED
    BY <2>1 DEF Abstract!vars
<1>4. ASSUME NEW w \in Worker, StartCall(w) \/ FinishCall(w) PROVE Abstract!Next
  BY <1>4, StartCallPlaces, FinishCallPlaces DEF Abstract!Next
<1>5. ASSUME NEW w \in Worker, ExitThread(w) PROVE [Abstract!Next]_Abstract!vars
  BY <1>5, ExitThreadPlaces DEF Abstract!Next, Abstract!vars
<1>6. ASSUME NEW o \in Op, Enqueue(o) PROVE Abstract!Next
  BY <1>6, EnqueuePlaces DEF Abstract!Next
<1>7. CASE DestroyPool \/ \E w \in Worker : CancelQueue(w)
  <2>1. /\ Cancel /\ discarded' = discarded \union Range(queue)
        /\ UNCHANGED <<held, sent, executed, leaked, pc>>
    BY <1>7, CancelSteps
  <2>2. /\ Range(queue) \in SUBSET Op
        /\ \A o \in Range(queue) : Place(o) = "pending" /\ Place(o)' = "dropped"
        /\ \A o \in Op \ Range(queue) : Place(o)' = Place(o)
    BY <2>1, CancelPlaces
  <2>3. CASE Closing
    <3>1. Closing'
      BY <1>7, <2>3 DEF Closing, DestroyPool, CancelQueue, Destroy
    <3>2. Abstract!Drop(Range(queue))
      BY <2>2, <2>3, <3>1, MoveMany
    <3> QED
      BY <2>2, <3>2 DEF Abstract!Next
  <2>4. CASE ~Closing
    <3>1. queue = <<>> /\ Range(queue) = {}
      BY <1>7, <2>4 DEF Closing, DestroyPool, CancelQueue, Destroy, Placed, IInv, Lifecycle, Range
    <3>2. UNCHANGED [o \in Op |-> StatusOf(o)]
      BY <2>2, <3>1, MoveNone
    <3>3. CASE DestroyPool
      BY <2>4, <3>2, <3>3 DEF DestroyPool, Closing, Abstract!Next, Abstract!Close
    <3>4. CASE \E w \in Worker : CancelQueue(w)
      BY <2>4, <3>2, <3>4 DEF CancelQueue, Destroy, Abstract!vars
    <3> QED
      BY <1>7, <3>3, <3>4
  <2> QED
    BY <2>3, <2>4
<1> QED
  BY <1>1, <1>2, <1>3, <1>4, <1>5, <1>6, <1>7 DEF Next, WorkerStep, Destruction, Terminated

\* Each operation is started at most once, runs to its end once started, and is
\* dropped only while the pool is being closed, with any number of workers and also
\* in a pool that was opened twice.
THEOREM Implements == Spec => AbstractSpec
<1>1. Init => Abstract!Init
  <2> SUFFICES ASSUME Init PROVE Abstract!Init
    OBVIOUS
  <2>1. InHand = {} /\ Range(queue) = {} /\ Range(executed) = {}
    BY DEF Init, QueueInit, InHand, Range
  <2>2. \A o \in Op : Place(o) = "unsent"
    BY <2>1 DEF Init, Place, Calling
  <2>3. [o \in Op |-> StatusOf(o)] = [o \in Op |-> "unsent"]
    BY <2>2, InitPlaced, StatusIsPlace
  <2>4. (pool \in {"closing", "closed", "destroyed"}) = FALSE
    BY DEF Init
  <2> QED
    BY <2>3, <2>4 DEF Abstract!Init
<1>2. Placed /\ Placed' /\ [Next]_vars => [Abstract!Next]_Abstract!vars
  BY NextRefines
<1> QED
  BY <1>1, <1>2, InitPlaced, NextPlaced, PTL DEF Spec, AbstractSpec, Abstract!Spec
=============================================================================
