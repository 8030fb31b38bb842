-------------------------- MODULE DatabaseWorkers --------------------------
(***************************************************************************)
(* The asynchronous half of DatabaseWorkerPool: the connections of         *)
(* _connections[IDX_ASYNC], the thread each of them owns (DatabaseWorker), *)
(* the queue they share, and the thread that opens and closes the pool.    *)
(*                                                                         *)
(* A connection is identified with its worker thread: MySQLConnection's    *)
(* constructor starts the thread and its Close joins it.  `stage' follows  *)
(* the connection through the main thread's calls, `pc' follows the        *)
(* worker thread through DatabaseWorker::WorkerThread.                     *)
(***************************************************************************)
EXTENDS ProducerConsumerQueue, FiniteSets, Functions

CONSTANTS
  Worker,      \* the asynchronous connections, <Name>Database.WorkerThreads of them
  Op,          \* SQLOperations the callers enqueue, each once
  NoOp,        \* the null SQLOperation*
  AutoSetup    \* Updates.AutoSetup: a missing database is created and opened again

ASSUME WorkerAssumption == IsFiniteSet(Worker) /\ Worker # {}
ASSUME OpAssumption == NoOp \notin Op
ASSUME AutoSetupAssumption == AutoSetup \in BOOLEAN

VARIABLES
  pool,        \* how far Open, Close and the destructor have come
  retried,     \* Open has been called a second time
  stage,       \* stage[w]: the connection, from its construction to mysql_close
  pc,          \* pc[w]: the worker thread's place in WorkerThread
  held,        \* held[w]: its local `operation'
  sent,        \* history: the operations in the order of their Push
  executed,    \* history: the operations in the order their call() returned
  discarded,   \* history: deleted by Cancel
  leaked       \* history: popped, then neither called nor deleted

workerVars == <<pc, held, executed, leaked>>
poolVars == <<pool, retried, stage>>
vars == <<queueVars, workerVars, poolVars, sent, discarded>>


Stage == {"none", "connecting", "open", "stopping", "cancelled", "joined", "closed"}
Pool == {"new", "opening", "open_failed", "failed", "open", "closing", "closed", "destroyed"}

Init ==
  /\ QueueInit
  /\ pool = "new" /\ retried = FALSE
  /\ stage = [w \in Worker |-> "none"]
  /\ pc = [w \in Worker |-> "none"]
  /\ held = [w \in Worker |-> NoOp]
  /\ sent = <<>> /\ executed = <<>>
  /\ discarded = {} /\ leaked = {}

-----------------------------------------------------------------------------
(* The worker thread: DatabaseWorker::WorkerThread *)

\* _cancelationToken, which the destructor of the worker sets first.
Token(w) == stage[w] \in {"stopping", "cancelled", "joined", "closed"}

WaitForWork(w) ==
  /\ pc[w] = "pop"
  /\ BlockOn(w)
  /\ UNCHANGED <<workerVars, poolVars, sent, discarded>>

Wakeup(w) ==
  /\ SpuriousWakeup(w)
  /\ UNCHANGED <<workerVars, poolVars, sent, discarded>>

TakeWork(w) ==
  /\ pc[w] = "pop"
  /\ \E o \in Op : Receive(w, o) /\ held' = [held EXCEPT ![w] = o]
  /\ pc' = [pc EXCEPT ![w] = "check"]
  /\ UNCHANGED <<executed, leaked, poolVars, sent, discarded>>

TakeNothing(w) ==
  /\ pc[w] = "pop"
  /\ ReceiveNothing(w)
  /\ pc' = [pc EXCEPT ![w] = "check"]
  /\ UNCHANGED <<held, executed, leaked, poolVars, sent, discarded>>

\* if (_cancelationToken || !operation) return;
ExitThread(w) ==
  /\ pc[w] = "check"
  /\ Token(w) \/ held[w] = NoOp
  /\ pc' = [pc EXCEPT ![w] = "exited"]
  /\ held' = [held EXCEPT ![w] = NoOp]
  /\ leaked' = leaked \union ({held[w]} \ {NoOp})
  /\ UNCHANGED <<executed, queueVars, poolVars, sent, discarded>>

StartCall(w) ==
  /\ pc[w] = "check"
  /\ ~Token(w) /\ held[w] # NoOp
  /\ pc' = [pc EXCEPT ![w] = "call"]
  /\ UNCHANGED <<held, executed, leaked, queueVars, poolVars, sent, discarded>>

\* Mutant: an operation whose worker is cancelled meanwhile is given up.
FinishCall_Abandon(w) ==
  /\ pc[w] = "call"
  /\ executed' = IF Token(w) THEN executed ELSE Append(executed, held[w])
  /\ held' = [held EXCEPT ![w] = NoOp]
  /\ pc' = [pc EXCEPT ![w] = "pop"]
  /\ UNCHANGED <<leaked, queueVars, poolVars, sent, discarded>>

\* call() returns, the operation is deleted and the loop starts over.
FinishCall(w) ==
  /\ pc[w] = "call"
  /\ executed' = Append(executed, held[w])
  /\ held' = [held EXCEPT ![w] = NoOp]
  /\ pc' = [pc EXCEPT ![w] = "pop"]
  /\ UNCHANGED <<leaked, queueVars, poolVars, sent, discarded>>

WorkerStep(w) ==
  \/ WaitForWork(w) \/ TakeWork(w) \/ TakeNothing(w)
  \/ ExitThread(w) \/ StartCall(w) \/ FinishCall(w)

-----------------------------------------------------------------------------
(* The callers: DatabaseWorkerPool::Enqueue *)

\* Callers use the pool once it is open and, as Close's comment demands, have
\* all finished by the time it is closed.
Enqueue(o) ==
  /\ pool = "open"
  /\ o \notin Range(sent)
  /\ Push(o)
  /\ sent' = Append(sent, o)
  /\ UNCHANGED <<workerVars, poolVars, discarded>>

-----------------------------------------------------------------------------
(* The main thread: OpenConnections, Close, ~DatabaseWorkerPool *)

BeginOpen ==
  /\ pool = "new"
  /\ pool' = "opening"
  /\ UNCHANGED <<queueVars, workerVars, retried, stage, sent, discarded>>

\* make_unique<T>(_queue, ...): the thread runs before the connection is opened.
Construct(w) ==
  /\ pool = "opening"
  /\ stage[w] = "none"
  /\ \A v \in Worker : stage[v] # "connecting"
  /\ stage' = [stage EXCEPT ![w] = "connecting"]
  /\ pc' = [pc EXCEPT ![w] = "pop"]
  /\ UNCHANGED <<queueVars, held, executed, leaked, pool, retried, sent, discarded>>

Connected(w) ==
  /\ pool = "opening"
  /\ stage[w] = "connecting"
  /\ stage' = [stage EXCEPT ![w] = "open"]
  /\ pool' = IF \A v \in Worker : stage'[v] = "open" THEN "open" ELSE pool
  /\ UNCHANGED <<queueVars, workerVars, retried, sent, discarded>>

\* connection->Open() fails: _connections[type].clear() and the local
\* unique_ptr destroy every connection made so far.
ConnectFailed(w) ==
  /\ pool = "opening"
  /\ stage[w] = "connecting"
  /\ pool' = "open_failed"
  /\ UNCHANGED <<queueVars, workerVars, retried, stage, sent, discarded>>

BeginClose ==
  /\ pool = "open"
  /\ pool' = "closing"
  /\ UNCHANGED <<queueVars, workerVars, retried, stage, sent, discarded>>

\* ~MySQLConnection, one connection after the other: ~DatabaseWorker sets the
\* token, cancels the queue and joins; then the statements and the handle go.
Destroying(w) == stage[w] \in {"stopping", "cancelled", "joined"}

Destroy(w, from, to) ==
  /\ pool \in {"open_failed", "closing"}
  /\ stage[w] \in from
  /\ \A v \in Worker \ {w} : ~Destroying(v)
  /\ stage' = [stage EXCEPT ![w] = to]
  /\ UNCHANGED <<pool, retried>>

SetToken(w) ==
  /\ Destroy(w, {"connecting", "open"}, "stopping")
  /\ UNCHANGED <<queueVars, workerVars, sent, discarded>>

CancelQueue(w) ==
  /\ Destroy(w, {"stopping"}, "cancelled")
  /\ Cancel
  /\ discarded' = discarded \union Range(queue)
  /\ UNCHANGED <<workerVars, sent>>

\* Mutant: the thread is detached, nobody waits for it.
Join_Detach(w) ==
  /\ Destroy(w, {"cancelled"}, "joined")
  /\ UNCHANGED <<queueVars, workerVars, sent, discarded>>

Join(w) ==
  /\ Destroy(w, {"cancelled"}, "joined")
  /\ pc[w] = "exited"
  /\ UNCHANGED <<queueVars, workerVars, sent, discarded>>

CloseHandle(w) ==
  /\ Destroy(w, {"joined"}, "closed")
  /\ UNCHANGED <<queueVars, workerVars, sent, discarded>>

AllGone == \A w \in Worker : stage[w] \in {"none", "closed"}

\* DatabaseLoader: ER_BAD_DB_ERROR with auto setup creates the database and
\* opens the same pool, whose queue is the one it was born with, once more.
OpenAgain ==
  /\ pool = "open_failed" /\ AllGone
  /\ AutoSetup /\ ~retried
  /\ pool' = "opening" /\ retried' = TRUE
  /\ stage' = [w \in Worker |-> "none"]
  /\ pc' = [w \in Worker |-> "none"]
  /\ UNCHANGED <<queueVars, held, executed, leaked, sent, discarded>>

GiveUp ==
  /\ pool = "open_failed" /\ AllGone
  /\ pool' = "failed"
  /\ UNCHANGED <<queueVars, workerVars, retried, stage, sent, discarded>>

EndClose ==
  /\ pool = "closing" /\ AllGone
  /\ pool' = "closed"
  /\ UNCHANGED <<queueVars, workerVars, retried, stage, sent, discarded>>

\* ~DatabaseWorkerPool
DestroyPool ==
  /\ pool \in {"closed", "failed"}
  /\ pool' = "destroyed"
  /\ Cancel
  /\ discarded' = discarded \union Range(queue)
  /\ UNCHANGED <<workerVars, retried, stage, sent>>

Destruction(w) == SetToken(w) \/ CancelQueue(w) \/ Join(w) \/ CloseHandle(w)

\* The process goes on without the pool.
Terminated == pool = "destroyed" /\ UNCHANGED vars

Next ==
  \/ \E w \in Worker : WorkerStep(w) \/ Wakeup(w)
  \/ \E o \in Op : Enqueue(o)
  \/ \E w \in Worker : Construct(w) \/ Connected(w) \/ ConnectFailed(w) \/ Destruction(w)
  \/ BeginOpen \/ BeginClose \/ EndClose \/ OpenAgain \/ GiveUp \/ DestroyPool
  \/ Terminated

\* Threads run: a worker that can take a step does, and so does the thread
\* that is in the middle of destroying connections.  Nothing makes a caller
\* enqueue, a connection attempt succeed or the server shut down.
Fairness ==
  /\ \A w \in Worker : WF_vars(WorkerStep(w))
  /\ \A w \in Worker : WF_vars(Destruction(w))
  /\ WF_vars(EndClose)

Spec == Init /\ [][Next]_vars /\ Fairness

-----------------------------------------------------------------------------
(* Properties *)

\* The variables hold what the code's types allow.
TypeOK ==
  /\ queue \in Seq(Op) /\ shutdown \in BOOLEAN /\ waiting \subseteq Worker
  /\ pool \in Pool /\ retried \in BOOLEAN
  /\ stage \in [Worker -> Stage]
  /\ pc \in [Worker -> {"none", "pop", "check", "call", "exited"}]
  /\ held \in [Worker -> Op \union {NoOp}]
  /\ sent \in Seq(Op) /\ executed \in Seq(Op)
  /\ discarded \subseteq Op /\ leaked \subseteq Op

\* No wakeup is lost: work is never queued behind workers that all sleep, and
\* after Cancel no worker sleeps, so the join in ~DatabaseWorker can return.
NoLostWakeup ==
  /\ queue # <<>> => \E w \in Worker : w \notin waiting
  /\ shutdown => waiting = {}

\* A worker woken for an operation that another worker took, or woken for
\* nothing, goes back to sleep: threads leave WorkerThread only when they are
\* destroyed or after Cancel.
NoEarlyExit == \A w \in Worker : pc[w] = "exited" => shutdown \/ Token(w)

\* How the pool, its connections and its threads go together: the inductive
\* invariant behind ConnectionOutlivesCall and the type of `executed'.
Lifecycle ==
  /\ \A w \in Worker :
       /\ pc[w] = "none" <=> stage[w] = "none"
       /\ stage[w] \in {"joined", "closed"} => pc[w] = "exited"
       /\ held[w] # NoOp => pc[w] \in {"check", "call"}
       /\ pc[w] = "call" => held[w] # NoOp
       /\ pc[w] = "check" /\ held[w] = NoOp => shutdown
  /\ pool \in {"new", "opening", "open_failed", "failed"} =>
       queue = <<>> /\ \A w \in Worker : held[w] = NoOp
  /\ pool = "open" => \A w \in Worker : stage[w] = "open"
  /\ pool = "closing" => \A w \in Worker : stage[w] \notin {"none", "connecting"}
  /\ pool \in {"closed", "failed", "destroyed"} => AllGone

\* Operations overtake one another only by being in different workers' hands, never
\* in the queue: with one worker they are executed in the order they were enqueued,
\* which the saves and the later loads of a character rely on.
OvertakingBounded ==
  \A j \in DOMAIN sent : sent[j] \in Range(executed) =>
    \A i \in 1..j : sent[i] \in Range(executed) \union Range(held) \union leaked

\* "Stop the worker thread before the statements are cleared": an operation runs
\* on a connection that is open, although the thread is older than the session
\* and the connection is being destroyed while the operation still runs.
ConnectionOutlivesCall ==
  \A w \in Worker : pc[w] = "call" => stage[w] \in {"open", "stopping", "cancelled"}

\* ~DatabaseWorker does not wait forever for its thread: Close ends.
CloseEnds == pool = "closing" ~> pool = "closed"

\* What a caller enqueues is executed while the pool stays open
\* (DatabaseWorkerPool.h: operations "that will be executed asynchronously").
AcceptedIsExecuted ==
  \A o \in Op : o \in Range(sent) ~> (o \in Range(executed) \/ pool # "open")

\* The same of a pool whose first Open succeeded: whatever workers sleep, wake up
\* for nothing or lose the race for an element, nothing stays in the queue.
ExecutedIfOpenedOnce ==
  \A o \in Op : o \in Range(sent) ~> (o \in Range(executed) \/ pool # "open" \/ retried)

-----------------------------------------------------------------------------
(* The pool implements AsyncExecution *)

\* In how many places operation o is found: queued, in a worker's hand, executed,
\* discarded or leaked.
Found(o) ==
  Cardinality({i \in DOMAIN queue : queue[i] = o}) + Cardinality({w \in Worker : held[w] = o})
    + Cardinality({i \in DOMAIN executed : executed[i] = o})
    + Cardinality({S \in {<<1, discarded>>, <<2, leaked>>} : o \in S[2]})

StatusOf(o) ==
  CASE Found(o) > 1 -> "doubled"
    [] o \in Range(executed) -> "done"
    [] o \in discarded \union leaked -> "dropped"
    [] \E w \in Worker : held[w] = o /\ pc[w] = "call" -> "running"
    [] o \in Range(queue) \/ \E w \in Worker : held[w] = o /\ pc[w] = "check" -> "pending"
    [] OTHER -> "unsent"

Abstract == INSTANCE AsyncExecution
              WITH status <- [o \in Op |-> StatusOf(o)],
                   closing <- pool \in {"closing", "closed", "destroyed"}

\* Each operation has one owner at a time (the queue, or the worker that will
\* delete it), starts at most once, runs to its end, and is dropped only while the
\* pool is being closed, also by a pool that was opened twice.
AbstractSpec == Abstract!Spec
=============================================================================
