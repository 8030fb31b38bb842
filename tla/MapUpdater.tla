----------------------------- MODULE MapUpdater -----------------------------
(***************************************************************************)
(* The world thread's tick over the maps and the threads that share it:    *)
(* MapManager::Update, MapInstanced::Update, MapUpdater, and the shutdown  *)
(* in MapManager::UnloadAll.                                               *)
(*                                                                         *)
(* A request is identified with its map.  The update of an instanceable    *)
(* base map runs in a worker and schedules, or destroys, the instances of  *)
(* that map, so requests create requests while the world thread waits for  *)
(* all of them.                                                            *)
(***************************************************************************)
EXTENDS ProducerConsumerQueue, FiniteSets, Functions

CONSTANTS
  Worker,      \* MapUpdate.Threads threads
  BaseMap,     \* the maps of i_maps
  Instance,    \* the instance maps that may come and go
  Parent,      \* Parent[i]: the MapInstanced that holds instance i
  NoMap        \* the null MapUpdateRequest*

ASSUME WorkerAssumption == IsFiniteSet(Worker) /\ Worker # {}
ASSUME MapAssumption ==
  /\ IsFiniteSet(BaseMap)
  /\ BaseMap \intersect Instance = {} /\ NoMap \notin BaseMap \union Instance
  /\ Parent \in [Instance -> BaseMap]

VARIABLES
  token,     \* _cancelationToken
  pending,   \* pending_requests
  asleep,    \* the world thread is blocked in MapUpdater::wait
  world,     \* where the world thread is
  todo,      \* base maps its scheduling loop has not reached
  bases,     \* i_maps
  alive,     \* the instances in the m_InstancedMaps
  pc,        \* pc[w]: the worker's place in WorkerThread
  req,       \* req[w]: its local `request'
  visit,     \* visit[w]: instances its MapInstanced::Update has not reached
  updated    \* history: maps whose Update began in this tick

workerVars == <<pc, req, visit>>
worldVars == <<token, asleep, world, todo, bases>>
vars == <<queueVars, workerVars, worldVars, pending, alive, updated>>

Map == BaseMap \union Instance
World == {"sessions", "schedule", "wait", "delayed", "token", "drain", "cancel", "join", "done"}

InstancesOf(m) == {i \in alive : Parent[i] = m}

Init ==
  /\ QueueInit
  /\ token = FALSE /\ pending = 0 /\ asleep = FALSE
  /\ world = "sessions" /\ todo = {} /\ bases = {} /\ alive = {}
  /\ pc = [w \in Worker |-> "pop"]
  /\ req = [w \in Worker |-> NoMap]
  /\ visit = [w \in Worker |-> {}]
  /\ updated = {}

-----------------------------------------------------------------------------
(* MapUpdater::schedule_update and update_finished, both under _lock *)

\* Mutant: the request is not counted before it is visible.
ScheduleUpdate_Uncounted(m) == UNCHANGED pending /\ Push(m)

ScheduleUpdate(m) == pending' = pending + 1 /\ Push(m)

\* --pending_requests; _condition.notify_all()
UpdateFinished == pending' = pending - 1 /\ asleep' = FALSE

-----------------------------------------------------------------------------
(* The worker threads *)

WaitForRequest(w) ==
  /\ pc[w] = "pop"
  /\ BlockOn(w)
  /\ UNCHANGED <<workerVars, worldVars, pending, alive, updated>>

Wakeup(w) ==
  /\ SpuriousWakeup(w)
  /\ UNCHANGED <<workerVars, worldVars, pending, alive, updated>>

TakeRequest(w) ==
  /\ pc[w] = "pop"
  /\ \/ \E m \in Map : Receive(w, m) /\ req' = [req EXCEPT ![w] = m]
     \/ ReceiveNothing(w) /\ req' = [req EXCEPT ![w] = NoMap]
  /\ pc' = [pc EXCEPT ![w] = "check"]
  /\ UNCHANGED <<visit, worldVars, pending, alive, updated>>

\* if (_cancelationToken) return;
ExitThread(w) ==
  /\ pc[w] = "check" /\ token
  /\ pc' = [pc EXCEPT ![w] = "exited"]
  /\ UNCHANGED <<req, visit, queueVars, worldVars, pending, alive, updated>>

\* request->call(): Map::Update; a MapInstanced then turns to its instances.
BeginUpdate(w) ==
  /\ pc[w] = "check" /\ ~token
  /\ pc' = [pc EXCEPT ![w] = "update"]
  /\ visit' = [visit EXCEPT ![w] = InstancesOf(req[w])]
  /\ updated' = updated \union {req[w]}
  /\ UNCHANGED <<req, queueVars, worldVars, pending, alive>>

\* Mutant: the iterator stays on the instance.
ScheduleInstance_Stuck(w, i) ==
  /\ pc[w] = "update" /\ i \in visit[w]
  /\ ScheduleUpdate(i)
  /\ UNCHANGED <<workerVars, worldVars, alive, updated>>

\* CanUnload is false: the instance is updated too.
ScheduleInstance(w, i) ==
  /\ pc[w] = "update" /\ i \in visit[w]
  /\ ScheduleUpdate(i)
  /\ visit' = [visit EXCEPT ![w] = @ \ {i}]
  /\ UNCHANGED <<pc, req, worldVars, alive, updated>>

\* CanUnload is true: DestroyInstance deletes the map unless players remain.
UnloadInstance(w, i) ==
  /\ pc[w] = "update" /\ i \in visit[w]
  /\ alive' \in {alive, alive \ {i}}
  /\ visit' = [visit EXCEPT ![w] = @ \ {i}]
  /\ UNCHANGED <<pc, req, queueVars, worldVars, pending, updated>>

EndUpdate(w) ==
  /\ pc[w] = "update" /\ visit[w] = {}
  /\ UpdateFinished
  /\ pc' = [pc EXCEPT ![w] = "pop"]
  /\ req' = [req EXCEPT ![w] = NoMap]
  /\ UNCHANGED <<visit, queueVars, token, world, todo, bases, alive, updated>>

WorkerStep(w) ==
  \/ WaitForRequest(w) \/ TakeRequest(w) \/ ExitThread(w) \/ BeginUpdate(w) \/ EndUpdate(w)
  \/ \E i \in Instance : ScheduleInstance(w, i) \/ UnloadInstance(w, i)

-----------------------------------------------------------------------------
(* The world thread *)

Go(from, to) == world = from /\ world' = to

\* CreateBaseMap: maps come into being when a player, a pool or a transport
\* first needs them, the latter in the DelayedUpdate of another map.
CreateBaseMap(m) ==
  /\ world \in {"sessions", "delayed"} /\ m \notin bases
  /\ bases' = bases \union {m}
  /\ UNCHANGED <<queueVars, workerVars, token, asleep, world, todo, pending, alive, updated>>

\* CreateMap for a player: the sessions are handled between the ticks.
CreateInstance(i) ==
  /\ world = "sessions" /\ i \notin alive
  /\ bases' = bases \union {Parent[i]}
  /\ alive' = alive \union {i}
  /\ UNCHANGED <<queueVars, workerVars, token, asleep, world, todo, pending, updated>>

BeginTick ==
  /\ Go("sessions", "schedule")
  /\ todo' = bases
  /\ updated' = {}
  /\ UNCHANGED <<queueVars, workerVars, token, asleep, bases, pending, alive>>

ScheduleMap(m) ==
  /\ world = "schedule" /\ m \in todo
  /\ ScheduleUpdate(m)
  /\ todo' = todo \ {m}
  /\ UNCHANGED <<workerVars, token, asleep, world, bases, alive, updated>>

AllScheduled ==
  /\ todo = {}
  /\ Go("schedule", "wait")
  /\ UNCHANGED <<queueVars, workerVars, token, asleep, todo, bases, pending, alive, updated>>

\* while (pending_requests > 0) _condition.wait(lock);
Sleep ==
  /\ world \in {"wait", "drain"} /\ ~asleep
  /\ pending > 0
  /\ asleep' = TRUE
  /\ UNCHANGED <<queueVars, workerVars, token, world, todo, bases, pending, alive, updated>>

\* A condition variable may return without a notification.
WakeWorld ==
  /\ asleep /\ asleep' = FALSE
  /\ UNCHANGED <<queueVars, workerVars, token, world, todo, bases, pending, alive, updated>>

\* Mutant: `if' for `while' in MapUpdater::wait.
Drained_If(from, to) == ~asleep /\ Go(from, to)

Drained(from, to) == ~asleep /\ pending = 0 /\ Go(from, to)

EndWait ==
  /\ Drained("wait", "delayed")
  /\ UNCHANGED <<queueVars, workerVars, token, asleep, todo, bases, pending, alive, updated>>

\* DelayedUpdate of every map, without any lock.
EndTick ==
  /\ Go("delayed", "sessions")
  /\ UNCHANGED <<queueVars, workerVars, token, asleep, todo, bases, pending, alive, updated>>

\* UnloadAll: every instance and every map is deleted ...
UnloadAll ==
  /\ Go("sessions", "token")
  /\ alive' = {} /\ bases' = {}
  /\ UNCHANGED <<queueVars, workerVars, token, asleep, todo, pending, updated>>

\* ... then deactivate(): _cancelationToken = true, wait(), Cancel, join.
SetToken ==
  /\ Go("token", "drain")
  /\ token' = TRUE
  /\ UNCHANGED <<queueVars, workerVars, asleep, todo, bases, pending, alive, updated>>

EndDrain ==
  /\ Drained("drain", "cancel")
  /\ UNCHANGED <<queueVars, workerVars, token, asleep, todo, bases, pending, alive, updated>>

CancelQueue ==
  /\ Go("cancel", "join")
  /\ Cancel
  /\ UNCHANGED <<workerVars, token, asleep, todo, bases, pending, alive, updated>>

Join ==
  /\ \A w \in Worker : pc[w] = "exited"
  /\ Go("join", "done")
  /\ UNCHANGED <<queueVars, workerVars, token, asleep, todo, bases, pending, alive, updated>>

Tick == (\E m \in BaseMap : ScheduleMap(m)) \/ AllScheduled \/ Sleep \/ EndWait \/ EndTick
Deactivate == SetToken \/ EndDrain \/ CancelQueue \/ Join

Terminated == world = "done" /\ UNCHANGED vars

Next ==
  \/ \E w \in Worker : WorkerStep(w) \/ Wakeup(w)
  \/ \E m \in BaseMap : CreateBaseMap(m)
  \/ \E i \in Instance : CreateInstance(i)
  \/ WakeWorld
  \/ BeginTick \/ Tick \/ UnloadAll \/ Deactivate
  \/ Terminated

\* Threads run.  Nothing makes a tick begin or the server shut down.
Fairness ==
  /\ \A w \in Worker : WF_vars(WorkerStep(w))
  /\ WF_vars(Tick) /\ WF_vars(Deactivate)

Spec == Init /\ [][Next]_vars /\ Fairness

-----------------------------------------------------------------------------
(* Properties *)

\* The variables hold what the code's types allow.
TypeOK ==
  /\ queue \in Seq(Map) /\ shutdown \in BOOLEAN /\ waiting \subseteq Worker
  /\ token \in BOOLEAN /\ pending \in Nat /\ asleep \in BOOLEAN
  /\ world \in World /\ todo \subseteq bases /\ bases \subseteq BaseMap
  /\ alive \subseteq Instance /\ updated \subseteq Map
  /\ pc \in [Worker -> {"pop", "check", "update", "exited"}]
  /\ req \in [Worker -> Map \union {NoMap}]
  /\ visit \in [Worker -> SUBSET Instance]

Busy == {w \in Worker : req[w] # NoMap}

\* pending_requests counts what is queued and what the workers have: it never
\* wraps, and never is 0 while a worker is still between its pop and its
\* update_finished.
CountIsExact == pending = Len(queue) + Cardinality(Busy)

\* No worker calls a null request or leaves one behind: without a request it got
\* past the pop only because of Cancel, and by then the token is set.
Threads ==
  /\ \A w \in Worker :
       /\ pc[w] = "pop" => req[w] = NoMap
       /\ pc[w] = "update" => req[w] # NoMap /\ ~token
       /\ pc[w] = "check" /\ req[w] = NoMap => shutdown
       /\ pc[w] = "exited" => token /\ req[w] = NoMap
  /\ \A w \in waiting : pc[w] = "pop"
  /\ shutdown => token
  /\ token <=> world \in {"drain", "cancel", "join", "done"}

\* The world thread sleeps only while somebody is left to wake it.
SleepsForAReason == asleep => pending > 0

\* One map has one request at a time, so no two workers are in one map, and a
\* map with a request has not been deleted, although workers delete maps.
InHand == {req[w] : w \in Busy}
InFlight == Range(queue) \union InHand

RequestsAreSound ==
  /\ IsInjective(queue)
  /\ \A v, w \in Busy : req[v] = req[w] => v = w
  /\ Range(queue) \intersect InHand = {}
  /\ InFlight \subseteq bases \union alive
  /\ InFlight \intersect todo = {}
  /\ \A w \in Worker :
       /\ visit[w] \subseteq InstancesOf(req[w]) \ (InFlight \union updated)
       /\ visit[w] # {} => pc[w] = "update"

\* Requests exist only between the first schedule_update of a tick and the end of
\* its wait, the nested ones only after the base map's update has begun, and no
\* base map is passed over.
Requested == InFlight \union updated

RequestsStayInTick ==
  /\ world \in {"schedule", "wait"} =>
       /\ bases \subseteq todo \union Requested
       /\ \A i \in Instance \intersect Requested : Parent[i] \in updated
       /\ Range(queue) \union {req[w] : w \in {v \in Busy : pc[v] = "check"}} \union todo
            \subseteq Map \ updated
       /\ \A w \in Worker : pc[w] = "update" => req[w] \in updated
  /\ world \notin {"schedule", "wait"} => pending = 0
  /\ world # "schedule" => todo = {}

\* A tick ends: the nested requests included, everything is updated.
TickEnds == world = "wait" ~> world = "delayed"

\* Shutdown ends: no worker misses the token or the Cancel.
ShutdownEnds == token ~> world = "done"

-----------------------------------------------------------------------------
(* The threads implement the ticks of MapTicks *)

Abstract == INSTANCE MapTicks
              WITH phase <- CASE world \in {"schedule", "wait"} -> "parallel"
                              [] world \in {"sessions", "delayed"} -> "serial"
                              [] OTHER -> "stopped",
                   loaded <- bases \union alive,
                   running <- {req[w] : w \in {v \in Worker : pc[v] = "update"}}

\* Maps are updated in parallel, each at most once in a tick, a base map exactly
\* once; outside of that phase the world thread has all maps to itself.
AbstractSpec == Abstract!Spec
=============================================================================
