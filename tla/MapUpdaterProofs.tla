-------------------------- MODULE MapUpdaterProofs --------------------------
(***************************************************************************)
(* Theorems about MapUpdater, for any number of threads, maps and          *)
(* instances: the counter that MapUpdater::wait trusts is exact, and the   *)
(* threads implement MapTicks.                                             *)
(***************************************************************************)
EXTENDS MapUpdater, DataLemmas, FiniteSetTheorems, TLAPS

\* The inductive invariant.  None of its parts is inductive alone: pending is a
\* natural number because it counts requests, it counts them because no map has
\* two, and that holds because instances are only reached from their base map.
IInv ==
  /\ TypeOK /\ Threads /\ CountIsExact /\ SleepsForAReason
  /\ RequestsAreSound /\ RequestsStayInTick

-----------------------------------------------------------------------------
(* The workers with a request as a finite set *)

\* Setting one worker's request adds it to the busy ones.
LEMMA BusyAdd ==
  ASSUME req \in [Worker -> Map \union {NoMap}], NEW w \in Worker, NEW m \in Map,
         req[w] = NoMap, req' = [req EXCEPT ![w] = m]
  PROVE  /\ Busy' = Busy \union {w} /\ Cardinality(Busy') = Cardinality(Busy) + 1
         /\ Cardinality(Busy) \in Nat
         /\ InHand' = InHand \union {m}
<1>1. Busy' = Busy \union {w} /\ w \notin Busy
  BY MapAssumption DEF Busy, Map
<1>2. IsFiniteSet(Busy) /\ Cardinality(Busy) \in Nat
  BY FS_Subset, FS_CardinalityType, WorkerAssumption DEF Busy
<1>3. InHand' = InHand \union {m}
  BY <1>1 DEF InHand, Busy
<1> QED
  BY <1>1, <1>2, <1>3, FS_AddElement

\* Resetting it removes it.
LEMMA BusyRemove ==
  ASSUME req \in [Worker -> Map \union {NoMap}], NEW w \in Worker,
         req[w] # NoMap, req' = [req EXCEPT ![w] = NoMap],
         \A u, v \in Busy : req[u] = req[v] => u = v
  PROVE  /\ Busy' = Busy \ {w} /\ Cardinality(Busy') = Cardinality(Busy) - 1
         /\ Cardinality(Busy) \in Nat \ {0}
         /\ InHand' = InHand \ {req[w]}
<1>1. Busy' = Busy \ {w} /\ w \in Busy
  BY DEF Busy
<1>2. IsFiniteSet(Busy) /\ Cardinality(Busy) \in Nat /\ Cardinality(Busy) # 0
  BY <1>1, FS_Subset, FS_CardinalityType, FS_EmptySet, WorkerAssumption DEF Busy
<1>3. InHand' = InHand \ {req[w]}
  BY <1>1 DEF InHand, Busy
<1> QED
  BY <1>1, <1>2, <1>3, FS_RemoveElement

\* The counter is 0 only when nobody has a request.
LEMMA NothingPending ==
  ASSUME TypeOK, CountIsExact, pending = 0
  PROVE  queue = <<>> /\ Busy = {} /\ InFlight = {}
<1>1. IsFiniteSet(Busy) /\ Cardinality(Busy) \in Nat
  BY FS_Subset, FS_CardinalityType, WorkerAssumption DEF Busy
<1>2. Len(queue) \in Nat /\ (queue # <<>> => Len(queue) # 0)
  BY EmptySeq DEF TypeOK
<1>3. queue = <<>> /\ Cardinality(Busy) = 0
  BY <1>1, <1>2 DEF CountIsExact
<1> QED
  BY <1>1, <1>3, FS_EmptySet DEF InFlight, InHand, Range

-----------------------------------------------------------------------------
(* The invariant is inductive *)

\* The initial state satisfies it.
LEMMA InitInv == Init => IInv
<1> SUFFICES ASSUME Init PROVE IInv
  OBVIOUS
<1> USE DEF Init, QueueInit
<1>1. Busy = {} /\ InHand = {} /\ Range(queue) = {} /\ InFlight = {}
  BY DEF Busy, InHand, Range, InFlight
<1>2. TypeOK
  <2>1. queue \in Seq(Map)
    OBVIOUS
  <2> QED
    BY <2>1 DEF TypeOK, World
<1>3. Threads
  BY DEF Threads
<1>4. CountIsExact /\ SleepsForAReason
  BY <1>1, FS_EmptySet DEF CountIsExact, SleepsForAReason
<1>5. RequestsAreSound
  BY <1>1 DEF RequestsAreSound, IsInjective
<1>6. RequestsStayInTick
  BY DEF RequestsStayInTick
<1> QED
  BY <1>2, <1>3, <1>4, <1>5, <1>6 DEF IInv

\* A worker that takes a request moves it from the queue to its hand.
LEMMA TakeInv ==
  ASSUME IInv, NEW w \in Worker, TakeRequest(w) PROVE IInv'
<1> USE DEF IInv
<1>1. CASE \E m \in Map : Receive(w, m) /\ req' = [req EXCEPT ![w] = m]
  <2> PICK m \in Map : Receive(w, m) /\ req' = [req EXCEPT ![w] = m]
    BY <1>1
  <2> USE DEF TakeRequest, Receive, worldVars
  <2>1. /\ queue' \in Seq(Map) /\ Len(queue') = Len(queue) - 1 /\ m = Head(queue)
        /\ Range(queue) = Range(queue') \union {m}
        /\ IsInjective(queue') /\ m \notin Range(queue')
        /\ Len(queue) \in Nat
    BY RangeTail DEF TypeOK, RequestsAreSound
  <2>2. req[w] = NoMap
    BY DEF Threads
  <2>3. /\ Busy' = Busy \union {w} /\ Cardinality(Busy') = Cardinality(Busy) + 1
        /\ InHand' = InHand \union {m} /\ Cardinality(Busy) \in Nat
    BY <2>2, BusyAdd DEF TypeOK
  <2>4. InFlight' = InFlight
    BY <2>1, <2>3 DEF InFlight
  <2>5. TypeOK'
    BY <2>1 DEF TypeOK, InstancesOf
  <2>6. Threads'
    BY MapAssumption DEF Threads, TypeOK, Map
  <2>7. CountIsExact' /\ SleepsForAReason'
    BY <2>1, <2>3 DEF CountIsExact, SleepsForAReason
  <2>8. RequestsAreSound'
    <3>1. \A u, v \in Busy' : req'[u] = req'[v] => u = v
      <4>1. \A u \in Busy : req[u] # m
        BY <2>1 DEF RequestsAreSound, InHand
      <4> QED
        BY <2>3, <4>1 DEF RequestsAreSound, TypeOK, Busy
    <3>2. Range(queue') \intersect InHand' = {}
      BY <2>1, <2>3 DEF RequestsAreSound
    <3>3. \A v \in Worker : /\ visit[v] \subseteq InstancesOf(req'[v]) \ (InFlight \union updated)
                            /\ visit[v] # {} => pc'[v] = "update"
      BY <2>2 DEF RequestsAreSound, TypeOK, InstancesOf
    <3> QED
      BY <2>1, <2>4, <3>1, <3>2, <3>3 DEF RequestsAreSound, InstancesOf
  <2>9. RequestsStayInTick'
    <3>1. {req'[v] : v \in {u \in Busy' : pc'[u] = "check"}}
            \subseteq {m} \union {req[v] : v \in {u \in Busy : pc[u] = "check"}}
      BY <2>3 DEF TypeOK, Busy
    <3>2. \A v \in Worker : pc'[v] = "update" => pc[v] = "update" /\ req'[v] = req[v]
      BY DEF TypeOK
    <3>3. Requested' = Requested /\ pending' = pending
      BY <2>4 DEF Requested
    <3>4. Range(queue') \union {req'[v] : v \in {u \in Busy' : pc'[u] = "check"}}
            \subseteq Range(queue) \union {req[v] : v \in {u \in Busy : pc[u] = "check"}}
      BY <2>1, <3>1
    <3> QED
      BY <3>2, <3>3, <3>4 DEF RequestsStayInTick
  <2> QED
    BY <2>5, <2>6, <2>7, <2>8, <2>9
<1>2. CASE ReceiveNothing(w) /\ req' = [req EXCEPT ![w] = NoMap]
  <2>1. req' = req /\ req[w] = NoMap /\ UNCHANGED queueVars
    BY <1>2 DEF Threads, TypeOK, TakeRequest, ReceiveNothing
  <2> USE <1>2, <2>1 DEF TakeRequest, ReceiveNothing, queueVars, worldVars
  <2>2. /\ Busy' = Busy /\ InHand' = InHand /\ InFlight' = InFlight /\ Requested' = Requested
        /\ {v \in Busy' : pc'[v] = "check"} = {v \in Busy : pc[v] = "check"}
    BY DEF Busy, InHand, InFlight, Requested, TypeOK
  <2>3. TypeOK' /\ Threads'
    BY DEF TypeOK, Threads
  <2>4. CountIsExact' /\ SleepsForAReason' /\ RequestsAreSound'
    BY <2>2 DEF CountIsExact, SleepsForAReason, RequestsAreSound, InstancesOf, TypeOK
  <2>5. RequestsStayInTick'
    BY <2>2 DEF RequestsStayInTick
  <2> QED
    BY <2>3, <2>4, <2>5
<1> QED
  BY <1>1, <1>2 DEF TakeRequest

\* schedule_update adds one request and counts it.
LEMMA Scheduled ==
  ASSUME IInv, NEW m \in Map \ Requested, ScheduleUpdate(m), UNCHANGED req
  PROVE  /\ queue' \in Seq(Map) /\ IsInjective(queue')
         /\ Range(queue') = Range(queue) \union {m}
         /\ Busy' = Busy /\ InHand' = InHand
         /\ InFlight' = InFlight \union {m} /\ Range(queue') \intersect InHand' = {}
         /\ pending' \in Nat /\ CountIsExact'
         /\ waiting' \subseteq waiting /\ UNCHANGED shutdown
<1> USE DEF IInv, ScheduleUpdate, Push
<1>1. /\ queue' \in Seq(Map) /\ Len(queue') = Len(queue) + 1 /\ IsInjective(queue')
      /\ Range(queue') = Range(queue) \union {m}
  BY RangeAppend DEF TypeOK, RequestsAreSound, Requested, InFlight
<1>2. Busy' = Busy /\ InHand' = InHand
  BY DEF Busy, InHand
<1>3. Cardinality(Busy) \in Nat /\ Len(queue) \in Nat
  BY FS_Subset, FS_CardinalityType, WorkerAssumption DEF Busy, TypeOK
<1>4. InFlight' = InFlight \union {m} /\ Range(queue') \intersect InHand' = {}
  BY <1>1, <1>2 DEF InFlight, RequestsAreSound, Requested
<1>5. pending' \in Nat /\ CountIsExact'
  <2>1. pending' = pending + 1 /\ pending = Len(queue) + Cardinality(Busy) /\ pending \in Nat
    BY DEF CountIsExact, TypeOK
  <2>2. Cardinality(Busy') = Cardinality(Busy)
    BY <1>2
  <2> QED
    BY ONLY <1>1, <1>3, <2>1, <2>2 DEF CountIsExact
<1> QED
  BY <1>1, <1>2, <1>4, <1>5 DEF NotifyOne

\* The world thread's requests are new.
LEMMA ScheduleMapInv == ASSUME IInv, NEW m \in BaseMap, ScheduleMap(m) PROVE IInv'
<1> USE DEF IInv, ScheduleMap, workerVars
<1>1. m \in Map \ Requested
  BY DEF Map, Requested, RequestsAreSound, RequestsStayInTick
<1>2. /\ queue' \in Seq(Map) /\ IsInjective(queue')
      /\ Range(queue') = Range(queue) \union {m}
      /\ Busy' = Busy /\ InHand' = InHand
      /\ InFlight' = InFlight \union {m} /\ Range(queue') \intersect InHand' = {}
      /\ pending' \in Nat /\ CountIsExact'
      /\ waiting' \subseteq waiting /\ UNCHANGED shutdown
  BY <1>1, Scheduled
<1>3. TypeOK' /\ Threads' /\ SleepsForAReason'
  BY <1>2 DEF TypeOK, Threads, SleepsForAReason, ScheduleUpdate
<1>4. RequestsAreSound'
  <2>1. \A v \in Worker : m \notin visit[v]
    BY MapAssumption DEF TypeOK
  <2> QED
    BY <1>2, <2>1 DEF RequestsAreSound, InstancesOf, TypeOK, Busy
<1>5. RequestsStayInTick'
  BY <1>1, <1>2, MapAssumption DEF RequestsStayInTick, Requested, TypeOK
<1> QED
  BY <1>2, <1>3, <1>4, <1>5

\* So are the nested ones of a worker.
LEMMA ScheduleInstanceInv ==
  ASSUME IInv, NEW w \in Worker, NEW i \in Instance, ScheduleInstance(w, i) PROVE IInv'
<1> USE DEF IInv, ScheduleInstance, worldVars
<1>1. /\ i \in Map \ Requested /\ i \in alive /\ Parent[i] = req[w]
      /\ w \in Busy /\ pending > 0
  <2>1. w \in Busy
    BY DEF Busy, Threads
  <2>2. pending # 0
    BY <2>1, NothingPending
  <2> QED
    BY <2>1, <2>2 DEF Map, Requested, RequestsAreSound, InstancesOf, TypeOK
<1>2. /\ queue' \in Seq(Map) /\ IsInjective(queue')
      /\ Range(queue') = Range(queue) \union {i}
      /\ Busy' = Busy /\ InHand' = InHand
      /\ InFlight' = InFlight \union {i} /\ Range(queue') \intersect InHand' = {}
      /\ pending' \in Nat /\ CountIsExact'
      /\ waiting' \subseteq waiting /\ UNCHANGED shutdown
  BY <1>1, Scheduled
<1>3. TypeOK' /\ Threads' /\ SleepsForAReason'
  BY <1>2 DEF TypeOK, Threads, SleepsForAReason, ScheduleUpdate
<1>4. RequestsAreSound'
  <2>1. \A v \in Worker \ {w} : i \notin visit[v]
    <3>1. \A v \in Worker : visit[v] # {} => v \in Busy
      BY DEF RequestsAreSound, Busy, Threads
    <3> QED
      BY <1>1, <3>1 DEF RequestsAreSound, InstancesOf
  <2>2. \A v \in Worker : visit'[v] \subseteq visit[v] \ {i}
    BY <2>1 DEF TypeOK
  <2>3. i \notin todo
    BY MapAssumption DEF TypeOK
  <2> QED
    BY <1>1, <1>2, <2>2, <2>3 DEF RequestsAreSound, InstancesOf
<1>5. RequestsStayInTick'
  <2>1. world \in {"schedule", "wait"}
    BY <1>1 DEF RequestsStayInTick
  <2>2. Parent[i] \in updated
    BY <1>1, <2>1 DEF RequestsStayInTick
  <2> QED
    BY <1>1, <1>2, <2>1, <2>2 DEF RequestsStayInTick, Requested
<1> QED
  BY <1>2, <1>3, <1>4, <1>5

\* When an update begins, no instance of that map is in flight: they are reached
\* only from here.
LEMMA BeginUpdateInv == ASSUME IInv, NEW w \in Worker, BeginUpdate(w) PROVE IInv'
<1> USE DEF IInv, BeginUpdate, worldVars, queueVars
<1>1. /\ w \in Busy /\ req[w] \in Map \ updated /\ req[w] \in InFlight
      /\ world \in {"schedule", "wait"}
  <2>1. w \in Busy /\ req[w] \in InFlight
    BY DEF Busy, Threads, InFlight, InHand
  <2>2. world \in {"schedule", "wait"}
    BY <2>1, NothingPending DEF RequestsStayInTick
  <2> QED
    BY <2>1, <2>2 DEF RequestsStayInTick
<1>2. Busy' = Busy /\ InHand' = InHand /\ InFlight' = InFlight /\ Requested' = Requested
  BY <1>1 DEF Busy, InHand, InFlight, Requested
<1>3. TypeOK'
  BY <1>1 DEF TypeOK, InstancesOf
<1>4. Threads'
  BY <1>1 DEF Threads, TypeOK, Busy
<1>5. CountIsExact' /\ SleepsForAReason'
  BY <1>2 DEF CountIsExact, SleepsForAReason
<1>6. RequestsAreSound'
  <2>1. InstancesOf(req[w]) \intersect (InFlight \union updated \union {req[w]}) = {}
    <3>1. ASSUME NEW i \in InstancesOf(req[w]) PROVE i \notin Requested /\ i # req[w]
      BY <1>1, MapAssumption DEF InstancesOf, RequestsStayInTick, TypeOK
    <3> QED
      BY <3>1 DEF Requested
  <2>2. \A v \in Worker : req[w] \notin visit[v]
    BY <1>1 DEF RequestsAreSound
  <2>3. \A v \in Worker : /\ visit'[v] \subseteq InstancesOf(req[v]) \ (InFlight \union updated')
                          /\ visit'[v] # {} => pc'[v] = "update"
    BY <2>1, <2>2 DEF RequestsAreSound, TypeOK
  <2> QED
    BY <1>2, <2>3 DEF RequestsAreSound, InstancesOf
<1>7. RequestsStayInTick'
  <2>1. req[w] \notin Range(queue)
    BY <1>1 DEF RequestsAreSound, InHand
  <2>2. req[w] \notin {req'[v] : v \in {u \in Busy' : pc'[u] = "check"}}
    BY <1>1, <1>2 DEF RequestsAreSound, TypeOK, Busy
  <2>3. {req'[v] : v \in {u \in Busy' : pc'[u] = "check"}}
          \subseteq {req[v] : v \in {u \in Busy : pc[u] = "check"}}
    BY <1>1, <1>2 DEF TypeOK, Busy
  <2>4. req[w] \notin todo
    BY <1>1 DEF RequestsAreSound
  <2>5. \A v \in Worker : pc'[v] = "update" => req'[v] \in updated'
    BY <1>1 DEF RequestsStayInTick, TypeOK
  <2> QED
    BY <1>1, <1>2, <2>1, <2>2, <2>3, <2>4, <2>5 DEF RequestsStayInTick
<1> QED
  BY <1>3, <1>4, <1>5, <1>6, <1>7

\* A destroyed instance has no request, and only its base map looks at it.
LEMMA UnloadInstanceInv ==
  ASSUME IInv, NEW w \in Worker, NEW i \in Instance, UnloadInstance(w, i) PROVE IInv'
<1> USE DEF IInv, UnloadInstance, worldVars, queueVars
<1>1. w \in Busy /\ i \notin InFlight /\ i \notin bases /\ Parent[i] = req[w]
  BY MapAssumption DEF Busy, Threads, RequestsAreSound, InstancesOf, TypeOK
<1>2. Busy' = Busy /\ InHand' = InHand /\ InFlight' = InFlight /\ Requested' = Requested
  BY DEF Busy, InHand, InFlight, Requested
<1>3. TypeOK' /\ Threads'
  BY DEF TypeOK, Threads
<1>4. CountIsExact' /\ SleepsForAReason'
  BY <1>2 DEF CountIsExact, SleepsForAReason
<1>5. RequestsAreSound'
  <2>1. \A v \in Worker : visit[v] # {} => v \in Busy
    BY DEF RequestsAreSound, Busy, Threads
  <2>2. \A v \in Worker \ {w} : i \notin visit[v]
    BY <1>1, <2>1 DEF RequestsAreSound, InstancesOf
  <2>3. \A v \in Worker : visit'[v] \subseteq visit[v] \ {i}
    BY <2>2 DEF TypeOK
  <2>4. \A m : InstancesOf(m) \ {i} \subseteq InstancesOf(m)'
    BY DEF InstancesOf
  <2> QED
    BY <1>1, <1>2, <2>3, <2>4 DEF RequestsAreSound
<1>6. RequestsStayInTick'
  BY <1>2 DEF RequestsStayInTick
<1> QED
  BY <1>3, <1>4, <1>5, <1>6

\* update_finished: the request goes, and with it its count.
LEMMA EndUpdateInv == ASSUME IInv, NEW w \in Worker, EndUpdate(w) PROVE IInv'
<1> USE DEF IInv, EndUpdate, UpdateFinished, queueVars
<1>1. req[w] # NoMap /\ req[w] \in updated /\ world \in {"schedule", "wait"} /\ w \in Busy
  <2>1. w \in Busy
    BY DEF Busy, Threads
  <2>2. world \in {"schedule", "wait"}
    BY <2>1, NothingPending DEF RequestsStayInTick
  <2> QED
    BY <2>1, <2>2 DEF Busy, RequestsStayInTick
<1>2. /\ Busy' = Busy \ {w} /\ Cardinality(Busy') = Cardinality(Busy) - 1
      /\ Cardinality(Busy) \in Nat \ {0}
      /\ InHand' = InHand \ {req[w]}
  BY <1>1, BusyRemove DEF TypeOK, RequestsAreSound
<1>3. InFlight' \subseteq InFlight /\ Requested' = Requested
  BY <1>1, <1>2 DEF InFlight, Requested
<1>4. pending' \in Nat /\ CountIsExact'
  <2>1. Len(queue) \in Nat
    BY DEF TypeOK
  <2> QED
    BY <1>2, <2>1 DEF CountIsExact
<1>5. TypeOK' /\ Threads' /\ SleepsForAReason'
  BY <1>4 DEF TypeOK, Threads, SleepsForAReason
<1>6. RequestsAreSound'
  <2>1. ASSUME NEW v \in Worker PROVE visit[v] \subseteq InstancesOf(req'[v])
    <3>1. CASE v = w
      BY <3>1
    <3>2. CASE v # w
      <4>1. req'[v] = req[v]
        BY <3>2 DEF TypeOK
      <4> QED
        BY <4>1 DEF RequestsAreSound
    <3> QED
      BY <3>1, <3>2
  <2>2. \A u, v \in Busy' : req'[u] = req'[v] => u = v
    BY <1>2 DEF RequestsAreSound, TypeOK
  <2> QED
    BY <1>2, <1>3, <2>1, <2>2 DEF RequestsAreSound, InstancesOf, TypeOK
<1>7. RequestsStayInTick'
  <2>1. {req'[v] : v \in {u \in Busy' : pc'[u] = "check"}}
          \subseteq {req[v] : v \in {u \in Busy : pc[u] = "check"}}
    BY <1>2 DEF TypeOK
  <2>2. \A v \in Worker : pc'[v] = "update" => req'[v] \in updated'
    BY <1>1 DEF RequestsStayInTick, TypeOK
  <2> QED
    BY <1>1, <1>3, <2>1, <2>2 DEF RequestsStayInTick
<1> QED
  BY <1>4, <1>5, <1>6, <1>7

\* What leaves requests, workers and maps alone leaves most of the invariant.
LEMMA Untouched ==
  ASSUME UNCHANGED <<req, queue>>
  PROVE  Busy' = Busy /\ InHand' = InHand /\ InFlight' = InFlight
  BY DEF Busy, InHand, InFlight

\* The steps of a worker that move no request.
LEMMA IdleInv ==
  ASSUME IInv, NEW w \in Worker, WaitForRequest(w) \/ Wakeup(w) \/ ExitThread(w)
  PROVE  IInv'
<1> USE DEF IInv, workerVars, worldVars, queueVars
<1>1. UNCHANGED <<req, queue, visit, shutdown, worldVars, pending, alive, updated>>
  BY DEF WaitForRequest, BlockOn, Wakeup, SpuriousWakeup, ExitThread
<1>2. Busy' = Busy /\ InHand' = InHand /\ InFlight' = InFlight /\ Requested' = Requested
  BY <1>1, Untouched DEF Requested
<1>3. ASSUME NEW v \in Worker PROVE pc'[v] = pc[v] \/ (pc'[v] = "exited" /\ pc[v] = "check")
  BY DEF WaitForRequest, BlockOn, Wakeup, SpuriousWakeup, ExitThread, TypeOK
<1>4. TypeOK'
  BY DEF TypeOK, WaitForRequest, BlockOn, Wakeup, SpuriousWakeup, ExitThread
<1>5. Threads'
  <2>1. CASE WaitForRequest(w)
    BY <2>1 DEF Threads, WaitForRequest, BlockOn
  <2>2. CASE Wakeup(w)
    BY <2>2 DEF Threads, Wakeup, SpuriousWakeup
  <2>3. CASE ExitThread(w)
    <3>1. req[w] = NoMap
      BY <2>3, NothingPending DEF ExitThread, Threads, RequestsStayInTick, Busy
    <3> QED
      BY <2>3, <3>1 DEF Threads, ExitThread, TypeOK
  <2> QED
    BY <2>1, <2>2, <2>3
<1>6. CountIsExact' /\ SleepsForAReason'
  BY <1>1, <1>2 DEF CountIsExact, SleepsForAReason
<1>7. RequestsAreSound'
  <2>1. \A v \in Worker : visit[v] # {} => pc'[v] = "update"
    BY <1>3 DEF RequestsAreSound
  <2> QED
    BY <1>1, <1>2, <2>1 DEF RequestsAreSound, InstancesOf
<1>8. RequestsStayInTick'
  <2>1. {req'[v] : v \in {u \in Busy' : pc'[u] = "check"}}
          \subseteq {req[v] : v \in {u \in Busy : pc[u] = "check"}}
    BY <1>1, <1>2, <1>3 DEF Busy
  <2>2. \A v \in Worker : pc'[v] = "update" => pc[v] = "update"
    BY <1>3
  <2> QED
    BY <1>1, <1>2, <2>1, <2>2 DEF RequestsStayInTick
<1> QED
  BY <1>4, <1>5, <1>6, <1>7, <1>8

\* The steps of the world thread that add and remove maps, between the ticks.
LEMMA LoadInv ==
  ASSUME IInv,
         \/ \E m \in BaseMap : CreateBaseMap(m)
         \/ \E i \in Instance : CreateInstance(i)
         \/ BeginTick \/ UnloadAll
  PROVE  IInv'
<1> USE DEF IInv, workerVars, queueVars, Go
<1>1. /\ UNCHANGED <<req, queue, visit, pc, pending, token, asleep, shutdown, waiting>>
      /\ world \notin {"schedule", "wait"}
      /\ bases' \subseteq BaseMap /\ alive' \subseteq Instance
      /\ todo' \subseteq bases' /\ updated' \subseteq Map
      /\ \/ world' = world /\ UNCHANGED <<todo, updated>>
         \/ world' = "schedule" /\ todo' = bases /\ bases' = bases /\ updated' = {}
         \/ world' = "token" /\ UNCHANGED <<todo, updated>>
      /\ world \in {"sessions", "delayed"}
  BY MapAssumption
  DEF CreateBaseMap, CreateInstance, BeginTick, UnloadAll, TypeOK, RequestsStayInTick
<1>2. Busy = {} /\ InFlight = {} /\ pending = 0 /\ InHand = {} /\ queue = <<>> /\ Range(queue) = {}
  BY <1>1, NothingPending DEF RequestsStayInTick, InHand, InFlight
<1>3. Busy' = {} /\ InFlight' = {} /\ InHand' = {}
  BY <1>1, <1>2, Untouched
<1>4. \A w \in Worker : pc[w] # "update" /\ visit[w] = {}
  BY <1>2 DEF Busy, Threads, RequestsAreSound
<1>5. TypeOK'
  BY <1>1 DEF TypeOK, World
<1>6. Threads'
  BY <1>1 DEF Threads
<1>7. CountIsExact' /\ SleepsForAReason'
  BY <1>1, <1>2, <1>3 DEF CountIsExact, SleepsForAReason
<1>8. RequestsAreSound'
  BY <1>1, <1>2, <1>3, <1>4 DEF RequestsAreSound
<1>9. RequestsStayInTick'
  BY <1>1, <1>2, <1>3, <1>4 DEF RequestsStayInTick, Requested, TypeOK, Map
<1> QED
  BY <1>5, <1>6, <1>7, <1>8, <1>9

\* Its other steps move it from one place to the next.
LEMMA WorldInv ==
  ASSUME IInv,
         \/ AllScheduled \/ Sleep \/ WakeWorld \/ EndWait \/ EndTick
         \/ Deactivate \/ UNCHANGED vars
  PROVE  IInv'
<1> USE DEF IInv, workerVars, worldVars, queueVars, Go, Drained
<1> USE DEF AllScheduled, Sleep, WakeWorld, EndWait, EndTick, Deactivate,
            SetToken, EndDrain, CancelQueue, Cancel, Join, vars
<1>1. UNCHANGED <<req, visit, pc, pending, todo, bases, alive, updated>>
  OBVIOUS
<1>2. queue' = queue
  BY NothingPending DEF RequestsStayInTick
<1>3. Busy' = Busy /\ InHand' = InHand /\ InFlight' = InFlight /\ Requested' = Requested
  BY <1>1, <1>2, Untouched DEF Requested
<1>4. TypeOK'
  BY <1>2 DEF TypeOK, World
<1>5. Threads'
  <2>1. token' # token => Busy = {}
    BY NothingPending DEF RequestsStayInTick
  <2>2. token' # token => \A w \in Worker : pc[w] # "update"
    BY <2>1 DEF Threads, Busy
  <2> QED
    BY <2>2 DEF Threads, TypeOK, World
<1>6. CountIsExact' /\ SleepsForAReason'
  BY <1>1, <1>2, <1>3 DEF CountIsExact, SleepsForAReason
<1>7. RequestsAreSound'
  BY <1>1, <1>2, <1>3 DEF RequestsAreSound, InstancesOf
<1>8. RequestsStayInTick'
  <2>1. world' \in {"schedule", "wait"} => world \in {"schedule", "wait"}
    OBVIOUS
  <2>2. world' \notin {"schedule", "wait"} => pending = 0
    BY DEF RequestsStayInTick
  <2>3. world' # "schedule" => todo = {}
    BY DEF RequestsStayInTick
  <2> QED
    BY <1>1, <1>2, <1>3, <2>1, <2>2, <2>3 DEF RequestsStayInTick
<1> QED
  BY <1>4, <1>5, <1>6, <1>7, <1>8

\* Every step preserves the invariant.
LEMMA NextInv == ASSUME IInv, [Next]_vars PROVE IInv'
<1>1. ASSUME NEW w \in Worker, WorkerStep(w) PROVE IInv'
  BY <1>1, IdleInv, TakeInv, BeginUpdateInv, EndUpdateInv, ScheduleInstanceInv,
     UnloadInstanceInv
  DEF WorkerStep
<1>2. ASSUME Tick PROVE IInv'
  BY <1>2, ScheduleMapInv, WorldInv DEF Tick
<1> QED
  BY <1>1, <1>2, IdleInv, LoadInv, WorldInv DEF Next, Terminated

\* Every reachable state satisfies the inductive invariant.
THEOREM Invariance == Spec => []IInv
  BY InitInv, NextInv, PTL DEF Spec

-----------------------------------------------------------------------------
(* What follows *)

\* The variables always hold what the code's types allow.
THEOREM TypeCorrect == Spec => []TypeOK
  BY Invariance, PTL DEF IInv

\* pending_requests is exact, however requests nest.
THEOREM CounterIsExact == Spec => []CountIsExact
  BY Invariance, PTL DEF IInv

\* No two workers are in one map, and none is in a deleted one.
THEOREM RequestsSound == Spec => []RequestsAreSound
  BY Invariance, PTL DEF IInv

\* No worker calls a null request, or ends with one in its hands.
THEOREM ThreadsSound == Spec => []Threads
  BY Invariance, PTL DEF IInv

-----------------------------------------------------------------------------
(* The threads implement MapTicks *)

\* The update of a map begins, and it is a loaded map's first in this tick.
LEMMA StartStep ==
  ASSUME IInv, NEW w \in Worker, BeginUpdate(w)
  PROVE  \E m \in Map : Abstract!Start(m)
<1> USE DEF IInv, BeginUpdate, worldVars, queueVars
<1>1. /\ w \in Busy /\ req[w] \in Map \ updated /\ req[w] \in InFlight
      /\ world \in {"schedule", "wait"}
  <2>1. w \in Busy /\ req[w] \in InFlight
    BY DEF Busy, Threads, InFlight, InHand
  <2>2. world \in {"schedule", "wait"}
    BY <2>1, NothingPending DEF RequestsStayInTick
  <2> QED
    BY <2>1, <2>2 DEF RequestsStayInTick
<1>2. {v \in Worker : pc'[v] = "update"} = {v \in Worker : pc[v] = "update"} \union {w}
  BY DEF TypeOK
<1>3. {req'[v] : v \in {u \in Worker : pc'[u] = "update"}}
        = {req[v] : v \in {u \in Worker : pc[u] = "update"}} \union {req[w]}
  BY <1>2
<1> QED
  BY <1>1, <1>3 DEF Abstract!Start, RequestsAreSound

\* update_finished ends what was running.
LEMMA FinishStep ==
  ASSUME IInv, NEW w \in Worker, EndUpdate(w)
  PROVE  \E m \in Map : Abstract!Finish(m)
<1> USE DEF IInv, EndUpdate, queueVars
<1>1. req[w] \in Map /\ w \in Busy
  BY DEF Busy, Threads, TypeOK
<1>2. \A v \in Worker : pc[v] = "update" => v \in Busy
  BY DEF Busy, Threads
<1>3. {v \in Worker : pc'[v] = "update"} = {v \in Worker : pc[v] = "update"} \ {w}
  BY DEF TypeOK
<1>4. \A v \in Worker \ {w} : req'[v] = req[v] /\ (pc[v] = "update" => req[v] # req[w])
  BY <1>1, <1>2 DEF TypeOK, RequestsAreSound
<1>5. {req'[v] : v \in {u \in Worker : pc'[u] = "update"}}
        = {req[v] : v \in {u \in Worker : pc[u] = "update"}} \ {req[w]}
  BY <1>3, <1>4
<1> QED
  BY <1>1, <1>5 DEF Abstract!Finish

\* The other steps of a worker leave what runs alone.
LEMMA OtherWorkerStep ==
  ASSUME IInv, NEW w \in Worker,
         \/ WaitForRequest(w) \/ Wakeup(w) \/ TakeRequest(w) \/ ExitThread(w)
         \/ \E i \in Instance : ScheduleInstance(w, i)
  PROVE  UNCHANGED Abstract!vars
<1> USE DEF IInv, worldVars, workerVars, queueVars
<1>1. UNCHANGED <<world, bases, alive, updated>>
  BY DEF WaitForRequest, Wakeup, TakeRequest, ExitThread, ScheduleInstance
<1>2. \A v \in Worker : /\ pc'[v] = "update" <=> pc[v] = "update"
                        /\ pc[v] = "update" => req'[v] = req[v]
  BY DEF WaitForRequest, Wakeup, TakeRequest, ExitThread, ScheduleInstance, TypeOK
<1>3. {req'[v] : v \in {u \in Worker : pc'[u] = "update"}}
        = {req[v] : v \in {u \in Worker : pc[u] = "update"}}
  BY <1>2
<1> QED
  BY <1>1, <1>3 DEF Abstract!vars

\* An instance is destroyed instead of being updated.
LEMMA UnloadStep ==
  ASSUME IInv, NEW w \in Worker, NEW i \in Instance, UnloadInstance(w, i)
  PROVE  Abstract!Unload(i) \/ UNCHANGED Abstract!vars
<1> USE DEF IInv, UnloadInstance, worldVars, queueVars
<1>1. /\ i \notin BaseMap \union updated /\ i \notin bases
      /\ world \in {"schedule", "wait"}
  <2>1. w \in Busy
    BY DEF Busy, Threads
  <2>2. world \in {"schedule", "wait"}
    BY <2>1, NothingPending DEF RequestsStayInTick
  <2> QED
    BY <2>2, MapAssumption DEF RequestsAreSound, TypeOK
<1> QED
  BY <1>1 DEF Abstract!Unload, Abstract!vars

\* The world thread begins and ends ticks, and loads maps between them.
LEMMA WorldStep ==
  ASSUME IInv,
         \/ \E m \in BaseMap : CreateBaseMap(m) \/ ScheduleMap(m)
         \/ \E i \in Instance : CreateInstance(i)
         \/ BeginTick \/ UnloadAll \/ AllScheduled \/ Sleep \/ WakeWorld
         \/ EndWait \/ EndTick \/ Deactivate \/ UNCHANGED vars
  PROVE  [Abstract!Next]_Abstract!vars
<1> USE DEF IInv, workerVars, worldVars, queueVars, Go, Drained
<1>1. {req'[v] : v \in {u \in Worker : pc'[u] = "update"}}
        = {req[v] : v \in {u \in Worker : pc[u] = "update"}}
  BY DEF CreateBaseMap, ScheduleMap, CreateInstance, BeginTick, UnloadAll, AllScheduled,
         Sleep, WakeWorld, EndWait, EndTick, Deactivate, SetToken, EndDrain, CancelQueue,
         Join, vars
<1>2. CASE \E m \in BaseMap : CreateBaseMap(m)
  <2> PICK m \in BaseMap : CreateBaseMap(m)
    BY <1>2
  <2>1. Abstract!Load({m})
    BY <1>1 DEF CreateBaseMap, Abstract!Load
  <2> QED
    BY <2>1 DEF Abstract!Next, Map
<1>3. CASE \E i \in Instance : CreateInstance(i)
  <2> PICK i \in Instance : CreateInstance(i)
    BY <1>3
  <2>1. Abstract!Load({i, Parent[i]})
    BY <1>1 DEF CreateInstance, Abstract!Load
  <2> QED
    BY <2>1, MapAssumption DEF Abstract!Next, Map
<1>4. CASE BeginTick
  BY <1>1, <1>4 DEF BeginTick, Abstract!Next, Abstract!Begin
<1>5. CASE UnloadAll
  BY <1>1, <1>5 DEF UnloadAll, Abstract!Next, Abstract!Stop
<1>6. CASE EndWait
  <2>1. Busy = {} /\ InFlight = {}
    BY <1>6, NothingPending DEF EndWait
  <2>2. {req[v] : v \in {u \in Worker : pc[u] = "update"}} = {}
    BY <2>1 DEF Busy, Threads
  <2>3. (bases \union alive) \intersect BaseMap \subseteq updated
    BY <1>6, <2>1, MapAssumption DEF EndWait, RequestsStayInTick, Requested, TypeOK
  <2> QED
    BY <1>1, <1>6, <2>2, <2>3 DEF EndWait, Abstract!Next, Abstract!End
<1>7. CASE \/ \E m \in BaseMap : ScheduleMap(m)
           \/ AllScheduled \/ Sleep \/ WakeWorld \/ EndTick \/ Deactivate \/ UNCHANGED vars
  BY <1>1, <1>7
  DEF ScheduleMap, AllScheduled, Sleep, WakeWorld, EndTick, Deactivate, SetToken,
      EndDrain, CancelQueue, Join, vars, Abstract!vars
<1> QED
  BY <1>2, <1>3, <1>4, <1>5, <1>6, <1>7

\* However many threads there are and however requests nest, maps are updated in
\* parallel inside a tick only, each at most once, every base map exactly once.
THEOREM Implements == Spec => AbstractSpec
<1>1. Init => Abstract!Init
  BY DEF Init, Abstract!Init
<1>2. IInv /\ [Next]_vars => [Abstract!Next]_Abstract!vars
  <2> SUFFICES ASSUME IInv, [Next]_vars PROVE [Abstract!Next]_Abstract!vars
    OBVIOUS
  <2>1. ASSUME NEW w \in Worker, WorkerStep(w) \/ Wakeup(w)
        PROVE  [Abstract!Next]_Abstract!vars
    <3>1. CASE BeginUpdate(w)
      BY <3>1, StartStep DEF Abstract!Next
    <3>2. CASE EndUpdate(w)
      BY <3>2, FinishStep DEF Abstract!Next
    <3>3. CASE \E i \in Instance : UnloadInstance(w, i)
      BY <3>3, UnloadStep DEF Abstract!Next, Map
    <3>4. CASE \/ WaitForRequest(w) \/ Wakeup(w) \/ TakeRequest(w) \/ ExitThread(w)
               \/ \E i \in Instance : ScheduleInstance(w, i)
      BY <3>4, OtherWorkerStep
    <3> QED
      BY <2>1, <3>1, <3>2, <3>3, <3>4 DEF WorkerStep
  <2> QED
    BY <2>1, WorldStep DEF Next, Tick, Terminated
<1> QED
  BY <1>1, <1>2, Invariance, PTL DEF Spec, AbstractSpec, Abstract!Spec
=============================================================================
