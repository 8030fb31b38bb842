------------------------------ MODULE MapTicks ------------------------------
(***************************************************************************)
(* What MapManager::Update promises the rest of the game: a tick updates   *)
(* maps in parallel, and between two ticks no map is being updated, so the *)
(* world thread may touch, create and delete all of them without a lock.   *)
(***************************************************************************)
CONSTANT Map, BaseMap   \* the maps, and those that are no instances

VARIABLES phase,        \* "serial", "parallel", or "stopped" for good
          loaded,       \* the maps that exist
          running,      \* the maps being updated
          updated       \* the maps whose update began in this tick

vars == <<phase, loaded, running, updated>>

Init == phase = "serial" /\ loaded = {} /\ running = {} /\ updated = {}

Load(M) ==
  /\ phase = "serial"
  /\ loaded' = loaded \union M
  /\ UNCHANGED <<phase, running, updated>>

Begin ==
  /\ phase = "serial" /\ phase' = "parallel"
  /\ updated' = {}
  /\ UNCHANGED <<loaded, running>>

\* A map is updated only while it exists, and once.
Start(m) ==
  /\ phase = "parallel" /\ m \in loaded \ updated
  /\ running' = running \union {m} /\ updated' = updated \union {m}
  /\ UNCHANGED <<phase, loaded>>

Finish(m) ==
  /\ m \in running /\ running' = running \ {m}
  /\ UNCHANGED <<phase, loaded, updated>>

\* An instance goes instead of being updated, never in its update or after it.
Unload(m) ==
  /\ phase = "parallel" /\ m \notin BaseMap \union updated
  /\ loaded' = loaded \ {m}
  /\ UNCHANGED <<phase, running, updated>>

End ==
  /\ phase = "parallel" /\ phase' = "serial"
  /\ running = {} /\ loaded \intersect BaseMap \subseteq updated
  /\ UNCHANGED <<loaded, running, updated>>

Stop ==
  /\ phase = "serial" /\ phase' = "stopped"
  /\ loaded' = {}
  /\ UNCHANGED <<running, updated>>

Next ==
  \/ Begin \/ End \/ Stop
  \/ \E M \in SUBSET Map : Load(M)
  \/ \E m \in Map : Start(m) \/ Finish(m) \/ Unload(m)

Spec == Init /\ [][Next]_vars
=============================================================================
