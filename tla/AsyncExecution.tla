--------------------------- MODULE AsyncExecution ---------------------------
(***************************************************************************)
(* What DatabaseWorkerPool promises its callers about the one-way          *)
(* operations they enqueue (Execute, AsyncQuery, CommitTransaction, ...):  *)
(* each of them is started at most once, runs to its end once started, and *)
(* is dropped only while the pool is being closed.                         *)
(***************************************************************************)
CONSTANT Op           \* the operations the callers enqueue, each once

VARIABLES status,     \* where each operation is
          closing     \* Close has begun

vars == <<status, closing>>

Status == {"unsent", "pending", "running", "done", "dropped"}

TypeOK == status \in [Op -> Status] /\ closing \in BOOLEAN

Init == status = [o \in Op |-> "unsent"] /\ closing = FALSE

Move(o, from, to) == status[o] = from /\ status' = [status EXCEPT ![o] = to]

Send(o)   == ~closing /\ Move(o, "unsent", "pending") /\ UNCHANGED closing
Start(o)  == Move(o, "pending", "running") /\ UNCHANGED closing
Finish(o) == Move(o, "running", "done") /\ UNCHANGED closing
Close     == ~closing /\ closing' = TRUE /\ UNCHANGED status

\* Everything in D is discarded at once, as by a cancelled queue.
Drop(D) ==
  /\ closing
  /\ \A o \in D : status[o] = "pending"
  /\ status' = [o \in Op |-> IF o \in D THEN "dropped" ELSE status[o]]
  /\ UNCHANGED closing

Next ==
  \/ \E o \in Op : Send(o) \/ Start(o) \/ Finish(o)
  \/ \E D \in SUBSET Op : Drop(D)
  \/ Close

Spec == Init /\ [][Next]_vars
=============================================================================
