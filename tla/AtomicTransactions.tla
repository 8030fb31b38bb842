------------------------- MODULE AtomicTransactions -------------------------
(***************************************************************************)
(* What BeginTransaction and CommitTransaction promise: a transaction is   *)
(* "an automanaged transaction pointer that will automatically rollback if *)
(* not commited" (DatabaseWorkerPool.h): it takes effect as a whole, once, *)
(* or is rejected without any effect.  One that is interrupted before that *)
(* may be left in part.                                                    *)
(***************************************************************************)
CONSTANT Txn

VARIABLE status

Init == status = [t \in Txn |-> "open"]

Settle(t, s) == status[t] = "open" /\ status' = [status EXCEPT ![t] = s]

Next == \E t \in Txn : Settle(t, "committed") \/ Settle(t, "rejected") \/ Settle(t, "interrupted")

Spec == Init /\ [][Next]_status
=============================================================================
