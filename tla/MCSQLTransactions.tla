------------------------- MODULE MCSQLTransactions -------------------------
(* Instances of SQLTransactions for TLC. *)
EXTENDS SQLTransactions, TLC

CONSTANTS t1, t2

\* Two transactions that can deadlock.
MCSize == (t1 :> 2) @@ (t2 :> 1)
=============================================================================
