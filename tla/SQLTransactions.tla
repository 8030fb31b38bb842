-------------------------- MODULE SQLTransactions --------------------------
(***************************************************************************)
(* How a transaction is executed: MySQLConnection::ExecuteTransaction, the *)
(* retries of TransactionTask::Execute (asynchronous connections) and of   *)
(* DatabaseWorkerPool::DirectCommitTransaction (synchronous ones), and the *)
(* error handling below them, MySQLConnection::_HandleMySQLErrno.          *)
(*                                                                         *)
(* The MySQL server is external.  It keeps one session per connection,     *)
(* undoes an uncommitted transaction when the session ends or is the       *)
(* victim of a deadlock, and commits every statement at once outside a     *)
(* transaction, which is what mysql_autocommit(m_Mysql, 1) asks for.       *)
(***************************************************************************)
EXTENDS Naturals, FiniteSets

CONSTANTS
  Conn,          \* the connections of a pool
  Direct,        \* those that run DirectCommitTransaction
  Txn,           \* the transactions, each handed over once
  Size,          \* Size[t]: how many statements t has
  NoTxn,         \* a connection without work
  MaxRetries,    \* loopBreaker
  MaxAttempts,   \* the attempts of _HandleMySQLErrno
  MaxLosses,     \* bound: how often a connection is lost
  Faults         \* what may happen besides success: an error answered to the statements
                 \* named, a deadlock, a lost connection, a refused one, abort()

ASSUME SizeAssumption == Size \in [Txn -> Nat]
ASSUME ConnAssumption == Direct \subseteq Conn /\ NoTxn \notin Txn /\ NoTxn \notin Conn
ASSUME BoundAssumption == MaxRetries \in Nat \ {0} /\ MaxAttempts \in Nat \ {0}
                          /\ MaxLosses \in Nat
ASSUME FaultAssumption == 
  Faults \subseteq {"begin", "stmt", "rollback", "commit", "deadlock", "lost", "refused", "abort"}

VARIABLES
  work,      \* work[c]: the transaction c executes, or NoTxn
  pc,        \* pc[c]: the statement c executes next, or where it is between them
  idx,       \* idx[c]: the position of `itr' in m_queries
  tries,     \* tries[c]: ExecuteTransaction calls made for this transaction
  err,       \* err[c]: errorCode
  attempts,  \* attempts[c]: reconnection attempts left, 0 when not reconnecting
  handle,    \* handle[c]: m_Mysql is not null
  retryLock, \* the holder of _deadlockLock, or NoTxn
  result,    \* result[t]: what the caller of ExecuteTransaction concludes
  aborted,   \* std::abort() was called
  session,   \* session[c]: the server's side of the connection
  undo,      \* undo[c]: statements executed and not yet committed in the session
  applied,   \* applied[s]: how often statement s has been committed, 2 at most
  struck,    \* history: transactions whose connection was lost after START TRANSACTION,
             \* or whose START TRANSACTION or ROLLBACK the server refused
  ignored,   \* history: transactions of which START TRANSACTION, ROLLBACK or COMMIT failed
  losses     \* history: connections lost so far, for the bound only

clientVars == <<work, pc, idx, tries, err, attempts, handle, retryLock, result, aborted>>
serverVars == <<session, undo, applied>>
history == <<struck, ignored, losses>>
vars == <<clientVars, serverVars, history>>

Stmt == UNION {{t} \X (1..Size[t]) : t \in Txn}
Pc == {"idle", "begin", "stmt", "rollback", "commit", "return", "lock"}

Init ==
  /\ work = [c \in Conn |-> NoTxn] /\ pc = [c \in Conn |-> "idle"]
  /\ idx = [c \in Conn |-> 1] /\ tries = [c \in Conn |-> 0]
  /\ err = [c \in Conn |-> "none"] /\ attempts = [c \in Conn |-> 0]
  /\ handle = [c \in Conn |-> TRUE] /\ retryLock = NoTxn
  /\ result = [t \in Txn |-> "open"] /\ aborted = FALSE
  /\ session = [c \in Conn |-> "autocommit"] /\ undo = [c \in Conn |-> {}]
  /\ applied = [s \in Stmt |-> 0] /\ struck = {} /\ ignored = {} /\ losses = 0

-----------------------------------------------------------------------------
(* The server *)

\* The statements of S take effect.
Apply(S) == [s \in Stmt |-> IF s \in S /\ applied[s] < 2 THEN applied[s] + 1 ELSE applied[s]]

\* The session of c becomes s; its uncommitted statements are committed or undone.
Session(c, s, committed) ==
  /\ session' = [session EXCEPT ![c] = s]
  /\ undo' = [undo EXCEPT ![c] = {}]
  /\ applied' = Apply(committed)

\* What the statement at pc[c] does in the session.  START TRANSACTION commits
\* what an earlier transaction left open.
Perform(c) ==
  CASE pc[c] = "begin" -> Session(c, "transaction", undo[c])
    [] pc[c] = "commit" -> Session(c, "autocommit", undo[c])
    [] pc[c] = "rollback" -> Session(c, "autocommit", {})
    [] pc[c] = "stmt" /\ session[c] = "transaction" ->
         /\ undo' = [undo EXCEPT ![c] = @ \union {<<work[c], idx[c]>>}]
         /\ UNCHANGED <<session, applied>>
    [] pc[c] = "stmt" /\ session[c] = "autocommit" -> Session(c, "autocommit", {<<work[c], idx[c]>>})

\* Another session holds locks that this one can deadlock with.
Contended(c) == \E d \in Conn \ {c} : undo[d] # {}

-----------------------------------------------------------------------------
(* The client: one ExecuteTransaction *)

Running(c) == ~aborted /\ attempts[c] = 0
AtStatement(c) == Running(c) /\ pc[c] \in {"begin", "stmt", "rollback", "commit"}

\* Where the client goes after the statement at pc[c] succeeded: the loop over
\* m_queries, then COMMIT; after ROLLBACK it returns the errorCode, after COMMIT 0.
Advance(c) ==
  /\ idx' = [idx EXCEPT ![c] = CASE pc[c] = "begin" -> 1
                                 [] pc[c] = "stmt" -> @ + 1
                                 [] OTHER -> 1]
  /\ pc' = [pc EXCEPT ![c] = CASE pc[c] \in {"begin", "stmt"} ->
                                    IF idx'[c] > Size[work[c]] THEN "commit" ELSE "stmt"
                               [] OTHER -> "return"]

\* Mutant: the errorCode is not returned.
Fail_NoError(c, e) ==
  IF pc[c] = "stmt"
    THEN pc' = [pc EXCEPT ![c] = "rollback"] /\ UNCHANGED <<idx, err, ignored>>
    ELSE Advance(c) /\ UNCHANGED err /\ ignored' = ignored \union {work[c]}

\* Where it goes after a failure with errno e: only the loop looks at the result
\* of Execute; BeginTransaction, RollbackTransaction and CommitTransaction do not.
Fail(c, e) ==
  IF pc[c] = "stmt"
    THEN /\ pc' = [pc EXCEPT ![c] = "rollback"]
         /\ err' = [err EXCEPT ![c] = e]
         /\ UNCHANGED <<idx, ignored>>
    ELSE Advance(c) /\ UNCHANGED err /\ ignored' = ignored \union {work[c]}

stepVars == <<work, tries, retryLock, result, aborted>>

Succeed(c) ==
  /\ AtStatement(c) /\ handle[c]
  /\ Perform(c)
  /\ Advance(c)
  /\ UNCHANGED <<err, attempts, handle, stepVars, history>>

\* ER_LOCK_DEADLOCK, answered to a statement or to COMMIT: the server has rolled the
\* whole transaction back.
Deadlocked(c) ==
  /\ "deadlock" \in Faults
  /\ AtStatement(c) /\ pc[c] \in {"stmt", "commit"} /\ handle[c] /\ Contended(c)
  /\ Session(c, "autocommit", {})
  /\ Fail(c, "deadlock")
  /\ UNCHANGED <<attempts, handle, stepVars, struck, losses>>

\* Query related errors and unhandled ones.  The statement alone has no effect, but
\* the server rolls back what it could not commit.  Without START TRANSACTION the
\* statements commit one by one, and without ROLLBACK the next one commits them.
Rejected(c) ==
  /\ AtStatement(c) /\ pc[c] \in Faults /\ handle[c]
  /\ IF pc[c] = "commit" THEN Session(c, "autocommit", {}) ELSE UNCHANGED serverVars
  /\ struck' = IF pc[c] = "begin" \/ (pc[c] = "rollback" /\ undo[c] # {})
               THEN struck \union {work[c]} ELSE struck
  /\ Fail(c, "other")
  /\ UNCHANGED <<attempts, handle, stepVars, losses>>

\* CR_SERVER_LOST: the session is gone, before or after the server has executed
\* the statement; the handle is closed and the attempts to reconnect begin.
Lost(c) ==
  /\ "lost" \in Faults
  /\ AtStatement(c) /\ handle[c]
  /\ losses < MaxLosses /\ losses' = losses + 1
  /\ \/ Session(c, "closed", {})
     \/ pc[c] = "commit" /\ Session(c, "closed", undo[c])
     \/ pc[c] = "stmt" /\ session[c] = "autocommit" /\ Session(c, "closed", {<<work[c], idx[c]>>})
  /\ handle' = [handle EXCEPT ![c] = FALSE]
  /\ attempts' = [attempts EXCEPT ![c] = MaxAttempts]
  /\ struck' = struck \union (IF pc[c] \in {"stmt", "commit"} THEN {work[c]} ELSE {})
  /\ UNCHANGED <<pc, idx, err, stepVars, ignored>>

Reconnecting(c) == ~aborted /\ attempts[c] > 0

\* Mutant: the statement that met the lost connection is not repeated.
Reconnect_Skip(c) ==
  /\ Reconnecting(c)
  /\ Session(c, "autocommit", {})
  /\ handle' = [handle EXCEPT ![c] = TRUE]
  /\ attempts' = [attempts EXCEPT ![c] = 0]
  /\ Advance(c)
  /\ UNCHANGED <<err, stepVars, history>>

\* Open() succeeds: Execute starts over with the same statement.
Reconnect(c) ==
  /\ Reconnecting(c)
  /\ Session(c, "autocommit", {})
  /\ handle' = [handle EXCEPT ![c] = TRUE]
  /\ attempts' = [attempts EXCEPT ![c] = 0]
  /\ UNCHANGED <<pc, idx, err, stepVars, history>>

\* Open() fails as _HandleMySQLErrno expects: another attempt, or abort().
Unreachable(c) ==
  /\ Reconnecting(c)
  /\ attempts' = [attempts EXCEPT ![c] = @ - 1]
  /\ aborted' = (attempts[c] = 1)
  /\ undo' = IF aborted' THEN [d \in Conn |-> {}] ELSE undo
  /\ UNCHANGED <<work, pc, idx, tries, err, handle, retryLock, result, session, applied, history>>

\* std::abort(): ER_PARSE_ERROR, or statements that cannot be prepared again after
\* Open() succeeded.
Abort(c) ==
  /\ "abort" \in Faults
  /\ \/ AtStatement(c) /\ pc[c] = "stmt" /\ handle[c]
     \/ Reconnecting(c)
  /\ aborted' = TRUE
  /\ undo' = [d \in Conn |-> {}]
  /\ UNCHANGED <<work, pc, idx, tries, err, attempts, handle, retryLock, result>>
  /\ UNCHANGED <<session, applied, history>>

\* Open() fails with an errno outside the list: the default case returns false,
\* m_Mysql stays null, and Execute returns false.
\* mysql_errno of the null handle is the client library's last global error,
\* which may be 0.
Refused(c) ==
  /\ "refused" \in Faults
  /\ Reconnecting(c)
  /\ attempts' = [attempts EXCEPT ![c] = 0]
  /\ \E e \in {"none", "other"} : Fail(c, e)
  /\ UNCHANGED <<handle, stepVars, struck, losses, serverVars>>

\* Execute without a handle returns false at once.
NoHandle(c) ==
  /\ AtStatement(c) /\ ~handle[c]
  /\ \E e \in {"none", "other"} : Fail(c, e)
  /\ UNCHANGED <<attempts, handle, stepVars, struck, losses, serverVars>>

-----------------------------------------------------------------------------
(* The client: TransactionTask::Execute and DirectCommitTransaction *)

\* ExecuteTransaction is called: an empty transaction returns -1 right away.
Call(c, t) ==
  /\ tries' = [tries EXCEPT ![c] = @ + 1]
  /\ pc' = [pc EXCEPT ![c] = IF Size[t] = 0 THEN "return" ELSE "begin"]
  /\ err' = [err EXCEPT ![c] = IF Size[t] = 0 THEN "other" ELSE "none"]
  /\ UNCHANGED <<idx, attempts, handle, aborted, history>>

\* A worker takes the task, or a thread calls DirectCommitTransaction.
Begin(c, t) ==
  /\ Running(c) /\ pc[c] = "idle"
  /\ result[t] = "open" /\ \A d \in Conn : work[d] # t
  /\ work' = [work EXCEPT ![c] = t]
  /\ Call(c, t)
  /\ UNCHANGED <<retryLock, result, serverVars>>

\* Done with the transaction, successfully or not; the lock_guard ends.
Conclude(c, r) ==
  /\ result' = [result EXCEPT ![work[c]] = r]
  /\ work' = [work EXCEPT ![c] = NoTxn]
  /\ pc' = [pc EXCEPT ![c] = "idle"]
  /\ tries' = [tries EXCEPT ![c] = 0]
  /\ err' = [err EXCEPT ![c] = "none"]
  /\ retryLock' = IF retryLock = c THEN NoTxn ELSE retryLock
  /\ idx' = [idx EXCEPT ![c] = 1]
  /\ UNCHANGED <<attempts, handle, aborted, serverVars, history>>

Returned(c) == Running(c) /\ pc[c] = "return"

ReturnOk(c) == Returned(c) /\ err[c] = "none" /\ Conclude(c, "ok")

\* Only a first call that ended in a deadlock is followed by others; these are
\* repeated after any error.
GiveUp(c) ==
  /\ Returned(c) /\ err[c] # "none"
  /\ IF tries[c] = 1 THEN err[c] # "deadlock" ELSE tries[c] > MaxRetries
  /\ Conclude(c, "failed")

\* "Make sure only 1 async thread retries a transaction so they don't keep
\* dead-locking each other"
WantLock(c) ==
  /\ Returned(c) /\ c \notin Direct
  /\ tries[c] = 1 /\ err[c] = "deadlock"
  /\ pc' = [pc EXCEPT ![c] = "lock"]
  /\ UNCHANGED <<work, idx, tries, err, attempts, handle, retryLock, result, aborted, serverVars, history>>

TakeLock(c) ==
  /\ Running(c) /\ pc[c] = "lock"
  /\ retryLock = NoTxn /\ retryLock' = c
  /\ Call(c, work[c])
  /\ UNCHANGED <<work, result, serverVars>>

\* Mutant: the loop does not end with the first success.
Retry_NoBreak(c) ==
  /\ Returned(c)
  /\ IF tries[c] = 1 THEN err[c] = "deadlock" /\ c \in Direct
                     ELSE tries[c] <= MaxRetries
  /\ Call(c, work[c])
  /\ UNCHANGED <<work, retryLock, result, serverVars>>

\* Mutant: the calls are not counted.
Retry_Endless(c) ==
  /\ Returned(c) /\ err[c] # "none"
  /\ \/ tries[c] > 1
     \/ err[c] = "deadlock" /\ c \in Direct
  /\ pc' = [pc EXCEPT ![c] = "begin"] /\ err' = [err EXCEPT ![c] = "none"]
  /\ tries' = [tries EXCEPT ![c] = 2]
  /\ UNCHANGED <<idx, attempts, handle, aborted, history, work, retryLock, result, serverVars>>

Retry(c) ==
  /\ Returned(c) /\ err[c] # "none"
  /\ IF tries[c] = 1 THEN err[c] = "deadlock" /\ c \in Direct
                     ELSE tries[c] <= MaxRetries
  /\ Call(c, work[c])
  /\ UNCHANGED <<work, retryLock, result, serverVars>>

-----------------------------------------------------------------------------

Step(c) ==
  \/ Succeed(c) \/ Deadlocked(c) \/ Rejected(c) \/ Lost(c) \/ Abort(c)
  \/ Reconnect(c) \/ Unreachable(c) \/ Refused(c) \/ NoHandle(c)
  \/ ReturnOk(c) \/ GiveUp(c) \/ WantLock(c) \/ TakeLock(c) \/ Retry(c)

Finished == aborted \/ \A t \in Txn : result[t] # "open"

Terminated == Finished /\ UNCHANGED vars

Next ==
  \/ \E c \in Conn : Step(c) \/ \E t \in Txn : Begin(c, t)
  \/ Terminated

\* Threads run, and the server answers; it may answer with any of the faults.
\* The lock is a fair mutex: whoever waits for it gets it eventually.
Fairness ==
  /\ \A c \in Conn : WF_vars(Step(c))
  /\ \A c \in Conn \ Direct : SF_vars(TakeLock(c))

Spec == Init /\ [][Next]_vars /\ Fairness

-----------------------------------------------------------------------------
(* Properties *)

\* The variables hold what the code's types allow.
TypeOK ==
  /\ work \in [Conn -> Txn \union {NoTxn}] /\ pc \in [Conn -> Pc]
  /\ idx \in [Conn -> Nat \ {0}] /\ tries \in [Conn -> 0..MaxRetries + 1]
  /\ err \in [Conn -> {"none", "deadlock", "other"}]
  /\ attempts \in [Conn -> 0..MaxAttempts] /\ handle \in [Conn -> BOOLEAN]
  /\ retryLock \in Conn \union {NoTxn}
  /\ result \in [Txn -> {"open", "ok", "failed"}] /\ aborted \in BOOLEAN
  /\ session \in [Conn -> {"autocommit", "transaction", "closed"}]
  /\ undo \in [Conn -> SUBSET Stmt] /\ applied \in [Stmt -> 0..2]
  /\ struck \subseteq Txn /\ ignored \subseteq Txn /\ losses \in 0..MaxLosses

StmtsOf(t) == {s \in Stmt : s[1] = t}

\* No reader of the database ever sees a part of a transaction, or sees it
\* twice: "automatically rollback if not commited. (Autocommit=0)".
Whole(t) == \E n \in {0, 1} : \A s \in StmtsOf(t) : applied[s] = n

\* A lost connection, or an answer that is not looked at, harms the transaction it
\* interrupted and no other: not the ones executed before or after it on the same
\* connection, not those it was deadlocked with, not one whose connection was lost at
\* START TRANSACTION or ROLLBACK, not one whose COMMIT the server refused.
LossIsContained == \A t \in Txn \ struck : Whole(t)

\* What is left of a transaction when its execution is over.
OutcomeIsWhole == \A t \in Txn : result[t] # "open" => Whole(t)

\* What the retry loops conclude is what happened, unless the transaction was struck:
\* it is dropped only without any of its statements in the database, and reported
\* executed only with all of them, unless an answer was dropped (of COMMIT, or of
\* START TRANSACTION and ROLLBACK without a connection).
ResultIsTrue ==
  \A s \in Stmt : s[1] \notin struck =>
    /\ result[s[1]] = "failed" => applied[s] = 0
    /\ result[s[1]] = "ok" /\ s[1] \notin ignored => applied[s] = 1

\* Deadlocks end in a commit or in giving up, never in retrying for good, also
\* when several connections deadlock with the one that retries.
EverySettled ==
  \A t \in Txn : (\E c \in Conn : work[c] = t) ~> result[t] # "open" \/ aborted

-----------------------------------------------------------------------------
(* A transaction that is not interrupted is atomic *)

StatusOf(t) ==
  IF t \in struck THEN "interrupted"
  ELSE IF ~Whole(t) THEN "in part"
  ELSE IF StmtsOf(t) # {} /\ \A s \in StmtsOf(t) : applied[s] = 1 THEN "committed"
  ELSE IF result[t] # "open" THEN "rejected" ELSE "open"

Abstract == INSTANCE AtomicTransactions WITH status <- [t \in Txn |-> StatusOf(t)]

\* A transaction takes effect at one moment, as a whole and once, or is rejected, or
\* is interrupted before that moment, and none of it changes afterwards.
AbstractSpec == Abstract!Spec
=============================================================================
