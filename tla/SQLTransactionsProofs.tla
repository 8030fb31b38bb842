----------------------- MODULE SQLTransactionsProofs -----------------------
(***************************************************************************)
(* Proofs about SQLTransactions, for any connections, transactions of any  *)
(* size and any number of retries and losses: whatever the server answers, *)
(* a lost connection and an answer that is not looked at harm no           *)
(* transaction but the one they interrupted; every other takes effect as a *)
(* whole, once, or not at all; and what the retry loops conclude is true   *)
(* unless an answer of START TRANSACTION, ROLLBACK or COMMIT was dropped.  *)
(***************************************************************************)
EXTENDS SQLTransactions, TLAPS

\* None, or all, of the statements of t have been committed, the latter once.
Zero(t) == \A s \in StmtsOf(t) : applied[s] = 0
One(t) == \A s \in StmtsOf(t) : applied[s] = 1

AtSql(c) == pc[c] \in {"begin", "stmt", "rollback", "commit"}

\* How the local variables of one execution go together.
Control(c) ==
  /\ pc[c] = "idle" <=> work[c] = NoTxn
  /\ pc[c] = "idle" => tries[c] = 0
  /\ pc[c] = "lock" => tries[c] = 1 /\ err[c] # "none"
  /\ pc[c] \in {"begin", "stmt", "commit"} => err[c] = "none"
  /\ AtSql(c) => Size[work[c]] > 0
  /\ pc[c] = "stmt" => idx[c] <= Size[work[c]]
  /\ pc[c] = "commit" => idx[c] = Size[work[c]] + 1
  /\ attempts[c] > 0 => AtSql(c) /\ ~handle[c]
  /\ work[c] # NoTxn => result[work[c]] = "open"

\* A transaction is executed by one connection.
Exclusive == \A c, d \in Conn : work[c] = work[d] /\ work[c] # NoTxn => c = d

\* The server's session: what is not committed belongs to the transaction that is
\* being executed, or is left of one whose ROLLBACK was refused.
ServerSide(c) ==
  /\ \A s \in undo[c] :
       \/ s[1] \in struck
       \/ s[1] = work[c] /\ pc[c] \in {"stmt", "rollback", "commit"} /\ handle[c]
  /\ handle[c] => session[c] # "closed"

\* A transaction that no loss has struck, while c executes it: nothing is visible
\* before COMMIT, and at COMMIT all of it is in the session.
Intact(c) ==
  work[c] \notin struck =>
    /\ AtSql(c) \/ err[c] # "none" => Zero(work[c])
    /\ pc[c] \in {"stmt", "commit"} /\ handle[c] /\ ~aborted =>
         /\ session[c] = "transaction"
         /\ \A k \in 1..Size[work[c]] : <<work[c], k>> \in undo[c] <=> k < idx[c]
    /\ pc[c] = "commit" => handle[c]
    /\ attempts[c] > 0 => pc[c] \in {"begin", "rollback"}

\* What is about to be concluded is true, unless an answer was dropped.
Honest(c) ==
  work[c] \notin struck \union ignored =>
    /\ pc[c] = "stmt" => handle[c]
    /\ pc[c] = "rollback" => err[c] # "none"
    /\ pc[c] = "return" /\ err[c] = "none" => One(work[c])

\* So is what has been concluded.
Truth(t) ==
  /\ result[t] = "failed" => Zero(t)
  /\ result[t] = "ok" /\ t \notin ignored => One(t)

Unworked(t) == \A c \in Conn : work[c] # t

SQLInv ==
  /\ TypeOK
  /\ Exclusive
  /\ \A c \in Conn : Control(c) /\ ServerSide(c)
  /\ \A c \in Conn : work[c] # NoTxn => Intact(c) /\ Honest(c)
  /\ \A t \in Txn \ struck : (Zero(t) \/ One(t)) /\ Truth(t)
  /\ \A t \in Txn \ struck : result[t] = "open" /\ Unworked(t) => Zero(t)

-----------------------------------------------------------------------------
(* The data *)

\* The statements of a transaction are its positions.
LEMMA StmtFacts ==
  /\ \A t \in Txn : \A s : s \in StmtsOf(t) <=> \E k \in 1..Size[t] : s = <<t, k>>
  /\ \A t : StmtsOf(t) \subseteq Stmt
  /\ \A s \in Stmt : s[1] \in Txn /\ s \in StmtsOf(s[1])
  /\ StmtsOf(NoTxn) = {}
  /\ \A s, t, u : s \in StmtsOf(t) /\ s \in StmtsOf(u) => t = u
<1>1. \A s : s \in Stmt <=> \E t \in Txn : \E k \in 1..Size[t] : s = <<t, k>>
  BY DEF Stmt
<1>2. \A t \in Txn : \A s : s \in StmtsOf(t) <=> \E k \in 1..Size[t] : s = <<t, k>>
  BY <1>1 DEF StmtsOf
<1>3. \A s \in Stmt : s[1] \in Txn
  BY <1>1
<1>4. StmtsOf(NoTxn) = {}
  BY <1>3, ConnAssumption DEF StmtsOf
<1> QED
  BY <1>2, <1>3, <1>4 DEF StmtsOf

\* Apply commits what it is given and touches nothing else.
LEMMA ApplyFacts ==
  ASSUME TypeOK, NEW S
  PROVE  /\ Apply(S) \in [Stmt -> 0..2]
         /\ \A s \in Stmt \ S : Apply(S)[s] = applied[s]
         /\ \A s \in Stmt \cap S : applied[s] = 0 => Apply(S)[s] = 1
BY DEF Apply, TypeOK

LEMMA ApplyNothing ==
  ASSUME TypeOK
  PROVE  Apply({}) = applied
BY DEF Apply, TypeOK

\* A transaction none of whose statements is committed does not change.
LEMMA AppliedElsewhere ==
  ASSUME TypeOK, NEW S, applied' = Apply(S), NEW t, \A s \in S : s[1] # t
  PROVE  (Zero(t)' <=> Zero(t)) /\ (One(t)' <=> One(t))
<1>1. \A s \in StmtsOf(t) : s \in Stmt \ S
  BY DEF StmtsOf
<1>2. \A s \in StmtsOf(t) : applied'[s] = applied[s]
  BY <1>1, ApplyFacts
<1> QED
  BY <1>2 DEF Zero, One, StmtsOf, Stmt

LEMMA AppliedKept ==
  ASSUME applied' = applied, NEW t
  PROVE  (Zero(t)' <=> Zero(t)) /\ (One(t)' <=> One(t))
BY DEF Zero, One, StmtsOf, Stmt

LEMMA InitInv == Init => SQLInv
<1> SUFFICES ASSUME Init PROVE SQLInv
  OBVIOUS
<1>1. TypeOK
  <2>1. 0 \in 0..(MaxRetries + 1) /\ 0 \in 0..MaxAttempts
    BY BoundAssumption
  <2>2. undo \in [Conn -> SUBSET Stmt] /\ handle \in [Conn -> BOOLEAN]
    BY DEF Init
  <2>3. applied \in [Stmt -> 0..2] /\ work \in [Conn -> Txn \cup {NoTxn}]
    BY DEF Init
  <2>4. tries \in [Conn -> 0..(MaxRetries + 1)] /\ attempts \in [Conn -> 0..MaxAttempts]
    BY <2>1 DEF Init
  <2>5. pc \in [Conn -> Pc] /\ idx \in [Conn -> Nat \ {0}]
    BY DEF Init, Pc
  <2>6. /\ err \in [Conn -> {"none", "deadlock", "other"}]
        /\ result \in [Txn -> {"open", "ok", "failed"}]
        /\ session \in [Conn -> {"autocommit", "transaction", "closed"}]
    BY DEF Init
  <2>7. /\ retryLock \in Conn \cup {NoTxn} /\ aborted \in BOOLEAN /\ struck \subseteq Txn
        /\ ignored \subseteq Txn
    BY DEF Init
  <2>8. losses \in 0..MaxLosses
    <3>1. 0 \in 0..MaxLosses /\ losses = 0
      BY BoundAssumption DEF Init
    <3> QED
      BY <3>1
  <2> QED
    BY <2>2, <2>3, <2>4, <2>5, <2>6, <2>7, <2>8 DEF TypeOK
<1>2. \A c \in Conn : Control(c) /\ ServerSide(c) /\ Exclusive
  BY DEF Init, Control, ServerSide, Exclusive, AtSql
<1>3. \A t : Zero(t)
  BY StmtFacts DEF Init, Zero
<1>4. \A t \in Txn : Truth(t)
  BY DEF Init, Truth
<1> QED
  BY <1>1, <1>2, <1>3, <1>4 DEF Init, SQLInv, Exclusive

-----------------------------------------------------------------------------
(* Between two executions: the server is not involved *)

\* A transaction is taken up.
LEMMA BeginInv ==
  ASSUME SQLInv, NEW c \in Conn, NEW t \in Txn, Begin(c, t)
  PROVE  SQLInv'
<1> USE DEF Begin, Call, Running, serverVars, history
<1>1. TypeOK'
  BY BoundAssumption DEF SQLInv, TypeOK, Pc, Control
<1>2. Exclusive' /\ \A d \in Conn : Control(d)'
  BY SizeAssumption, ConnAssumption DEF SQLInv, TypeOK, Exclusive, Control, AtSql
<1>3. \A d \in Conn : ServerSide(d)'
  BY ConnAssumption DEF SQLInv, ServerSide, TypeOK, Control
<1>4. \A u : (Zero(u)' <=> Zero(u)) /\ (One(u)' <=> One(u)) /\ (Truth(u)' <=> Truth(u))
  BY AppliedKept DEF Truth
<1>5. t \notin struck => Zero(t)
  BY DEF SQLInv, Unworked
<1>6. \A d \in Conn : work'[d] # NoTxn => Intact(d)' /\ Honest(d)'
  BY <1>4, <1>5 DEF SQLInv, TypeOK, Intact, Honest, AtSql
<1>7. \A u \in Txn : Unworked(u)' => Unworked(u)
  BY ConnAssumption DEF SQLInv, TypeOK, Unworked, Control
<1> QED
  BY <1>1, <1>2, <1>3, <1>4, <1>6, <1>7 DEF SQLInv
\* A transaction is concluded: nobody executes it any more, and it is not open.
LEMMA ConcludeInv ==
  ASSUME SQLInv, NEW c \in Conn, Returned(c), NEW r \in {"ok", "failed"}, Conclude(c, r),
         err[c] = "none" <=> r = "ok"
  PROVE  SQLInv'
<1> USE DEF Returned, Conclude, Running, serverVars, history
<1>1. TypeOK' /\ work[c] \in Txn
  <2>1. work[c] \in Txn
    BY DEF SQLInv, TypeOK, Control
  <2>2. 0 \in 0..(MaxRetries + 1)
    BY BoundAssumption
  <2> QED
    BY <2>1, <2>2 DEF SQLInv, TypeOK, Pc
<1>2. Exclusive' /\ \A d \in Conn : Control(d)'
  BY <1>1, ConnAssumption DEF SQLInv, TypeOK, Exclusive, Control, AtSql
<1>3. \A d \in Conn : ServerSide(d)'
  BY <1>1 DEF SQLInv, ServerSide, TypeOK
<1>4. \A u : (Zero(u)' <=> Zero(u)) /\ (One(u)' <=> One(u))
  BY AppliedKept
<1>5. \A d \in Conn : work'[d] # NoTxn => Intact(d)' /\ Honest(d)'
  BY <1>4 DEF SQLInv, TypeOK, Intact, Honest, AtSql
<1>6. \A u \in Txn : result'[u] = "open" /\ Unworked(u)' => result[u] = "open" /\ Unworked(u)
  BY <1>1 DEF SQLInv, TypeOK, Unworked
<1>7. ASSUME NEW u \in Txn \ struck PROVE Truth(u)'
  <2>1. CASE u = work[c]
    <3>1. result'[u] = r /\ (r = "failed" => Zero(u))
      BY <1>1, <2>1 DEF SQLInv, TypeOK, Intact, Control
    <3>2. r = "ok" /\ u \notin ignored => One(u)
      BY <1>1, <2>1 DEF SQLInv, Honest, Control
    <3> QED
      BY <1>4, <3>1, <3>2 DEF Truth
  <2>2. CASE u # work[c]
    <3>1. result'[u] = result[u] /\ Truth(u)
      BY <2>2 DEF SQLInv, TypeOK
    <3> QED
      BY <1>4, <3>1 DEF Truth
  <2> QED
    BY <2>1, <2>2
<1> QED
  BY <1>1, <1>2, <1>3, <1>4, <1>5, <1>6, <1>7 DEF SQLInv

\* A transaction is called once more; nothing of it is visible.
LEMMA CallInv ==
  ASSUME SQLInv, NEW c \in Conn, Running(c), work[c] # NoTxn, pc[c] \in {"return", "lock"},
         err[c] # "none", tries[c] <= MaxRetries, Call(c, work[c]),
         retryLock' \in Conn \cup {NoTxn}, UNCHANGED <<work, result, serverVars>>
  PROVE  SQLInv'
<1> USE DEF Running, Call, serverVars, history
<1>1. TypeOK' /\ work[c] \in Txn
  <2>1. work[c] \in Txn
    BY DEF SQLInv, TypeOK
  <2>2. tries[c] + 1 \in 0..(MaxRetries + 1)
    BY BoundAssumption DEF SQLInv, TypeOK
  <2> QED
    BY <2>1, <2>2 DEF SQLInv, TypeOK, Pc
<1>2. Exclusive' /\ \A d \in Conn : Control(d)'
  BY <1>1, SizeAssumption, ConnAssumption DEF SQLInv, TypeOK, Exclusive, Control, AtSql
<1>3. \A d \in Conn : ServerSide(d)'
  BY DEF SQLInv, ServerSide, TypeOK
<1>4. \A u : /\ (Zero(u)' <=> Zero(u)) /\ (One(u)' <=> One(u))
             /\ (Unworked(u)' <=> Unworked(u)) /\ (Truth(u)' <=> Truth(u))
  BY AppliedKept DEF Unworked, Truth
<1>5. \A d \in Conn : work'[d] # NoTxn => Intact(d)' /\ Honest(d)'
  BY <1>4 DEF SQLInv, TypeOK, Intact, Honest, AtSql
<1> QED
  BY <1>1, <1>2, <1>3, <1>4, <1>5 DEF SQLInv

LEMMA RetryInv ==
  ASSUME SQLInv, NEW c \in Conn, TakeLock(c) \/ Retry(c)
  PROVE  SQLInv'
<1>1. work[c] # NoTxn /\ err[c] # "none" /\ pc[c] \in {"return", "lock"} /\ Running(c)
  BY DEF TakeLock, Retry, Returned, SQLInv, Control
<1>2. tries[c] <= MaxRetries
  BY BoundAssumption DEF TakeLock, Retry, SQLInv, Control
<1>3. Call(c, work[c]) /\ UNCHANGED <<work, result, serverVars>> /\ retryLock' \in Conn \cup {NoTxn}
  BY DEF TakeLock, Retry, SQLInv, TypeOK
<1> QED
  BY <1>1, <1>2, <1>3, CallInv

LEMMA WantLockInv ==
  ASSUME SQLInv, NEW c \in Conn, WantLock(c)
  PROVE  SQLInv'
<1> USE DEF WantLock, Returned, Running, serverVars, history
<1>1. TypeOK'
  BY DEF SQLInv, TypeOK, Pc
<1>2. Exclusive' /\ \A d \in Conn : Control(d)' /\ ServerSide(d)'
  BY DEF SQLInv, TypeOK, Exclusive, Control, AtSql, ServerSide
<1>3. \A u : /\ (Zero(u)' <=> Zero(u)) /\ (One(u)' <=> One(u))
             /\ (Unworked(u)' <=> Unworked(u)) /\ (Truth(u)' <=> Truth(u))
  BY AppliedKept DEF Unworked, Truth
<1>4. \A d \in Conn : work'[d] # NoTxn => Intact(d)' /\ Honest(d)'
  BY <1>3 DEF SQLInv, TypeOK, Intact, Honest, AtSql
<1> QED
  BY <1>1, <1>2, <1>3, <1>4 DEF SQLInv
-----------------------------------------------------------------------------
(* One statement and what the client makes of the answer *)

\* A step of c leaves everybody else's execution and session alone.
OnlyOf(c) ==
  /\ UNCHANGED <<work, tries, retryLock, result>>
  /\ \A d \in Conn \ {c} : /\ pc'[d] = pc[d] /\ idx'[d] = idx[d] /\ err'[d] = err[d]
                           /\ attempts'[d] = attempts[d] /\ handle'[d] = handle[d]
                           /\ session'[d] = session[d] /\ undo'[d] = undo[d]
  /\ aborted' = aborted
  /\ struck \subseteq struck' /\ struck' \subseteq struck \cup {work[c]}
  /\ ignored \subseteq ignored'
  /\ \A t : t # work[c] /\ t \notin struck => (Zero(t)' <=> Zero(t)) /\ (One(t)' <=> One(t))

\* So only c has to be looked at.
LEMMA LocalStep ==
  ASSUME SQLInv, NEW c \in Conn, AtSql(c), OnlyOf(c), TypeOK',
         Control(c)', ServerSide(c)', Intact(c)', Honest(c)',
         work[c] \notin struck' => Zero(work[c])' \/ One(work[c])'
  PROVE  SQLInv'
<1>1. work[c] \in Txn /\ result'[work[c]] = "open"
  BY DEF SQLInv, TypeOK, Control, AtSql, OnlyOf
<1>2. ASSUME NEW d \in Conn \ {c}
      PROVE  Control(d)' /\ ServerSide(d)' /\ (work[d] # NoTxn => Intact(d)' /\ Honest(d)')
  <2>1. work[d] # NoTxn => work[d] # work[c]
    BY <1>2 DEF SQLInv, Exclusive
  <2>2. Control(d)' /\ ServerSide(d)'
    BY <1>2 DEF SQLInv, OnlyOf, Control, ServerSide, AtSql
  <2>3. work[d] # NoTxn => Intact(d)' /\ Honest(d)'
    BY <1>2, <2>1 DEF SQLInv, OnlyOf, Intact, Honest, AtSql
  <2> QED
    BY <2>2, <2>3
<1>3. Exclusive' /\ (\A t : Unworked(t)' <=> Unworked(t)) /\ ~Unworked(work[c])
  BY DEF SQLInv, OnlyOf, Exclusive, Unworked
<1>4. \A t \in Txn \ struck' : (Zero(t)' \/ One(t)') /\ Truth(t)'
  BY <1>1 DEF SQLInv, OnlyOf, Truth
<1>5. \A t \in Txn \ struck' : result'[t] = "open" /\ Unworked(t)' => Zero(t)'
  BY <1>3 DEF SQLInv, OnlyOf
<1> QED
  BY <1>2, <1>3, <1>4, <1>5 DEF SQLInv, OnlyOf

\* Advance moves c along its statements.
LEMMA AdvanceFacts ==
  ASSUME SQLInv, NEW c \in Conn, AtSql(c), Advance(c)
  PROVE  /\ pc' \in [Conn -> Pc] /\ idx' \in [Conn -> Nat \ {0}]
         /\ \A d \in Conn \ {c} : pc'[d] = pc[d] /\ idx'[d] = idx[d]
         /\ pc[c] = "begin" => pc'[c] = "stmt" /\ idx'[c] = 1
         /\ pc[c] = "stmt" => /\ idx'[c] = idx[c] + 1
                              /\ idx'[c] <= Size[work[c]] => pc'[c] = "stmt"
                              /\ idx'[c] > Size[work[c]] =>
                                   pc'[c] = "commit" /\ idx'[c] = Size[work[c]] + 1
         /\ pc[c] \in {"rollback", "commit"} => pc'[c] = "return"
<1>1. idx[c] \in Nat \ {0} /\ Size[work[c]] \in Nat \ {0}
  BY SizeAssumption DEF SQLInv, TypeOK, Control, AtSql
<1>2. idx'[c] = CASE pc[c] = "begin" -> 1 [] pc[c] = "stmt" -> idx[c] + 1 [] OTHER -> 1
  BY DEF Advance, SQLInv, TypeOK
<1>3. pc'[c] = CASE pc[c] \in {"begin", "stmt"} -> IF idx'[c] > Size[work[c]] THEN "commit" ELSE "stmt"
                 [] OTHER -> "return"
  BY DEF Advance, SQLInv, TypeOK
<1>4. /\ \A d \in Conn \ {c} : pc'[d] = pc[d] /\ idx'[d] = idx[d]
      /\ pc' = [pc EXCEPT ![c] = pc'[c]] /\ idx' = [idx EXCEPT ![c] = idx'[c]]
  BY DEF Advance, SQLInv, TypeOK
<1>5. idx'[c] \in Nat \ {0} /\ pc'[c] \in Pc
  BY <1>1, <1>2, <1>3 DEF AtSql, Pc
<1>6. pc' \in [Conn -> Pc] /\ idx' \in [Conn -> Nat \ {0}]
  BY <1>4, <1>5 DEF SQLInv, TypeOK
<1>7. pc[c] = "stmt" => idx[c] <= Size[work[c]]
  BY DEF SQLInv, Control
<1> QED
  BY <1>1, <1>2, <1>3, <1>4, <1>6, <1>7 DEF AtSql

\* Fail sends c to ROLLBACK, or on as if nothing had happened.
LEMMA FailFacts ==
  ASSUME SQLInv, NEW c \in Conn, AtSql(c), NEW e \in {"none", "deadlock", "other"}, Fail(c, e)
  PROVE  /\ pc' \in [Conn -> Pc] /\ idx' \in [Conn -> Nat \ {0}]
         /\ err' \in [Conn -> {"none", "deadlock", "other"}]
         /\ \A d \in Conn \ {c} : pc'[d] = pc[d] /\ idx'[d] = idx[d] /\ err'[d] = err[d]
         /\ pc[c] = "begin" => pc'[c] = "stmt" /\ idx'[c] = 1 /\ err'[c] = err[c]
         /\ pc[c] = "stmt" => pc'[c] = "rollback" /\ idx'[c] = idx[c] /\ err'[c] = e
         /\ pc[c] \in {"rollback", "commit"} => pc'[c] = "return" /\ err'[c] = err[c]
         /\ ignored' = IF pc[c] = "stmt" THEN ignored ELSE ignored \union {work[c]}
<1>1. CASE pc[c] = "stmt"
  BY <1>1 DEF Fail, SQLInv, TypeOK, Pc
<1>2. CASE pc[c] # "stmt"
  <2>1. Advance(c) /\ err' = err /\ ignored' = ignored \union {work[c]}
    BY <1>2 DEF Fail
  <2> QED
    BY <1>2, <2>1, AdvanceFacts DEF SQLInv, TypeOK
<1> QED
  BY <1>1, <1>2
\* What Session does.
LEMMA SessionFacts ==
  ASSUME SQLInv, NEW c \in Conn, NEW v \in {"autocommit", "transaction", "closed"},
         NEW S, Session(c, v, S)
  PROVE  /\ session' \in [Conn -> {"autocommit", "transaction", "closed"}]
         /\ undo' \in [Conn -> SUBSET Stmt] /\ applied' \in [Stmt -> 0..2]
         /\ session'[c] = v /\ undo'[c] = {}
         /\ \A d \in Conn \ {c} : session'[d] = session[d] /\ undo'[d] = undo[d]
         /\ \A t : (\A s \in S : s[1] # t) => (Zero(t)' <=> Zero(t)) /\ (One(t)' <=> One(t))
         /\ \A s \in Stmt \cap S : applied[s] = 0 => applied'[s] = 1
<1>1. TypeOK /\ applied' = Apply(S)
  BY DEF SQLInv, Session
<1>2. \A t : (\A s \in S : s[1] # t) => (Zero(t)' <=> Zero(t)) /\ (One(t)' <=> One(t))
  BY <1>1, AppliedElsewhere
<1>3. undo' = [undo EXCEPT ![c] = {}] /\ session' = [session EXCEPT ![c] = v]
  BY DEF Session
<1> QED
  BY <1>1, <1>2, <1>3, ApplyFacts DEF TypeOK

\* What is committed from a session is of its own transaction or of struck ones.
LEMMA Uncommitted ==
  ASSUME SQLInv, NEW c \in Conn, NEW t, t # work[c], t \notin struck
  PROVE  \A s \in undo[c] : s[1] # t
BY DEF SQLInv, ServerSide

\* The same when nothing is committed.
LEMMA SessionKeeps ==
  ASSUME SQLInv, NEW c \in Conn,
         NEW v \in {"autocommit", "transaction", "closed"}, Session(c, v, {})
  PROVE  /\ session' \in [Conn -> {"autocommit", "transaction", "closed"}]
         /\ undo' \in [Conn -> SUBSET Stmt] /\ applied' = applied
         /\ session'[c] = v /\ undo'[c] = {}
         /\ \A d \in Conn \ {c} : session'[d] = session[d] /\ undo'[d] = undo[d]
         /\ \A t : (Zero(t)' <=> Zero(t)) /\ (One(t)' <=> One(t))
<1>1. applied' = applied
  BY ApplyNothing DEF Session, SQLInv
<1>2. \A t : (Zero(t)' <=> Zero(t)) /\ (One(t)' <=> One(t))
  BY <1>1, AppliedKept
<1> QED
  BY <1>1, <1>2, SessionFacts

\* A transaction in hand that no loss has struck is untouched or done.
LEMMA InHand ==
  ASSUME SQLInv, NEW c \in Conn, AtSql(c)
  PROVE  /\ work[c] \in Txn /\ result[work[c]] = "open" /\ Intact(c)
         /\ Honest(c)
         /\ work[c] \notin struck => Zero(work[c])
         /\ Control(c) /\ ServerSide(c) /\ Size[work[c]] \in Nat \ {0}
BY SizeAssumption DEF SQLInv, TypeOK, Control, AtSql, Intact

\* The server answers with an error: it rejects a statement, undoes the transaction in
\* a deadlock, or refuses one of the statements whose answer is not looked at.
LEMMA RefusalInv ==
  ASSUME SQLInv, NEW c \in Conn, Rejected(c) \/ Deadlocked(c)
  PROVE  SQLInv' /\ AtSql(c) /\ OnlyOf(c)
<1>1. /\ AtSql(c) /\ handle[c] /\ attempts[c] = 0
      /\ UNCHANGED <<attempts, handle, losses, stepVars>>
  BY DEF Rejected, Deadlocked, AtStatement, Running, AtSql
<1>2. PICK e \in {"deadlock", "other"} : Fail(c, e)
  BY DEF Rejected, Deadlocked
<1>3. \/ UNCHANGED serverVars /\ pc[c] # "commit"
      \/ Session(c, "autocommit", {}) /\ pc[c] \in {"stmt", "commit"}
  BY DEF Rejected, Deadlocked
<1>4. /\ struck \subseteq struck' /\ struck' \subseteq struck \union {work[c]} /\ struck' \subseteq Txn
      /\ pc[c] = "begin" => work[c] \in struck'
      /\ pc[c] = "rollback" /\ undo[c] # {} => work[c] \in struck'
  BY <1>1, InHand DEF Rejected, Deadlocked, SQLInv, TypeOK
<1>5. /\ session' \in [Conn -> {"autocommit", "transaction", "closed"}]
      /\ undo' \in [Conn -> SUBSET Stmt] /\ applied' = applied
      /\ undo'[c] \subseteq undo[c] /\ session'[c] # "closed"
      /\ pc[c] = "commit" => undo'[c] = {}
      /\ \A d \in Conn \ {c} : session'[d] = session[d] /\ undo'[d] = undo[d]
      /\ \A t : (Zero(t)' <=> Zero(t)) /\ (One(t)' <=> One(t))
  <2>1. CASE UNCHANGED serverVars /\ pc[c] # "commit"
    BY <1>1, <2>1, AppliedKept DEF serverVars, SQLInv, TypeOK, ServerSide
  <2>2. CASE Session(c, "autocommit", {})
    BY <1>1, <2>2, SessionKeeps
  <2> QED
    BY <1>3, <2>1, <2>2
<1>6. ignored \subseteq ignored' /\ ignored' \subseteq Txn /\ (pc[c] # "stmt" => work[c] \in ignored')
  BY <1>1, <1>2, FailFacts, InHand DEF SQLInv, TypeOK
<1>7. TypeOK'
  BY <1>1, <1>2, <1>4, <1>5, <1>6, FailFacts DEF stepVars, SQLInv, TypeOK
<1>8. OnlyOf(c)
  BY <1>1, <1>2, <1>4, <1>5, <1>6, FailFacts DEF stepVars, OnlyOf
<1>9. /\ pc[c] = "begin" => pc'[c] = "stmt" /\ idx'[c] = 1
      /\ pc[c] = "stmt" => pc'[c] = "rollback" /\ err'[c] = e
      /\ pc[c] # "stmt" => err'[c] = err[c]
      /\ pc[c] \in {"rollback", "commit"} => pc'[c] = "return"
  BY <1>1, <1>2, FailFacts DEF AtSql
<1>10. Control(c)'
  BY <1>1, <1>9, InHand DEF Control, AtSql, stepVars
<1>11. ServerSide(c)'
  BY <1>1, <1>4, <1>5, <1>9, InHand DEF ServerSide, AtSql, stepVars
<1>12. Intact(c)' /\ (work[c] \notin struck' => Zero(work[c])')
  BY <1>1, <1>4, <1>5, <1>9, InHand DEF Intact, AtSql, stepVars
<1>13. Honest(c)'
  BY <1>1, <1>4, <1>6, <1>9, InHand DEF Honest, AtSql, stepVars
<1> QED
  BY <1>1, <1>7, <1>8, <1>10, <1>11, <1>12, <1>13, LocalStep

\* No connection, so no answer: there is nothing in the session to lose.
LEMMA NoAnswerInv ==
  ASSUME SQLInv, NEW c \in Conn, NoHandle(c) \/ Refused(c)
  PROVE  SQLInv' /\ AtSql(c) /\ OnlyOf(c)
<1>1. /\ AtSql(c) /\ ~handle[c]
      /\ UNCHANGED <<handle, stepVars, struck, losses, serverVars>>
      /\ attempts' \in [Conn -> 0..MaxAttempts] /\ attempts'[c] = 0
      /\ \A d \in Conn \ {c} : attempts'[d] = attempts[d]
      /\ NoHandle(c) => attempts[c] = 0
      /\ Refused(c) => attempts[c] > 0
  BY BoundAssumption DEF NoHandle, Refused, AtStatement, Running, Reconnecting, AtSql, SQLInv, TypeOK, Control
<1>2. PICK e \in {"none", "other"} : Fail(c, e)
  BY DEF NoHandle, Refused
<1>3. \A t : (Zero(t)' <=> Zero(t)) /\ (One(t)' <=> One(t))
  BY <1>1, AppliedKept DEF serverVars
<1>4. ignored \subseteq ignored' /\ ignored' \subseteq Txn /\ (pc[c] # "stmt" => work[c] \in ignored')
  BY <1>1, <1>2, FailFacts, InHand DEF SQLInv, TypeOK
<1>5. TypeOK'
  BY <1>1, <1>2, <1>4, FailFacts DEF stepVars, serverVars, SQLInv, TypeOK
<1>6. OnlyOf(c)
  BY <1>1, <1>2, <1>3, <1>4, FailFacts DEF stepVars, serverVars, OnlyOf
<1>7. Control(c)' /\ ServerSide(c)'
  BY <1>1, <1>2, FailFacts, InHand DEF Control, ServerSide, AtSql, stepVars, serverVars
<1>8. Intact(c)' /\ (work[c] \notin struck' => Zero(work[c])')
  BY <1>1, <1>2, <1>3, FailFacts, InHand DEF Intact, AtSql, stepVars
<1>9. Honest(c)'
  BY <1>1, <1>2, <1>4, FailFacts, InHand DEF Honest, AtSql, stepVars
<1> QED
  BY <1>1, <1>5, <1>6, <1>7, <1>8, <1>9, LocalStep

\* The connection is lost: a transaction that had begun is struck, one that had not
\* or was being rolled back is not.
LEMMA LostInv ==
  ASSUME SQLInv, NEW c \in Conn, Lost(c)
  PROVE  SQLInv' /\ AtSql(c) /\ OnlyOf(c)
<1>1. /\ AtSql(c) /\ handle[c] /\ UNCHANGED <<pc, idx, err, stepVars, ignored>>
      /\ handle' = [handle EXCEPT ![c] = FALSE] /\ attempts' = [attempts EXCEPT ![c] = MaxAttempts]
      /\ struck' = struck \union (IF pc[c] \in {"stmt", "commit"} THEN {work[c]} ELSE {})
      /\ losses < MaxLosses /\ losses' = losses + 1
  BY DEF Lost, AtStatement, AtSql
<1>2. PICK S : /\ Session(c, "closed", S)
               /\ \A s \in S : /\ s[1] = work[c] \/ s[1] \in struck
                               /\ pc[c] \in {"stmt", "commit"}
  <2>1. CASE Session(c, "closed", {})
    BY <2>1
  <2>2. CASE pc[c] = "commit" /\ Session(c, "closed", undo[c])
    BY <1>1, <2>2, Uncommitted
  <2>3. CASE pc[c] = "stmt" /\ Session(c, "closed", {<<work[c], idx[c]>>})
    BY <2>3
  <2> QED
    BY <2>1, <2>2, <2>3 DEF Lost
<1>3. /\ session' \in [Conn -> {"autocommit", "transaction", "closed"}]
      /\ undo' \in [Conn -> SUBSET Stmt] /\ applied' \in [Stmt -> 0..2]
      /\ undo'[c] = {} /\ session'[c] = "closed"
      /\ \A d \in Conn \ {c} : session'[d] = session[d] /\ undo'[d] = undo[d]
      /\ \A t : t # work[c] /\ t \notin struck => (Zero(t)' <=> Zero(t)) /\ (One(t)' <=> One(t))
  BY <1>2, SessionFacts
<1>4. TypeOK'
  <2>1. attempts' \in [Conn -> 0..MaxAttempts] /\ handle' \in [Conn -> BOOLEAN]
    BY <1>1, BoundAssumption DEF SQLInv, TypeOK
  <2>2. struck' \subseteq Txn /\ losses' \in 0..MaxLosses
    BY <1>1, InHand, BoundAssumption DEF SQLInv, TypeOK
  <2> QED
    BY <1>1, <1>3, <2>1, <2>2 DEF SQLInv, TypeOK, stepVars
<1>5. OnlyOf(c)
  BY <1>1, <1>3 DEF OnlyOf, SQLInv, TypeOK, stepVars
<1>6. Control(c)' /\ ServerSide(c)'
  BY <1>1, <1>3, InHand DEF Control, ServerSide, AtSql, SQLInv, TypeOK, stepVars
<1>7. work' = work /\ pc' = pc /\ err' = err /\ ignored' = ignored /\ work[c] \in Txn
  BY <1>1, InHand DEF stepVars
<1>8. work[c] \notin struck' => /\ work[c] \notin struck /\ pc[c] \in {"begin", "rollback"}
                              /\ Zero(work[c]) /\ Zero(work[c])'
  <2>1. pc[c] \in {"stmt", "commit"} => work[c] \in struck'
    BY <1>1
  <2>2. work[c] \notin struck => Zero(work[c])
    BY <1>1, InHand
  <2>3. struck \subseteq struck'
    BY <1>1
  <2>4. ASSUME pc[c] \notin {"stmt", "commit"} PROVE Zero(work[c])' <=> Zero(work[c])
    <3>1. \A s \in S : s[1] # work[c]
      BY <1>2, <2>4
    <3>3. applied' = Apply(S)
      BY <1>2 DEF Session
    <3>4. TypeOK
      BY DEF SQLInv
    <3>5. PICK t : t = work[c]
      OBVIOUS
    <3>6. Zero(t)' <=> Zero(t)
      BY <3>1, <3>3, <3>4, <3>5, AppliedElsewhere
    <3> QED
      BY <1>7, <3>5, <3>6 DEF Zero
  <2> QED
    BY <1>1, <2>1, <2>2, <2>3, <2>4 DEF AtSql
<1>9. Intact(c)'
  BY <1>7, <1>8 DEF Intact, AtSql
<1>10. Honest(c)'
  BY <1>1, <1>7, <1>8, InHand DEF Honest
<1> QED
  BY <1>1, <1>4, <1>5, <1>6, <1>8, <1>9, <1>10, LocalStep

\* The new session is empty, and the statement is tried again.
LEMMA ReconnectInv ==
  ASSUME SQLInv, NEW c \in Conn, Reconnect(c)
  PROVE  SQLInv' /\ AtSql(c) /\ OnlyOf(c)
<1>1. /\ AtSql(c) /\ ~handle[c] /\ Session(c, "autocommit", {})
      /\ UNCHANGED <<pc, idx, err, stepVars, history>>
      /\ handle' = [handle EXCEPT ![c] = TRUE] /\ attempts' = [attempts EXCEPT ![c] = 0]
  BY DEF Reconnect, Reconnecting, SQLInv, Control
<1>2. TypeOK'
  BY <1>1, SessionKeeps, BoundAssumption DEF SQLInv, TypeOK, stepVars, history
<1>3. OnlyOf(c)
  BY <1>1, SessionKeeps DEF OnlyOf, stepVars, history, SQLInv, TypeOK
<1>4. Control(c)' /\ ServerSide(c)'
  BY <1>1, SessionKeeps, InHand DEF Control, ServerSide, AtSql, stepVars, history, SQLInv, TypeOK
<1>5. Intact(c)' /\ Honest(c)' /\ (work[c] \notin struck' => Zero(work[c])')
  <2>1. work[c] \notin struck => pc[c] \notin {"stmt", "commit"}
    BY <1>1, InHand DEF Intact, Reconnect, Reconnecting
  <2> QED
    BY <1>1, <2>1, SessionKeeps, InHand DEF Intact, Honest, AtSql, stepVars, history
<1> QED
  BY <1>1, <1>2, <1>3, <1>4, <1>5, LocalStep

\* The process may end here, which undoes what is not committed, everywhere.
LEMMA EndInv ==
  ASSUME SQLInv, NEW c \in Conn, Unreachable(c) \/ Abort(c)
  PROVE  SQLInv'
<1>1. /\ UNCHANGED <<work, pc, idx, tries, err, handle, retryLock, result, session, applied, history>>
      /\ aborted' \in BOOLEAN /\ (aborted => aborted')
      /\ undo' = IF aborted' THEN [d \in Conn |-> {}] ELSE undo
      /\ attempts' = attempts \/ (attempts[c] > 0 /\ attempts' = [attempts EXCEPT ![c] = attempts[c] - 1])
  BY DEF Unreachable, Abort, Reconnecting, AtStatement, Running
<1>2. attempts' \in [Conn -> 0..MaxAttempts] /\ \A d \in Conn : attempts'[d] <= attempts[d]
  <2>1. attempts \in [Conn -> 0..MaxAttempts] /\ (attempts[c] > 0 => attempts[c] - 1 \in 0..MaxAttempts)
    BY BoundAssumption DEF SQLInv, TypeOK
  <2> QED
    BY <1>1, <2>1, BoundAssumption
<1>3. undo' \in [Conn -> SUBSET Stmt] /\ \A d \in Conn : undo'[d] \subseteq undo[d]
  BY <1>1 DEF SQLInv, TypeOK
<1>4. TypeOK'
  BY <1>1, <1>2, <1>3 DEF SQLInv, TypeOK, history
<1>5. \A t : /\ (Zero(t)' <=> Zero(t)) /\ (One(t)' <=> One(t))
             /\ (Unworked(t)' <=> Unworked(t)) /\ (Truth(t)' <=> Truth(t))
  BY <1>1, AppliedKept DEF Unworked, Truth, history
<1>6. ASSUME NEW d \in Conn
      PROVE  Control(d)' /\ ServerSide(d)' /\ (work[d] # NoTxn => Intact(d)' /\ Honest(d)')
  <2>1. attempts'[d] > 0 => attempts[d] > 0
    BY <1>2 DEF SQLInv, TypeOK
  <2>2. Control(d)' /\ ServerSide(d)'
    BY <1>1, <1>3, <2>1 DEF SQLInv, Control, ServerSide, AtSql, history
  <2>3. ~aborted' => undo' = undo /\ ~aborted
    BY <1>1
  <2>4. work[d] # NoTxn => Intact(d)'
    BY <1>1, <1>5, <2>1, <2>3 DEF SQLInv, Intact, AtSql, history
  <2>5. work[d] # NoTxn => Honest(d)'
    BY <1>1, <1>5 DEF SQLInv, Honest, history
  <2> QED
    BY <2>2, <2>4, <2>5
<1> QED
  BY <1>1, <1>4, <1>5, <1>6 DEF SQLInv, Exclusive, history

\* A statement succeeds.
LEMMA SucceedInv ==
  ASSUME SQLInv, NEW c \in Conn, Succeed(c)
  PROVE  SQLInv' /\ AtSql(c) /\ OnlyOf(c)
<1>1. /\ AtSql(c) /\ handle[c] /\ attempts[c] = 0 /\ ~aborted /\ Perform(c) /\ Advance(c)
      /\ UNCHANGED <<err, attempts, handle, stepVars, history>>
  BY DEF Succeed, AtStatement, Running, AtSql
<1>2. CASE pc[c] \in {"begin", "rollback"}
  <2>1. PICK v, S :
           /\ v \in {"autocommit", "transaction"}
           /\ Session(c, v, S)
           /\ pc[c] = "begin" => v = "transaction"
           /\ \A s \in S : s[1] \in struck
    <3>1. CASE pc[c] = "begin"
      <4>1. Session(c, "transaction", undo[c]) /\ \A s \in undo[c] : s[1] \in struck
        BY <1>1, <3>1, InHand DEF Perform, ServerSide
      <4> QED
        BY <4>1
    <3>2. CASE pc[c] = "rollback"
      BY <1>1, <3>2 DEF Perform
    <3> QED
      BY <1>2, <3>1, <3>2
  <2>2. TypeOK'
    BY <1>1, <2>1, SessionFacts, AdvanceFacts DEF SQLInv, TypeOK, stepVars, history
  <2>3. \A t : t \notin struck => (Zero(t)' <=> Zero(t)) /\ (One(t)' <=> One(t))
    BY <2>1, SessionFacts
  <2>4. OnlyOf(c)
    BY <1>1, <2>1, <2>3, SessionFacts, AdvanceFacts DEF OnlyOf, stepVars, history
  <2>5. Control(c)' /\ ServerSide(c)'
    BY <1>1, <1>2, <2>1, SessionFacts, AdvanceFacts, InHand
       DEF Control, ServerSide, AtSql, stepVars, history
  <2>6. Intact(c)' /\ Honest(c)' /\ (work[c] \notin struck' => Zero(work[c])')
    BY <1>1, <1>2, <2>1, <2>3, SessionFacts, AdvanceFacts, InHand
       DEF Intact, Honest, AtSql, stepVars, history
  <2> QED
    BY <1>1, <2>2, <2>4, <2>5, <2>6, LocalStep
<1>3. CASE pc[c] = "stmt" /\ session[c] = "transaction"
  <2>1. /\ undo' = [undo EXCEPT ![c] = undo[c] \union {<<work[c], idx[c]>>}]
        /\ UNCHANGED <<session, applied>>
    BY <1>1, <1>3 DEF Perform
  <2>2. idx[c] \in 1..Size[work[c]] /\ <<work[c], idx[c]>> \in StmtsOf(work[c])
    BY <1>1, <1>3, InHand, StmtFacts DEF Control, SQLInv, TypeOK
  <2>3. \A t : (Zero(t)' <=> Zero(t)) /\ (One(t)' <=> One(t))
    BY <2>1, AppliedKept
  <2>4. undo' \in [Conn -> SUBSET Stmt] /\ undo'[c] = undo[c] \union {<<work[c], idx[c]>>}
        /\ \A d \in Conn \ {c} : undo'[d] = undo[d]
    BY <2>1, <2>2, StmtFacts DEF SQLInv, TypeOK
  <2>5. TypeOK'
    BY <1>1, <2>1, <2>4, AdvanceFacts DEF SQLInv, TypeOK, stepVars, history
  <2>6. OnlyOf(c)
    BY <1>1, <2>1, <2>3, <2>4, AdvanceFacts DEF OnlyOf, stepVars, history
  <2>7. pc'[c] \in {"stmt", "commit"} /\ idx'[c] = idx[c] + 1
        /\ (pc'[c] = "stmt" => idx'[c] <= Size[work[c]])
        /\ (pc'[c] = "commit" => idx'[c] = Size[work[c]] + 1)
    BY <1>1, <1>3, <2>2, AdvanceFacts, InHand
  <2>8. Control(c)' /\ ServerSide(c)'
    BY <1>1, <1>3, <2>1, <2>4, <2>7, InHand DEF Control, ServerSide, AtSql, stepVars, history
  <2>9. Intact(c)' /\ (work[c] \notin struck' => Zero(work[c])')
    <3>1. ASSUME work[c] \notin struck, NEW k \in 1..Size[work[c]]
          PROVE  <<work[c], k>> \in undo'[c] <=> k < idx'[c]
      <4>1. <<work[c], k>> \in undo[c] <=> k < idx[c]
        BY <1>1, <1>3, <3>1, InHand DEF Intact
      <4> QED
        BY <2>2, <2>4, <2>7, <4>1, InHand
    <3> QED
      BY <1>1, <1>3, <2>1, <2>3, <2>7, <3>1, InHand DEF Intact, AtSql, stepVars, history
  <2>10. Honest(c)'
    BY <1>1, <2>7, InHand DEF Honest, stepVars, history
  <2> QED
    BY <1>1, <2>5, <2>6, <2>8, <2>9, <2>10, LocalStep
<1>4. CASE pc[c] = "stmt" /\ session[c] = "autocommit"
  <2>1. Session(c, "autocommit", {<<work[c], idx[c]>>}) /\ work[c] \in struck
    BY <1>1, <1>4, InHand DEF Perform, Intact
  <2>2. TypeOK'
    BY <1>1, <2>1, SessionFacts, AdvanceFacts DEF SQLInv, TypeOK, stepVars, history
  <2>3. OnlyOf(c)
    BY <1>1, <2>1, SessionFacts, AdvanceFacts DEF OnlyOf, stepVars, history
  <2>4. pc'[c] \in {"stmt", "commit"} /\ idx'[c] = idx[c] + 1
        /\ (pc'[c] = "stmt" => idx'[c] <= Size[work[c]])
        /\ (pc'[c] = "commit" => idx'[c] = Size[work[c]] + 1)
    BY <1>1, <1>4, <2>2, AdvanceFacts, InHand DEF TypeOK
  <2>5. Control(c)'
    BY <1>1, <1>4, <2>4, InHand DEF Control, AtSql, stepVars
  <2>6. ServerSide(c)'
    BY <1>1, <2>1, SessionFacts DEF ServerSide
  <2>7. Intact(c)' /\ Honest(c)' /\ work[c] \in struck'
    BY <1>1, <2>1 DEF Intact, Honest, stepVars, history
  <2> QED
    BY <1>1, <2>2, <2>3, <2>5, <2>6, <2>7, LocalStep
<1>5. CASE pc[c] = "commit"
  <2>1. Session(c, "autocommit", undo[c])
    BY <1>1, <1>5 DEF Perform
  <2>2. TypeOK'
    BY <1>1, <2>1, SessionFacts, AdvanceFacts DEF SQLInv, TypeOK, stepVars, history
  <2>3. OnlyOf(c)
    <3>1. \A t : t # work[c] /\ t \notin struck => (Zero(t)' <=> Zero(t)) /\ (One(t)' <=> One(t))
      BY <2>1, SessionFacts, Uncommitted
    <3> QED
      BY <1>1, <2>1, <3>1, SessionFacts, AdvanceFacts DEF OnlyOf, stepVars, history
  <2>4. Control(c)' /\ ServerSide(c)'
    BY <1>1, <1>5, <2>1, SessionFacts, AdvanceFacts, InHand
       DEF Control, ServerSide, AtSql, stepVars, history
  <2>5. Intact(c)'
    BY <1>1, <1>5, <2>1, SessionFacts, AdvanceFacts, InHand DEF Control, Intact, AtSql, stepVars, history
  <2>6. work[c] \notin struck => One(work[c])'
    <3>1. SUFFICES ASSUME work[c] \notin struck, NEW s \in StmtsOf(work[c]) PROVE applied'[s] = 1
      BY <1>1 DEF One, stepVars, StmtsOf, Stmt
    <3>2. PICK k \in 1..Size[work[c]] : s = <<work[c], k>>
      BY <1>1, InHand, StmtFacts
    <3>3. k < idx[c] /\ \A j \in 1..Size[work[c]] : <<work[c], j>> \in undo[c] <=> j < idx[c]
      BY <1>1, <1>5, <3>1, <3>2, InHand DEF Control, Intact
    <3>4. s \in undo[c] /\ s \in Stmt
      BY <3>2, <3>3, <3>1, StmtFacts
    <3>5. applied[s] = 0
      BY <1>1, <3>1, InHand DEF Zero
    <3> QED
      BY <1>1, <2>1, <3>4, <3>5, SessionFacts
  <2>7. Honest(c)'
    BY <1>1, <1>5, <2>6, AdvanceFacts DEF Honest, stepVars, history
  <2> QED
    BY <1>1, <2>2, <2>3, <2>4, <2>5, <2>6, <2>7, LocalStep DEF stepVars, history
<1> QED
  BY <1>1, <1>2, <1>3, <1>4, <1>5, InHand DEF AtSql, ServerSide, SQLInv, TypeOK

\* An execution ends with what its err says.
LEMMA ReturnInv ==
  ASSUME SQLInv, NEW c \in Conn, ReturnOk(c) \/ GiveUp(c)
  PROVE  SQLInv'
BY ConcludeInv DEF ReturnOk, GiveUp

LEMMA NextInv == SQLInv /\ [Next]_vars => SQLInv'
<1> SUFFICES ASSUME SQLInv, [Next]_vars PROVE SQLInv'
  OBVIOUS
<1>1. CASE UNCHANGED vars
  <2>1. \A u : (Zero(u)' <=> Zero(u)) /\ (One(u)' <=> One(u))
    BY <1>1, AppliedKept DEF vars, serverVars
  <2> QED
    BY <1>1, <2>1
       DEF vars, clientVars, serverVars, history, SQLInv, TypeOK, Exclusive, Control, ServerSide,
           Intact, Honest, Truth, Unworked, AtSql, StmtsOf, Stmt
<1>2. ASSUME NEW c \in Conn, Step(c) PROVE SQLInv'
  <2>1. CASE Succeed(c) \/ Deadlocked(c) \/ Rejected(c) \/ Lost(c)
    BY <2>1, SucceedInv, RefusalInv, LostInv
  <2>2. CASE Reconnect(c) \/ Refused(c) \/ NoHandle(c)
    BY <2>2, ReconnectInv, NoAnswerInv
  <2>3. CASE Unreachable(c) \/ Abort(c)
    BY <2>3, EndInv
  <2>4. CASE ReturnOk(c) \/ GiveUp(c)
    BY <2>4, ReturnInv
  <2>5. CASE WantLock(c) \/ TakeLock(c) \/ Retry(c)
    BY <2>5, WantLockInv, RetryInv
  <2> QED
    BY <1>2, <2>1, <2>2, <2>3, <2>4, <2>5 DEF Step
<1>3. ASSUME NEW c \in Conn, NEW t \in Txn, Begin(c, t) PROVE SQLInv'
  BY <1>3, BeginInv
<1> QED
  BY <1>1, <1>2, <1>3 DEF Next, Terminated

-----------------------------------------------------------------------------
(* Theorems about states *)

\* What one execution, its session and the outcome have to do with each other, for
\* every fault of the server (MySQLConnection::ExecuteTransaction and its retries).
THEOREM Invariance == Spec => []SQLInv
<1> QED
  BY InitInv, NextInv, PTL DEF Spec

\* The variables keep their types: in particular a transaction is called at most
\* loopBreaker + 1 times.
THEOREM TypeCorrect == Spec => []TypeOK
<1>1. SQLInv => TypeOK
  BY DEF SQLInv
<1> QED
  BY <1>1, Invariance, PTL

\* Whatever the server answers and however reconnecting ends, a transaction that was
\* not interrupted between START TRANSACTION and the answer to COMMIT, and whose START
\* TRANSACTION and ROLLBACK were not refused, is in the database as a whole and once,
\* or not at all.
THEOREM LossContained == Spec => []LossIsContained
<1>1. SQLInv => LossIsContained
  <2> SUFFICES ASSUME SQLInv, NEW t \in Txn \ struck PROVE Whole(t)
    BY DEF LossIsContained
  <2>1. Zero(t) \/ One(t)
    BY DEF SQLInv
  <2> QED
    BY <2>1 DEF Zero, One, Whole
<1> QED
  BY <1>1, Invariance, PTL

\* With every fault, COMMIT refused included, a transaction that was not struck is
\* given up only with none of its statements in the database, and reported executed
\* only with all of them, once, unless an answer that ExecuteTransaction does not look
\* at (of START TRANSACTION, ROLLBACK or COMMIT) was an error.
THEOREM ResultsAreTrue == Spec => []ResultIsTrue
<1>1. SQLInv => ResultIsTrue
  <2> SUFFICES ASSUME SQLInv, NEW s \in Stmt, s[1] \notin struck
               PROVE  /\ result[s[1]] = "failed" => applied[s] = 0
                      /\ result[s[1]] = "ok" /\ s[1] \notin ignored => applied[s] = 1
    BY DEF ResultIsTrue
  <2>1. s[1] \in Txn /\ s \in StmtsOf(s[1])
    BY StmtFacts
  <2>2. Truth(s[1])
    BY <2>1 DEF SQLInv
  <2> QED
    BY <2>1, <2>2 DEF Truth, Zero, One
<1> QED
  BY <1>1, Invariance, PTL

-----------------------------------------------------------------------------
(* The refinement *)

\* A transaction to which nothing happens keeps its status.
LEMMA StatusKept ==
  ASSUME NEW t \in Txn, t \in struck' <=> t \in struck, result'[t] = result[t],
         t \in struck \/ ((Zero(t) \/ One(t)) /\ (Zero(t)' <=> Zero(t)) /\ (One(t)' <=> One(t)))
  PROVE  StatusOf(t)' = StatusOf(t)
<1>1. CASE t \in struck
  BY <1>1 DEF StatusOf
<1>2. CASE t \notin struck
  <2>1. (Whole(t)' <=> TRUE) /\ (Whole(t) <=> TRUE)
    BY <1>2 DEF Whole, Zero, One, StmtsOf, Stmt
  <2>2. (\A s \in StmtsOf(t) : applied'[s] = 1) <=> (\A s \in StmtsOf(t) : applied[s] = 1)
    BY <1>2 DEF One, StmtsOf, Stmt
  <2>3. StmtsOf(t)' = StmtsOf(t)
    BY DEF StmtsOf, Stmt
  <2> QED
    BY <1>2, <2>1, <2>2, <2>3 DEF StatusOf
<1> QED
  BY <1>1, <1>2

\* A statement settles the transaction it belongs to, or none.
LEMMA StatementSettles ==
  ASSUME SQLInv, SQLInv', NEW c \in Conn, AtSql(c), OnlyOf(c), NEW t \in Txn, t = work[c]
  PROVE  /\ \A u \in Txn \ {t} : StatusOf(u)' = StatusOf(u)
         /\ \/ StatusOf(t)' = StatusOf(t)
            \/ StatusOf(t) = "open" /\ StatusOf(t)' \in {"committed", "interrupted"}
<1>1. ASSUME NEW u \in Txn \ {t} PROVE StatusOf(u)' = StatusOf(u)
  <2>1. u \in struck \/ ((Zero(u) \/ One(u)) /\ (Zero(u)' <=> Zero(u)) /\ (One(u)' <=> One(u)))
    BY DEF SQLInv, OnlyOf
  <2> QED
    BY <2>1, StatusKept DEF OnlyOf
<1> SUFFICES \/ StatusOf(t)' = StatusOf(t)
             \/ StatusOf(t) = "open" /\ StatusOf(t)' \in {"committed", "interrupted"}
  BY <1>1
<1>2. result[t] = "open" /\ result' = result /\ struck \subseteq struck'
  BY InHand DEF OnlyOf
<1>3. <<t, 1>> \in StmtsOf(t) /\ StmtsOf(t)' = StmtsOf(t)
  <2>1. <<t, 1>> \in StmtsOf(t)
    BY InHand, StmtFacts
  <2>2. StmtsOf(t)' = StmtsOf(t)
    BY DEF StmtsOf, Stmt
  <2> QED
    BY <2>1, <2>2
<1>4. CASE t \in struck
  <2>1. StatusOf(t) = "interrupted" /\ StatusOf(t)' = "interrupted"
    BY <1>2, <1>4 DEF StatusOf
  <2> QED
    BY <2>1
<1>5. CASE t \notin struck
  <2>1. Zero(t)
    BY <1>5, InHand
  <2>2. StatusOf(t) = "open"
    <3>1. Whole(t) /\ applied[<<t, 1>>] # 1
      BY <1>3, <2>1 DEF Whole, Zero
    <3> QED
      BY <1>2, <1>3, <1>5, <3>1 DEF StatusOf
  <2>3. CASE t \in struck'
    <3>1. StatusOf(t)' = "interrupted"
      BY <2>3 DEF StatusOf
    <3> QED
      BY <2>2, <3>1
  <2>4. CASE t \notin struck'
    <3>1. CASE Zero(t)'
      <4>1. Whole(t)' /\ applied'[<<t, 1>>] # 1
        BY <1>3, <3>1 DEF Whole, Zero
      <4> QED
        <5>1. StatusOf(t)' = "open"
          BY <1>2, <1>3, <2>4, <4>1 DEF StatusOf
        <5> QED
          BY <2>2, <5>1
    <3>2. CASE One(t)'
      <4>1. Whole(t)'
        BY <1>3, <3>2 DEF Whole, One
      <4> QED
        <5>1. StatusOf(t)' = "committed"
          BY <1>3, <2>4, <3>2, <4>1 DEF StatusOf, One
        <5> QED
          BY <2>2, <5>1
    <3> QED
      BY <2>4, <3>1, <3>2 DEF SQLInv
  <2> QED
    BY <2>2, <2>3, <2>4
<1> QED
  BY <1>4, <1>5

\* The end of an execution rejects a transaction of which nothing is stored.
LEMMA ConclusionSettles ==
  ASSUME SQLInv, NEW c \in Conn, ReturnOk(c) \/ GiveUp(c), NEW t \in Txn, t = work[c]
  PROVE  /\ \A u \in Txn \ {t} : StatusOf(u)' = StatusOf(u)
         /\ \/ StatusOf(t)' = StatusOf(t)
            \/ StatusOf(t) = "open" /\ StatusOf(t)' = "rejected"
<1>1. /\ result[t] = "open" /\ applied' = applied /\ struck' = struck
      /\ \E r \in {"ok", "failed"} : result' = [result EXCEPT ![t] = r]
  BY DEF ReturnOk, GiveUp, Returned, Conclude, serverVars, history, SQLInv, TypeOK, Control
<1>2. \A u : (Zero(u)' <=> Zero(u)) /\ (One(u)' <=> One(u))
  BY <1>1, AppliedKept
<1>3. result'[t] # "open" /\ \A u \in Txn \ {t} : result'[u] = result[u]
  BY <1>1 DEF SQLInv, TypeOK
<1>4. \A u \in Txn \ {t} : StatusOf(u)' = StatusOf(u)
  BY <1>1, <1>2, <1>3, StatusKept DEF SQLInv
<1>5. StmtsOf(t)' = StmtsOf(t) /\ (Whole(t)' <=> Whole(t))
  BY <1>1 DEF Whole, StmtsOf, Stmt
<1>6. t \in struck \/ Whole(t)
  BY DEF SQLInv, Zero, One, Whole
<1>7. StatusOf(t)' = StatusOf(t) \/ (StatusOf(t) = "open" /\ StatusOf(t)' = "rejected")
  BY <1>1, <1>3, <1>5, <1>6 DEF StatusOf
<1> QED
  BY <1>4, <1>7

\* Every other step leaves what the status depends on as it is.
LEMMA OtherSteps ==
  ASSUME SQLInv, NEW c \in Conn,
         \/ \E t \in Txn : Begin(c, t)
         \/ WantLock(c) \/ TakeLock(c) \/ Retry(c) \/ Unreachable(c) \/ Abort(c)
  PROVE  UNCHANGED <<result, applied, struck>>
BY DEF Begin, WantLock, TakeLock, Retry, Unreachable, Abort, Call, serverVars, history

\* A step settles one transaction or none.
LEMMA StepSettles ==
  ASSUME SQLInv, SQLInv', [Next]_vars
  PROVE  \/ \A t \in Txn : StatusOf(t)' = StatusOf(t)
         \/ \E t \in Txn : /\ StatusOf(t) = "open"
                           /\ StatusOf(t)' \in {"committed", "rejected", "interrupted"}
                           /\ \A u \in Txn \ {t} : StatusOf(u)' = StatusOf(u)
<1>1. CASE UNCHANGED <<result, applied, struck>>
  BY <1>1, AppliedKept, StatusKept DEF SQLInv
<1>2. ASSUME NEW c \in Conn, AtSql(c), OnlyOf(c)
      PROVE  \/ \A t \in Txn : StatusOf(t)' = StatusOf(t)
             \/ \E t \in Txn : /\ StatusOf(t) = "open"
                               /\ StatusOf(t)' \in {"committed", "rejected", "interrupted"}
                               /\ \A u \in Txn \ {t} : StatusOf(u)' = StatusOf(u)
  <2>1. PICK t \in Txn : t = work[c]
    BY <1>2, InHand
  <2>2. /\ \A u \in Txn \ {t} : StatusOf(u)' = StatusOf(u)
        /\ \/ StatusOf(t)' = StatusOf(t)
           \/ StatusOf(t) = "open" /\ StatusOf(t)' \in {"committed", "interrupted"}
    BY <1>2, <2>1, StatementSettles
  <2> QED
    BY <2>2
<1>3. ASSUME NEW c \in Conn, ReturnOk(c) \/ GiveUp(c)
      PROVE  \/ \A t \in Txn : StatusOf(t)' = StatusOf(t)
             \/ \E t \in Txn : /\ StatusOf(t) = "open"
                               /\ StatusOf(t)' \in {"committed", "rejected", "interrupted"}
                               /\ \A u \in Txn \ {t} : StatusOf(u)' = StatusOf(u)
  <2>1. PICK t \in Txn : t = work[c]
    BY <1>3 DEF ReturnOk, GiveUp, Returned, SQLInv, TypeOK, Control
  <2> QED
    BY <1>3, <2>1, ConclusionSettles
<1>4. ASSUME NEW c \in Conn, Step(c)
      PROVE  (AtSql(c) /\ OnlyOf(c)) \/ ReturnOk(c) \/ GiveUp(c) \/ UNCHANGED <<result, applied, struck>>
  BY <1>4, SucceedInv, RefusalInv, LostInv, ReconnectInv, NoAnswerInv, OtherSteps DEF Step
<1>5. ASSUME NEW c \in Conn, NEW t \in Txn, Begin(c, t) PROVE UNCHANGED <<result, applied, struck>>
  BY <1>5, OtherSteps
<1>6. UNCHANGED vars => UNCHANGED <<result, applied, struck>>
  BY DEF vars, clientVars, serverVars, history
<1> QED
  BY <1>1, <1>2, <1>3, <1>4, <1>5, <1>6 DEF Next, Terminated

\* With every fault, a transaction takes effect at one moment, as a whole and once, or
\* is rejected, or is interrupted before that, and the first two are final: nothing
\* that happens later to its connection or to another transaction undoes them.
THEOREM TransactionsAreAtomic == Spec => AbstractSpec
<1>1. Init => Abstract!Init
  <2> SUFFICES ASSUME Init, NEW t \in Txn PROVE StatusOf(t) = "open"
    BY DEF Abstract!Init
  <2>1. \A s \in StmtsOf(t) : applied[s] = 0
    BY DEF Init, StmtsOf
  <2> QED
    BY <2>1 DEF Init, StatusOf, Whole
<1>2. SQLInv /\ SQLInv' /\ [Next]_vars => [Abstract!Next]_([t \in Txn |-> StatusOf(t)])
  <2> SUFFICES ASSUME SQLInv, SQLInv', [Next]_vars
               PROVE  [Abstract!Next]_([t \in Txn |-> StatusOf(t)])
    OBVIOUS
  <2>1. CASE \A t \in Txn : StatusOf(t)' = StatusOf(t)
    BY <2>1
  <2>2. ASSUME NEW t \in Txn, NEW r \in {"committed", "rejected", "interrupted"},
               StatusOf(t) = "open", StatusOf(t)' = r,
               \A u \in Txn \ {t} : StatusOf(u)' = StatusOf(u)
        PROVE  Abstract!Next
    BY <2>2 DEF Abstract!Next, Abstract!Settle
  <2> QED
    BY <2>1, <2>2, StepSettles
<1> QED
  BY <1>1, <1>2, Invariance, InitInv, NextInv, PTL DEF Spec, AbstractSpec, Abstract!Spec
=============================================================================
