CONSTANTS
  t1 = t1
  t2 = t2
  Conn = {c1, c2, c3}
  Direct = {c3}
  Txn = {t1, t2}
  Size <- MCSize
  NoTxn = NoTxn
  MaxRetries = 2
  MaxAttempts = 2
  MaxLosses = 1
  Faults = {"begin", "stmt", "rollback", "commit", "deadlock", "lost", "refused", "abort"}
SPECIFICATION Spec
INVARIANTS ResultIsTrue LossIsContained
PROPERTIES AbstractSpec EverySettled
