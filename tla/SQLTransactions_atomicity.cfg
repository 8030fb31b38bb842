CONSTANTS
  t1 = t1
  t2 = t2
  Conn = {c1, c2}
  Direct = {c2}
  Txn = {t1, t2}
  Size <- MCSize
  NoTxn = NoTxn
  MaxRetries = 2
  MaxAttempts = 2
  MaxLosses = 1
  Faults = {"lost"}
SPECIFICATION Spec
INVARIANTS
  OutcomeIsWhole
