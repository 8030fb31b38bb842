CONSTANTS
  ann = ann
  bob = bob
  cat = cat
  a1 = a1
  a2 = a2
  b1 = b1
  c1 = c1
  Account = {ann, bob, cat}
  Session = {a1, a2, b1, c1}
  AccountOf <- Owner
  NoSession = NoSession
  SkipQueue = {}
  Limits = {1}
  Tolerance = 0
  Never = Never
  MaxTime = 1
  Grace = 1
SPECIFICATION Spec
INVARIANTS EntriesAreLive QueueIsListed NoneForgotten
PROPERTIES LimitHolds NoIdlePlace FirstComeFirstServed
