CONSTANTS
  ann = ann
  bob = bob
  cat = cat
  a1 = a1
  a2 = a2
  b1 = b1
  c1 = c1
  Account = {ann, bob}
  Session = {a1, a2, b1}
  AccountOf <- OwnerOfThree
  NoSession = NoSession
  SkipQueue = {bob}
  Limits = {0, 1}
  Tolerance = 0
  Never = Never
  MaxTime = 0
  Grace = 2
SPECIFICATION Spec
PROPERTIES ClosedIsRemoved
