CONSTANTS
  ann = ann
  bob = bob
  cat = cat
  a1 = a1
  a2 = a2
  b1 = b1
  c1 = c1
  Account = {ann, bob}
  Session = {a1, a2, b1}
  AccountOf <- OwnerOfThree
  NoSession = NoSession
  SkipQueue = {}
  Limits = {1}
  Tolerance = 2
  Never = Never
  MaxTime = 3
  Grace = 1
SPECIFICATION Spec
PROPERTIES
  ToleranceExpires
