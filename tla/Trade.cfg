CONSTANTS
  ann = ann
  bob = bob
  r1 = r1
  r2 = r2
  r3 = r3
  r4 = r4
  arrows = arrows
  Player = {ann, bob}
  Item = {r1, r2, r3, r4, arrows}
  KindOf <- Kinds
  Limit <- Limits
  Capacity <- Places
  InitPlace <- Start
  InitCount <- Sizes
  InitMoney <- Purse
  MaxMoney = 2
  NumSlots = 2
  Workers = 1
  MaxLosses = 1
  MaxSaves = 2
  None = None
SPECIFICATION Spec
SYMMETRY Alike
INVARIANTS TradesArePaired MoneyIsConserved TradesAreDurable
PROPERTIES AcceptanceIsCurrent AcceptedStacksStand OnlyOfferedIsGiven ItemsAreConserved
