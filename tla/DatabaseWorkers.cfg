CONSTANTS
  Worker = {w1, w2, w3}
  Op = {o1, o2, o3}
  NoOp = NoOp
  AutoSetup = TRUE
SPECIFICATION Spec
INVARIANTS NoLostWakeup OvertakingBounded ConnectionOutlivesCall
PROPERTIES AbstractSpec ExecutedIfOpenedOnce CloseEnds
