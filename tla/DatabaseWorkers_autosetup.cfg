CONSTANTS
  Worker = {w1, w2}
  Op = {o1, o2}
  NoOp = NoOp
  AutoSetup = TRUE
SPECIFICATION Spec
PROPERTIES
  AcceptedIsExecuted
