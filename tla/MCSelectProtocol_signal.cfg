CONSTANTS
  SuspendMax = 1
  ApcMax = 1
  SignalsMax = 2
  SignalAndWait = TRUE
SPECIFICATION Spec
INVARIANTS SignalsOnce
CHECK_DEADLOCK FALSE
