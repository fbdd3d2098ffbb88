CONSTANTS
  SuspendMax = 2
  ApcMax = 2
  SignalsMax = 2
  SignalAndWait = FALSE
SPECIFICATION FairSpec
INVARIANTS OneAnswer NotRefused
PROPERTIES ContextHandedOver SuspensionHolds ResumeReturns WaitAnswered SystemApcRuns KilledEnds
CHECK_DEADLOCK FALSE
