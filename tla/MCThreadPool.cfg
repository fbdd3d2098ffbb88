SPECIFICATION FairSpec
CONSTANTS
  a = a
  b = b
  c1 = c1
  c2 = c2
  Objects = {a, b}
  Priority <- ThePriority
  Callers = {c1, c2}
  Programs <- ThePrograms
  Workers = {k1, k2}
  TimerThread = tt
  MinWorkers = 0
  MaxWorkers = 2
  PendingMax = 2
  BusyMax = 2
  CreateMayFail = TRUE
  NoThread = none
  NoObject = nothing
INVARIANTS ReferencesCounted AssertionsHold NoStrandedCallback
PROPERTIES NoForgottenWaiter ReleasedIsFreed
