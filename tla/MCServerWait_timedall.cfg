CONSTANTS
  t1 = t1
  t2 = t2
  t3 = t3
  e1 = e1
  e2 = e2
  m1 = m1
  m2 = m2
  s1 = s1
  Threads = {t1, t2, t3}
  AutoEvents = {e1}
  ManualEvents = {}
  Mutexes = {}
  Semaphores = {s1}
  SemMax = 2
  CountMax = 1
  SuspendMax = 0
  ApcMax = 0
  Requests <- TimedAllRequests
  Mortal = {}
  NoThread = NoThread
  NoWait = NoWait
SPECIFICATION Spec
CHECK_DEADLOCK FALSE
INVARIANTS NobodyToWake
