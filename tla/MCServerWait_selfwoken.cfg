CONSTANTS
  t1 = t1
  t2 = t2
  t3 = t3
  e1 = e1
  e2 = e2
  m1 = m1
  m2 = m2
  s1 = s1
  Threads = {t1, t2, t3}
  AutoEvents = {}
  ManualEvents = {}
  Mutexes = {m1}
  Semaphores = {}
  SemMax = 1
  CountMax = 2
  SuspendMax = 0
  ApcMax = 0
  Requests <- SelfWokenRequests
  Mortal = {}
  NoThread = NoThread
  NoWait = NoWait
SPECIFICATION Spec
CHECK_DEADLOCK FALSE
INVARIANTS BeliefMatches
