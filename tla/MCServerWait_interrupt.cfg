CONSTANTS
  t1 = t1
  t2 = t2
  t3 = t3
  e1 = e1
  e2 = e2
  m1 = m1
  m2 = m2
  s1 = s1
  Threads = {t1, t2}
  AutoEvents = {}
  ManualEvents = {}
  Mutexes = {m1}
  Semaphores = {s1}
  SemMax = 1
  CountMax = 1
  SuspendMax = 1
  ApcMax = 1
  Requests <- InterruptRequests
  Mortal = {t1, t2}
  NoThread = NoThread
  NoWait = NoWait
SPECIFICATION FairSpec
CHECK_DEADLOCK FALSE
INVARIANTS BeliefMatches NoLostWakeup NoMissedApc
PROPERTIES ServerReturns TimedWaitEnds TerminationSignaled
