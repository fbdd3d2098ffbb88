CONSTANTS
  t1 = t1
  t2 = t2
  t3 = t3
  e1 = e1
  e2 = e2
  m1 = m1
  m2 = m2
  s1 = s1
  Threads = {t1, t2, t3}
  AutoEvents = {e1}
  ManualEvents = {e2}
  Mutexes = {m1, m2}
  Semaphores = {}
  SemMax = 1
  CountMax = 2
  SuspendMax = 0
  ApcMax = 0
  Requests <- CoreRequests
  Mortal = {t1, t2, t3}
  NoThread = NoThread
  NoWait = NoWait
SYMMETRY Symmetry3
SPECIFICATION Spec
CHECK_DEADLOCK FALSE
INVARIANTS QueueConsistent MutexConsistent BeliefMatches NoLostWakeup
PROPERTIES FifoGrants AbandonmentsTold
