\* Three threads start three programs, one wait times out and one alert is stray.
SPECIFICATION FairSpec
CONSTANTS
  t1 = t1  t2 = t2  t3 = t3
  Threads <- TheThreads
  Addresses <- TheAddresses
  Programs <- ThePrograms
  NoThread = NoThread
  StartMax = 3
  TimeoutMax = 1
  StrayMax = 1
INVARIANT HandedOver
PROPERTY NobodyForgotten
CHECK_DEADLOCK FALSE
