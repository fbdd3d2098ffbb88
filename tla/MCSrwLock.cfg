CONSTANTS
  Threads = {t1, t2, t3}
  Addresses = {"word", "owners"}
SPECIFICATION FairSpec
INVARIANTS MutualExclusion WordCounts ExclusiveWakeDue SharedWakeDue
PROPERTIES ImplementsRwLock WantedIsTaken ReadersServed
