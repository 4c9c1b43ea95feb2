CONSTANTS
  Tracked = {t1}
  Lighthouses = {l1}
  Externals = {x1}
  RingSize = 2
SPECIFICATION FairSpec
INVARIANTS MutexBalanced NoUpdateLost ShutdownAfterThread
PROPERTIES ImplementsQueue ShutdownReported
CHECK_DEADLOCK FALSE
