CONSTANTS
  Tracked = {t1}
  Lighthouses = {l1}
  Externals = {x1}
  RingSize = 2
SPECIFICATION Spec
INVARIANT ShutdownIsLast
CHECK_DEADLOCK FALSE
