CONSTANTS
  Objects = {w1}
  NButtons = 0
  NAxes = 2
  AxisMax = 1
  QLen = 3
SPECIFICATION FairSpec
INVARIANTS SemaphoreCountsEvents ServicerSurvives HookExcludesHandlers
PROPERTIES ImplementsFifo EventsServed
CHECK_DEADLOCK FALSE
