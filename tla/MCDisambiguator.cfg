SPECIFICATION Spec
CONSTANTS
  o1 = o1
  o2 = o2
  Objects <- MCObjects
  Sensors = {1}
  Tick = 250
  Clock <- MCClock
  HistoryLen = 3
  Warmup = 1
  MaxConfidence = 3
  Trusted = 1
  Penalty = 2
  Decay = 2
  Second <- MCSecond
  Frames <- MCFrames
  Boots <- MCBoots
  Places = {700}
  Lengths = {4, 15}
  Strays = {50}
  MaxTurns = 28
  MaxFaults = 1
SYMMETRY Symmetry
INVARIANTS LockRight Restabilises
PROPERTIES SyncTrue AngleTrue ModeKept
CHECK_DEADLOCK FALSE
