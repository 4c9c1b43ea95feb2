CONSTANTS
  Objects = {w1}
  NButtons = 1
  NAxes = 1
  AxisMax = 1
  QLen = 3
SPECIFICATION FairSpec
PROPERTY CloseCompletes
CHECK_DEADLOCK FALSE
