SPECIFICATION Spec
CONSTANTS
  b = b
  h = h
  w = w
  i1 = i1
  i2 = i2
  Devices = {b, h, w}
  Boards = {b}
  Headsets = {h}
  HmdClass = {h}
  Infos = {i1, i2}
  MaxPlugs = 3
  Codename <- MCCodename
  Endpoints <- MCEndpoints
INVARIANTS
  CountExact
  FreedWhenQuiet
  ObjectsLive
  PacketsExist
PROPERTY CloseEnds
CHECK_DEADLOCK FALSE
