\* One dongle that times out once.
SPECIFICATION Spec
CONSTANTS
  b = b
  h = h
  w = w
  i1 = i1
  i2 = i2
  Devices = {w}
  Boards = {}
  Headsets = {}
  HmdClass = {}
  Infos = {i1}
  MaxPlugs = 1
  Codename <- MCCodename
  Endpoints <- MCEndpoints
PROPERTY SilenceNoticed
CHECK_DEADLOCK FALSE
