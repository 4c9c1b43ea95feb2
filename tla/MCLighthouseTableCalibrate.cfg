CONSTANTS
  NLighthouses = 2
  Stations = {s1, s2}
  None = None
  Forced <- NotForced
SPECIFICATION Spec
PROPERTIES AllCleared
