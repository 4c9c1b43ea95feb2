CONSTANTS
  NLighthouses = 2
  Stations = {s1, s2}
  None = None
  Forced <- NotForced
SPECIFICATION Spec
INVARIANTS MapAgrees Durable CountInTable
PROPERTIES UnsavedResets PositionOfStation SlotStable
SYMMETRY Symmetry
