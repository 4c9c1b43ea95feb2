SPECIFICATION Spec
CONSTANTS
  Short = 16384
  Epochs = 8
  Second = 46875
  Period = 1000
  MaxMissed = 1
  Lo = 980
  Hi = 1020
  SampleTicks = 250
  Codes = 256
  Starts <- MCStarts
  Skews = {3}
  Gaps = {1, 2}
  Outages = {2000, 2100}
  Lags <- MCLags
  Phases = {0, 400}
  MaxRotations = 8
  MaxFaults = 1
INVARIANTS
  
  BitPerRotation
  Resyncs
  LightMatchesImu
  MovementPast
