CONSTANTS
  ByteBits = 8
  BufBytes = 64
  IgnoreSyncErrors = FALSE
  CrcMatches <- MCCrcMatches
  SentPayload <- MCPayload
  SentCrc <- MCCrc
  MaxFrames = 2
  MaxFaults = 2
SPECIFICATION LinkSpec
INVARIANTS WordsAligned CleanFrameDelivered DeliveredOnce SkipsFilledIn
CHECK_DEADLOCK FALSE
