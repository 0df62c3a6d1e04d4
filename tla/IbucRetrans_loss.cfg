CONSTANTS
  N = 2
  NQps = 1
  NSlots = 2
  NChunks = 2
  Depth = 1
  SeqMod = 8
  GenMod = 4
  MaxRetry = 1
  MaxLoss = 2
SPECIFICATION LiveRetransSpec
CHECK_DEADLOCK FALSE
INVARIANTS AcknowledgedIsReceived SourceHeld
PROPERTIES CopiesHitTheirReceive CallsEnd
