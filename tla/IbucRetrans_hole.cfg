CONSTANTS
  N = 1
  NQps = 1
  NSlots = 1
  NChunks = 1
  Depth = 1
  SeqMod = 4
  GenMod = 3
  MaxRetry = 1
  MaxLoss = 1
SPECIFICATION RetransSpec
CHECK_DEADLOCK FALSE
INVARIANT ReceivedIsIntact
