CONSTANTS
  c1 = c1
  c2 = c2
  Conns = {c1, c2}
  Chunks <- MCChunks
  MaxFailures = 1
SPECIFICATION LiveSpec
CHECK_DEADLOCK FALSE
INVARIANTS NicReadsItsChunk ReadyMeansIdle ReleasedIsUnused
PROPERTIES EverythingEnds

