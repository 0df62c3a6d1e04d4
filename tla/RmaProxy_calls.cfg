CONSTANTS
  Program <- MCProgram
  NPeers = 1
  QueueSize = 2
  BatchMax = 2
  MaxFailures = 1
  MaxSeq = 7
SPECIFICATION LiveSpec
INVARIANTS
  SignalAfterData
  NoLiveRequestBehindWaiter
  GetVisibleWhenDone
PROPERTIES
  CallsReturn
