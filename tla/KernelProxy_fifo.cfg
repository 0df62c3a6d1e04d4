SPECIFICATION LiveSpec
CONSTANTS
    Program <- MCProgram
    FifoCapacity = 1
    MaxInflight = 2
    StagingSlots = 1
    MaxTroubles = 1
INVARIANTS SignalAfterData FlushedIsRetired GateExcludesProducers
PROPERTIES EverythingEnds
