CONSTANTS
  StepsOf <- Steps31
  BaseOf <- Bases03
  Chunks = 2
  MayFail = TRUE
SPECIFICATION LivePipelineSpec
PROPERTIES
  ImplementsTransfer
  TransfersEnd
