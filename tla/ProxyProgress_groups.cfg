\* The system really may stop: the host function of a group that starts after
\* an error waits for ever for operations that were retired before (README).
CONSTANTS
  Programs <- MCPrograms
SPECIFICATION LiveSpec
INVARIANTS
  StreamWaitsForGroup
PROPERTIES
  StepsInOrder
  EverythingEnds
CHECK_DEADLOCK FALSE
