\* Bootstrap: three ranks.  Pool: one registration, two control threads, one
\* failing pthread_join.  Teardown: two ranks, failures and timeouts.
CONSTANTS
  N = 3
  Programs <- MCPrograms
  NoOne = NoOne
  Worker = {w1}
  Caller = {c1, c2}
  MaxWork = 1
  MaxJoinFailures = 1
  Rank = {1, 2}
  Conn <- Pair
  NoConn = NoConn
  MayFail = TRUE
  MayTimeOut = TRUE
SPECIFICATION LifecycleSpec
INVARIANTS
  ResultsAreRight
  BarrierHolds
  ThreadIsRegistered
  SuccessRetiresWork
  NoUseAfterFree
  SuccessMeansClean
PROPERTIES
  CollectivesReturn
  JoinAllQuiesces
  CallsReturn
  TeardownEnds
