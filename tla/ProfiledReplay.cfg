SPECIFICATION FairSpec
CONSTANTS
  Nodes = {n1, n2}
  CleanupOnSuccess = TRUE
  MaxFaults = 1
  MaxNotices = 1
  MaxInterrupts = 1
INVARIANTS
  ReplayIsMeasured
  ExitZeroIsProfiled
PROPERTIES
  RemovedIsCollected
  RunReturns
CHECK_DEADLOCK FALSE
