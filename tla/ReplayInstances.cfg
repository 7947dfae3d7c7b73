SPECIFICATION FairSpec
CONSTANTS
  Instances = {i0, i1}
  KeepL2 = FALSE
  MaxRuns = 2
  MaxInterrupts = 1
  MaxFailures = 1
INVARIANTS
  ZeroMeansAll
  SummaryIsHonest
  NoneLeft
  FirstRunIsCold
PROPERTIES
  FailureEndsRun
CHECK_DEADLOCK FALSE
