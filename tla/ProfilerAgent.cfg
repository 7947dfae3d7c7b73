SPECIFICATION FairSpec
CONSTANTS
  Devices = {"nvme0n1", "bond0"}
  ReportInterval = 2
  MaxGap = 2
  MaxSamples = 2
  MaxTraffic = 2
  MaxClockSteps = 1
INVARIANTS
  IntervalsAddUp
  RowsCoverRun
PROPERTIES
  ImplementsLifecycle
  AgentEnds
CHECK_DEADLOCK FALSE
