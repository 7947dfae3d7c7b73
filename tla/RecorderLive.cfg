SPECIFICATION FairSpec
CONSTANTS
  HasWorkers = {"vllm"}
  Unkillable = {"vllm", "lmcache"}
  StalePorts = {"lmcache", "vllm"}
  RecorderMayDie = TRUE
  MaxInterrupts = 2
INVARIANTS
  NoStoreDuringFlush
  ManifestFollowsStop
  ManifestTraceIsFinal
  ReturnMeansRecorded
PROPERTIES
  RunEnds
  GroupsEnd
CHECK_DEADLOCK FALSE
