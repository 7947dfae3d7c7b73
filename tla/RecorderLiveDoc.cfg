SPECIFICATION Spec

CONSTANTS
  HasWorkers = {"vllm"}
  Unkillable = {"vllm"}
  StalePorts = {}
  RecorderMayDie = FALSE
  MaxInterrupts = 0

INVARIANTS
  AlwaysStopsBothGroups

CHECK_DEADLOCK FALSE
