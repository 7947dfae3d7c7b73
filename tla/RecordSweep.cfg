\* Two recordings, by a script or alone, with one failure or interrupt.
CONSTANTS
  Files <- AllFiles
  Sections <- AllSections
  Settings <- AllSettings
  None = None
  Names <- AllNames
  Traces <- BothTraces
  Defaults <- TheDefaults
  Options <- SomeOptions
  Mountpoint <- Mount
  Cwd <- WorkDir
  Home <- HomeDir
  Links <- TwoLinks
  Disk <- OneDisk
  MaxRuns = 2
  MaxFailures = 1
  Calls <- SomeCalls
  ConfigOf <- Configs
  L2Name <- CaseNames
  OutputRoot <- Output
  MaxCalls = 2
SPECIFICATION MCSpec
CHECK_DEADLOCK FALSE
INVARIANTS
  SettingsInv
  CasesInv
PROPERTIES
  RemovesSafely
  OnlyOwnBlocks
