\* A recorder and a checker of two traces, with one failure and one new version.
SPECIFICATION FairSpec
CONSTANTS
  Recorders = {r1}
  Checkers = {k1}
  AllTraces <- TwoTraces
  Versions <- TwoVersions
  Selections <- ManySelections
  Percent = 100
  Slack = 3
  None = None
  Bad = Bad
  MaxModelLen = 2
  MaxCalls = 2
  MaxFailures = 1
  MaxChanges = 1
CHECK_DEADLOCK FALSE
INVARIANTS
  FilesInv
  PlansInv
  RecordedIsPlanned
PROPERTIES
  CallsEnd
