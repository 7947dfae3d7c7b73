\* One trace in four versions: the first is below the limit, two and three
\* parts, and one that needs more suffixes than there are.
CONSTANTS
  Versions = {"one", "two", "three", "four"}
  Size <- Sizes
  Limit = 3
  Chunk = 2
  MaxParts = 3
  Others = TRUE
  MaxCalls = 2
  MaxFailures = 1
SPECIFICATION Spec
CHECK_DEADLOCK FALSE
INVARIANTS
  DownloadInv
  UploadIsComplete
PROPERTIES
  NothingReplaced
