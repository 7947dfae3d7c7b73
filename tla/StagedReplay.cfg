\* Three calls, in both runtime modes, with two lost connections, kills or
\* failed commands.
SPECIFICATION Spec
CONSTANTS
  Assets = {"a1"}
  RunNames = {"r1"}
  Method = "rsync"
  MaxInvocations = 3
  MaxFailures = 2
INVARIANTS
  RuntimeIsVerified
  ZeroIsReplayed
PROPERTIES
  NothingOverwritten
  RetrievedIsFinal
CHECK_DEADLOCK FALSE
