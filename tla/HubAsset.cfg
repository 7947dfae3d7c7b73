\* Two uploaders and one node that downloads.
CONSTANTS
  Uploaders = {u1, u2}
  Downloaders = {d1}
  HubVersions = {v1, v2}
  MaxHubCalls = 2
  MaxHubFailures = 2
SPECIFICATION HubSpec
CHECK_DEADLOCK FALSE
INVARIANTS
  DatasetInv
  ExistingIsKept
