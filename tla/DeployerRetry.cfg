SPECIFICATION DeployerSpec
CONSTANTS
  None = None
  d1 = d1
  d2 = d2
  d3 = d3
  Requests <- MCRequests
  Revision <- MCRevision
  MaxDeploys = 5
INVARIANT PendingTells
CHECK_DEADLOCK FALSE
