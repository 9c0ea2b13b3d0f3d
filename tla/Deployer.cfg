SPECIFICATION DeployerSpec
CONSTANTS
  None = None
  d1 = d1
  d2 = d2
  d3 = d3
  Requests <- MCRequests
  Revision <- MCRevision
  MaxDeploys = 5
INVARIANT DeployerTypeOK
INVARIANT QuietIsWhole
INVARIANT UndoIsWhole
INVARIANT AnswerIsTrue
CHECK_DEADLOCK FALSE
