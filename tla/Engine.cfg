SPECIFICATION FairEngineSpec
CONSTANTS
  None = None
  build = build
  w1 = w1
  w2 = w2
  Tasks <- MCBuild
  Workers <- MCWorkers
  Resource <- MCResource
  MaxAttempts <- MCMaxAttempts
  RunTasks <- MCBuild
  OpTasks <- MCNone
  DepTasks <- MCNone
  RollbackTasks <- MCNone
  CanClaim <- MCCanClaim
  HandlerResults <- MCResults
  Lease = 1
  MaxDelay = 0
  MaxVersion = 5
  Batches <- MCBatches
  MaxCrashes = 1
INVARIANT RunnerTypeOK
INVARIANT StartsBounded
INVARIANT SuccessFromCurrentAttempt
INVARIANT RunFollowsTask
PROPERTY EventuallySettled
CHECK_DEADLOCK FALSE
