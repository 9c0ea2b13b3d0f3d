SPECIFICATION HandlersSpec
CONSTANTS
  None = None
  build = build
  deploy = deploy
  rollback = rollback
  script = script
  w1 = w1
  w2 = w2
  Tasks <- MCTasks
  Workers <- MCWorkers
  Resource <- MCResource
  MaxAttempts <- MCMaxAttempts
  RunTasks <- MCBuild
  OpTasks <- MCTasks
  DepTasks <- MCDeployments
  RollbackTasks <- MCRollback
  CanClaim <- MCCanClaim
  HandlerResults <- MCResults
  Lease = 1
  MaxDelay = 0
  MaxVersion = 2
  Batches <- MCBatches
  MaxCrashes = 1
SYMMETRY MCSymmetry
INVARIANT HandlerTypeOK
INVARIANT DeployedIsRecorded
INVARIANT LinksAgree
PROPERTY DecidedOnce
PROPERTY ArtifactKept
CHECK_DEADLOCK FALSE
