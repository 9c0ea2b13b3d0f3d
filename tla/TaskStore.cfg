SPECIFICATION Spec
CONSTANTS
  None = None
  build = build
  deploy1 = deploy1
  deploy2 = deploy2
  w1 = w1
  w2 = w2
  Tasks <- MCTasks
  Workers <- MCWorkers
  Resource <- MCResource
  MaxAttempts <- MCMaxAttempts
  RunTasks <- MCBuild
  OpTasks <- MCBuild
  DepTasks <- MCNoTasks
  RollbackTasks <- MCNoTasks
  CanClaim <- MCCanClaim
  Lease = 2
  MaxDelay = 1
  MaxVersion = 3
  Batches <- MCBatches
SYMMETRY MCSymmetry
INVARIANT TypeOK
INVARIANT ExclusiveLease
PROPERTY LeaseIsLock
PROPERTY TerminalIsFinal
CHECK_DEADLOCK FALSE
