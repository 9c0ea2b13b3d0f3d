SPECIFICATION Spec
CONSTANTS
  None = None
  deploy1 = deploy1
  deploy2 = deploy2
  build = build
  rollback1 = rollback1
  rollback2 = rollback2
  Requests <- MCRequests
  Kind <- MCKind
  MaxAttempts <- MCMaxAttempts
  MayExpire <- MCMayExpire
  MaxCrashes = 1
SYMMETRY MCSymmetry
INVARIANT TypeOK
INVARIANT PreviousIsBelow
INVARIANT LiveIsLatest
INVARIANT ReplacesWhatWasApproved
INVARIANT OneTaskEach
PROPERTY HealthyIsStack
CHECK_DEADLOCK FALSE
