---------------------------- MODULE MCTaskStore ----------------------------
(***************************************************************************)
(* Small instances of TaskStore: two deployments that compete for the      *)
(* resource of their project, or an approved build with its run.  The rows *)
(* linked to a task are read and written for that task alone, so the build *)
(* has them and the deployments, which race for leases, do without.  The   *)
(* callers present any lease at any time.                                  *)
(***************************************************************************)
EXTENDS TaskStore, TLC

CONSTANTS build, deploy1, deploy2, w1, w2

MCTasks == {build, deploy1, deploy2}
MCBuild == {build}
MCNoTasks == {}
MCBatches == {{deploy1, deploy2}, {build}}
MCWorkers == {w1, w2}
MCResource == [t \in Tasks |-> "project"]
MCMaxAttempts == [t \in Tasks |-> IF t = deploy1 THEN 1 ELSE 2]
MCCanClaim == Workers \X Tasks
MCSymmetry == Permutations(MCWorkers)
=============================================================================
