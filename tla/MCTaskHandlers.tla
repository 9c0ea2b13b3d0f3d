--------------------------- MODULE MCTaskHandlers ---------------------------
(***************************************************************************)
(* A small instance of TaskHandlers: two runners, and one of an approved   *)
(* build, a deployment, a rollback and a script.                           *)
(***************************************************************************)
EXTENDS TaskHandlers, TLC

CONSTANTS build, deploy, rollback, script, w1, w2

MCTasks == {build, deploy, rollback, script}
MCBuild == {build}
MCDeployments == {deploy, rollback}
MCRollback == {rollback}
MCBatches == {{t} : t \in Tasks}
MCWorkers == {w1, w2}
MCResource == [t \in Tasks |-> IF t = script THEN "server" ELSE "project"]
MCMaxAttempts == [t \in Tasks |-> IF t = script THEN 1 ELSE 2]
MCCanClaim == Workers \X Tasks
MCResults == {"succeeded", "failed"}
MCSymmetry == Permutations(Workers)
=============================================================================
