--------------------------- MODULE MCLeaseRunner ---------------------------
(***************************************************************************)
(* Small instances of LeaseRunner: two runners and a build, which may be   *)
(* attempted twice.                                                        *)
(***************************************************************************)
EXTENDS LeaseRunner, TLC

CONSTANTS build, w1, w2

MCBuild == {build}
MCNone == {}
MCBatches == {Tasks}
MCWorkers == {w1, w2}
MCResource == [t \in Tasks |-> "project"]
MCMaxAttempts == [t \in Tasks |-> 2]
MCCanClaim == Workers \X Tasks
MCResults == {"succeeded", "failed", "retry"}
MCSymmetry == Permutations(MCWorkers)
=============================================================================
