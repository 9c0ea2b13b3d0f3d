----------------------------- MODULE MCReleases -----------------------------
(***************************************************************************)
(* Two deployments, a build and two rollbacks of one environment; a crash  *)
(* is the end of some tasks and not of others.                             *)
(***************************************************************************)
EXTENDS Releases

CONSTANTS deploy1, deploy2, build, rollback1, rollback2

MCRequests == {deploy1, deploy2, build, rollback1, rollback2}
MCKind == [r \in Requests |->
             CASE r \in {deploy1, deploy2} -> "deploy"
               [] r = build -> "build"
               [] OTHER -> "rollback"]
MCMayExpire == {rollback1}
MCMaxAttempts == [r \in Requests |-> IF r \in {build, rollback1} THEN 1 ELSE 2]
MCSymmetry == Permutations({deploy1, deploy2})
=============================================================================
