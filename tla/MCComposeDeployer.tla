------------------------- MODULE MCComposeDeployer -------------------------
(***************************************************************************)
(* Small instances of ComposeDeployer: three deployments to one server     *)
(* that starts without any; two of them are of the same revision.          *)
(***************************************************************************)
EXTENDS ComposeDeployer, TLC

CONSTANTS d1, d2, d3

MCRequests == {d1, d2, d3}
MCRevision == d1 :> "v1" @@ d2 :> "v1" @@ d3 :> "v2"
=============================================================================
