--------------------------- MODULE MCMetricsQueue ---------------------------
(***************************************************************************)
(* A small instance of MetricsQueue: two Runners, a server that answers    *)
(* and one that does not, and a window of one candidate.                   *)
(***************************************************************************)
EXTENDS MetricsQueue

CONSTANTS s1, s2

MCRunners == {"r1", "r2"}
MCServers == {s1, s2}
MCDead == {s1}
=============================================================================
