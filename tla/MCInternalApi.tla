--------------------------- MODULE MCInternalApi ---------------------------
(***************************************************************************)
(* A small instance of InternalApi: one ticket that two connections        *)
(* present, for two servers, or a Docker action.                           *)
(***************************************************************************)
EXTENDS InternalApi

CONSTANTS t1, s1, s2, c1, c2, q1

MCTickets == {t1}
MCServers == {s1, s2}
MCConns == {c1, c2}
MCRequests == {q1}
=============================================================================
