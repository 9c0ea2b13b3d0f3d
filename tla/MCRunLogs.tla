----------------------------- MODULE MCRunLogs -----------------------------
(***************************************************************************)
(* Small instances of RunLogs: the owner of the run, a Runner that has     *)
(* lost its lease, a cancel request and a reader.                          *)
(***************************************************************************)
EXTENDS RunLogs, TLC

CONSTANTS r1, r2, client

MCRunners == {r1, r2}
MCReaders == {client}
MCMaxLines == r1 :> 2 @@ r2 :> 1
=============================================================================
