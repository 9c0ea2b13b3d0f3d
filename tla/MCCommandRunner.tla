-------------------------- MODULE MCCommandRunner --------------------------
(***************************************************************************)
(* Small instances of CommandRunner: a command that prints a secret, or    *)
(* part of it, which contains another one, and a secret that is a star.    *)
(***************************************************************************)
EXTENDS CommandRunner

CONSTANTS out, err

MCStreams == {out, err}
MCSecrets == {<<"a", "b", "c">>, <<"b">>, <<Star>>}
MCBytes == {"a", "b", "c", Star}
MCStage == <<Star>>
MCScripts == {[d \in MCStreams |-> IF d = out THEN <<"a", "b", "c">> ELSE <<"b">>]}
=============================================================================
