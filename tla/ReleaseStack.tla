---------------------------- MODULE ReleaseStack ----------------------------
(***************************************************************************)
(* What the deployments of an environment are to its users: a stack.  A    *)
(* deployment that succeeds is put on top of the healthy ones, a rollback  *)
(* takes the top away, and nothing below the top ever changes.             *)
(***************************************************************************)
CONSTANT Releases

VARIABLE stack  \* the releases on the stack, each with those beneath it

Members == DOMAIN stack

StackInit == stack = [d \in {} |-> {}]

Push(d) ==
  /\ d \notin Members
  /\ stack' = [e \in Members \cup {d} |-> IF e = d THEN Members ELSE stack[e]]

Pop(d) ==
  /\ d \in Members
  /\ stack[d] = Members \ {d}
  /\ stack' = [e \in Members \ {d} |-> stack[e]]

StackNext == \E d \in Releases : Push(d) \/ Pop(d)

StackSpec == StackInit /\ [][StackNext]_stack
=============================================================================
