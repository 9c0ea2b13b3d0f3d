---------------------------- MODULE FollowedLog ----------------------------
(***************************************************************************)
(* What the log of a run promises: lines are only added at its end, and    *)
(* every reader receives them in their order, leaving none out.            *)
(***************************************************************************)
EXTENDS Naturals, Sequences

CONSTANTS Lines, Readers

VARIABLES
  log,       \* the lines
  received   \* per reader: the lines it has received

Init ==
  /\ log \in Seq(Lines)
  /\ received = [r \in Readers |-> <<>>]

Add(line) ==
  /\ log' = Append(log, line)
  /\ UNCHANGED received

\* A reader receives some more lines.
Receive(r, n) ==
  /\ n > Len(received[r])
  /\ received' = [received EXCEPT ![r] = SubSeq(log, 1, n)]
  /\ UNCHANGED log

Next ==
  \/ \E line \in Lines : Add(line)
  \/ \E r \in Readers : \E n \in 1 .. Len(log) : Receive(r, n)

Spec == Init /\ [][Next]_<<log, received>>
=============================================================================
