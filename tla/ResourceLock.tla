---------------------------- MODULE ResourceLock ----------------------------
(***************************************************************************)
(* What the lease queue promises, without leases, time, rows or workers:   *)
(* a lock per resource.  A task may be granted its resource when no task   *)
(* holds it, at most MaxAttempts times, and never once it is over; a grant *)
(* can end at any time, for any reason.                                    *)
(***************************************************************************)
EXTENDS Integers

CONSTANTS
  Tasks,
  Resource,    \* the resource each task needs
  MaxAttempts  \* how often each task may be granted it

VARIABLES
  live,    \* the tasks that hold their resource
  grants,  \* how often each task was granted it
  over     \* the tasks that will never run again

lockVars == <<live, grants, over>>

LockInit ==
  /\ live = {}
  /\ grants = [t \in Tasks |-> 0]
  /\ over = {}

Grant(t) ==
  /\ t \notin over
  /\ grants[t] < MaxAttempts[t]
  /\ \A u \in live : Resource[u] # Resource[t]
  /\ live' = live \cup {t}
  /\ grants' = [grants EXCEPT ![t] = @ + 1]
  /\ UNCHANGED over

\* The tasks of T lose their resource, those of D are over.
Release(T, D) ==
  /\ D \cap live \subseteq T
  /\ live' = live \ T
  /\ over' = over \cup D
  /\ UNCHANGED grants

LockNext ==
  \/ \E t \in Tasks : Grant(t)
  \/ \E T \in SUBSET live, D \in SUBSET Tasks : Release(T, D)

LockSpec == LockInit /\ [][LockNext]_lockVars
=============================================================================
