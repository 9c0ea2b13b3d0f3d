---------------------------- MODULE QueueProofs ----------------------------
(***************************************************************************)
(* Proofs about TaskStore, LeaseRunner and TaskHandlers: the task queue,   *)
(* the engine that works it off and the handlers that the engine runs, for *)
(* any number of tasks, workers, attempts and crashes and any lease.  The  *)
(* first part is about the transactions of the store, whoever calls them   *)
(* (Spec); the second is about the engine (EngineSpec) and any handler;    *)
(* the third is about the handlers of the Runner (HandlersSpec).  What a   *)
(* handler writes is safe only while it is alone with its task, which it   *)
(* is until the lease of the task is passed on under it.                   *)
(***************************************************************************)
EXTENDS TaskHandlers, FiniteSetTheorems, TLAPS

-----------------------------------------------------------------------------
(* Type correctness.                                                       *)

\* The initial rows have their types: the database starts without tasks.
LEMMA InitTypeOK == Init => TypeOK
  BY StoreAssumption
  DEF Init, TypeOK, TaskState, RunStatus, OpState, DepStatus, Candidate,
      StoreAssumption

\* The transactions that no worker makes keep the types.
LEMMA ApiTypeOK ==
  ASSUME TypeOK, NEW t \in Tasks,
         Enqueue(t) \/ CancelRead(t) \/ CancelWrite(t) \/ HandlerWrite(t)
  PROVE  TypeOK'
<1> USE StoreAssumption DEF TypeOK, StoreAssumption, taskVars, linkVars
<1>1. CASE Enqueue(t)
  BY <1>1 DEF Enqueue, TaskState, RunStatus, OpenRun, OpState, OpenOp,
              DepStatus, OpenDep
<1>2. CASE CancelRead(t)
  BY <1>2 DEF CancelRead
<1>3. CASE CancelWrite(t)
  BY <1>3 DEF CancelWrite, TaskState, TerminalTask, RunStatus
<1>4. CASE HandlerWrite(t)
  BY <1>4 DEF HandlerWrite, BindDeployment, SetOperationState,
              SetDeploymentStatus, OpState, OpenOp, DepStatus, OpenDep
<1> QED BY <1>1, <1>2, <1>3, <1>4

\* The steps of a claim keep the types.
LEMMA ClaimTypeOK ==
  ASSUME TypeOK, NEW w \in Workers,
         \/ \E t \in Tasks : SelectCandidate(w, t)
         \/ ClaimCandidate(w)
         \/ SkipCandidate(w)
         \/ AbortClaim(w)
  PROVE  TypeOK'
<1> USE StoreAssumption DEF TypeOK, StoreAssumption, taskVars, linkVars
<1>1. CASE \E t \in Tasks : SelectCandidate(w, t)
  BY <1>1 DEF SelectCandidate, Candidate, Delays
<1>2. CASE ClaimCandidate(w)
  BY <1>2 DEF ClaimCandidate, Candidate, Delays, TaskState
<1>3. CASE SkipCandidate(w) \/ AbortClaim(w)
  BY <1>3 DEF SkipCandidate, AbortClaim
<1> QED BY <1>1, <1>2, <1>3

\* The operations of a lease's owner keep the types: in particular a lease is
\* never longer than lease_seconds.
LEMMA OwnerTypeOK ==
  ASSUME TypeOK, NEW w \in Workers, NEW t \in Tasks, NEW v \in Nat,
         NEW d \in Delays, OwnerStep(w, t, v, d)
  PROVE  TypeOK'
<1> USE StoreAssumption DEF TypeOK, StoreAssumption, taskVars, linkVars
<1>1. CASE MarkRunning(w, t, v, d)
  BY <1>1 DEF MarkRunning, TaskState, RunStatus, OpenRun, OpState, OpenOp
<1>2. CASE Heartbeat(w, t, v, d)
  BY <1>2 DEF Heartbeat, Delays
<1>3. ASSUME NEW s \in TerminalTask, Finish(w, t, v, d, s)
      PROVE  TypeOK'
  BY <1>3 DEF Finish, TaskState, TerminalTask, RunStatus, OpenRun, OpState,
              OpenOp, DepStatus, OpenDep
<1>4. CASE Retry(w, t, v, d)
  BY <1>4 DEF Retry, TaskState, RunStatus, OpenRun
<1> QED BY <1>1, <1>2, <1>3, <1>4 DEF OwnerStep

\* The recovery of expired leases keeps the types.
LEMMA RecoverTypeOK ==
  ASSUME TypeOK, NEW d \in Delays, RecoverExpired(d)
  PROVE  TypeOK'
<1> USE StoreAssumption DEF TypeOK, StoreAssumption, RecoverExpired
<1>1. /\ state' \in [Tasks -> TaskState]
      /\ leasedBy' \in [Tasks -> Workers \cup {None}]
      /\ runLeasedBy' \in [Tasks -> Workers \cup {None}]
  BY DEF TaskState, TerminalTask
<1>2. ttl' \in [Tasks -> (-(MaxDelay + 1))..Lease]
  OBVIOUS
<1>3. attempts' \in [Tasks -> Nat] /\ version' \in [Tasks -> Nat]
  OBVIOUS
<1>4. runStatus' \in [Tasks -> RunStatus]
  BY DEF RecoveredRun, RunStatus, OpenRun, TerminalTask
<1>5. opState' \in [Tasks -> OpState]
  BY DEF RecoveredOp, OpState, OpenOp
<1>6. depStatus' \in [Tasks -> DepStatus]
  BY DEF RecoveredDep, DepStatus, OpenDep
<1> QED BY <1>1, <1>2, <1>3, <1>4, <1>5, <1>6

\* The clock keeps the types: an expired lease is not counted down for ever.
LEMMA TickTypeOK ==
  ASSUME TypeOK, Tick
  PROVE  TypeOK'
<1> USE StoreAssumption DEF TypeOK, StoreAssumption, Tick, linkVars
<1>1. ttl' \in [Tasks -> (-(MaxDelay + 1))..Lease]
  OBVIOUS
<1>2. candidate' \in [Workers -> Candidate \cup {None}]
  BY DEF Candidate, Delays
<1> QED BY <1>1, <1>2

\* Every transaction keeps the types.
LEMMA TypeStep ==
  ASSUME TypeOK, [Next]_storeVars
  PROVE  TypeOK'
<1>1. CASE UNCHANGED storeVars
  BY <1>1 DEF TypeOK, storeVars, taskVars, linkVars
<1>2. ASSUME NEW w \in Workers, NEW t \in Tasks, NEW d \in Delays,
             OwnerStep(w, t, version[t], d)
      PROVE  TypeOK'
  <2>1. version[t] \in Nat
    BY DEF TypeOK
  <2> QED BY <1>2, <2>1, OwnerTypeOK
<1> QED BY <1>1, <1>2, ApiTypeOK, ClaimTypeOK, RecoverTypeOK, TickTypeOK DEF Next

\* Every row always has a legal value (the columns' types and their ranges).
THEOREM TypeCorrect == Spec => []TypeOK
<1>1. TypeOK /\ [Next]_storeVars => TypeOK'
  BY TypeStep
<1> QED BY InitTypeOK, <1>1, PTL DEF Spec

-----------------------------------------------------------------------------
(* The number of attempts.                                                 *)

\* Why the claiming UPDATE need not look at max_attempts: as long as the
\* version it selected is the row's, the row has an attempt left.
CandidateInv ==
  \A w \in Workers :
    candidate[w] # None =>
      LET c == candidate[w]
      IN /\ c.version <= version[c.task]
         /\ c.version = version[c.task] => attempts[c.task] < MaxAttempts[c.task]

AttemptsInv == TypeOK /\ CandidateInv /\ AttemptsBounded

\* A version never goes back, attempts do not change without it, and only a
\* claim changes them.
LEMMA VersionGuardsAttempts ==
  ASSUME TypeOK, [Next]_storeVars, NEW t \in Tasks
  PROVE  /\ version'[t] >= version[t]
         /\ version'[t] = version[t] => attempts'[t] = attempts[t]
         /\ attempts' = attempts \/ \E w \in Workers : ClaimCandidate(w)
<1> DEFINE Kept == version'[t] >= version[t] /\ attempts' = attempts
<1> USE DEF TypeOK
<1>1. ASSUME UNCHANGED storeVars \/ Tick PROVE Kept
  BY <1>1 DEF storeVars, taskVars, Tick
<1>2. ASSUME \E u \in Tasks :
               Enqueue(u) \/ CancelRead(u) \/ CancelWrite(u) \/ HandlerWrite(u)
      PROVE  Kept
  <2> PICK u \in Tasks :
             Enqueue(u) \/ CancelRead(u) \/ CancelWrite(u) \/ HandlerWrite(u)
    BY <1>2
  <2>1. CASE Enqueue(u) \/ CancelRead(u) \/ CancelWrite(u)
    BY <2>1 DEF Enqueue, CancelRead, CancelWrite, taskVars
  <2>2. CASE HandlerWrite(u)
    BY <2>2 DEF HandlerWrite, BindDeployment, SetOperationState,
                SetDeploymentStatus, taskVars
  <2> QED BY <2>1, <2>2
<1>3. ASSUME \E w \in Workers : \/ \E u \in Tasks : SelectCandidate(w, u)
                                \/ SkipCandidate(w)
                                \/ AbortClaim(w)
      PROVE  Kept
  <2>1. version' = version /\ attempts' = attempts
    BY <1>3 DEF SelectCandidate, SkipCandidate, AbortClaim, taskVars
  <2> QED BY <2>1
<1>4. ASSUME \E w \in Workers : ClaimCandidate(w)
      PROVE  /\ version'[t] >= version[t]
             /\ version'[t] = version[t] => attempts'[t] = attempts[t]
  BY <1>4 DEF ClaimCandidate, Candidate
<1>5. ASSUME \E w \in Workers, u \in Tasks, d \in Delays :
               OwnerStep(w, u, version[u], d)
      PROVE  Kept
  BY <1>5 DEF OwnerStep, MarkRunning, Heartbeat, Finish, Retry
<1>6. ASSUME \E d \in Delays : RecoverExpired(d) PROVE Kept
  BY <1>6 DEF RecoverExpired
<1>7. Kept \/ \E w \in Workers : ClaimCandidate(w)
  <2> HIDE DEF Kept
  <2> QED BY <1>1, <1>2, <1>3, <1>5, <1>6 DEF Next
<1> QED BY <1>4, <1>7

\* What a worker has selected either is what it was, or was selected just now,
\* or only grew older.
LEMMA CandidateChange ==
  ASSUME TypeOK, [Next]_storeVars, NEW w \in Workers, candidate'[w] # None
  PROVE  \/ /\ candidate[w] # None
            /\ candidate'[w].task = candidate[w].task
            /\ candidate'[w].version = candidate[w].version
         \/ \E t \in Tasks : /\ candidate'[w].task = t
                            /\ candidate'[w].version = version[t]
                            /\ attempts[t] < MaxAttempts[t]
                            /\ UNCHANGED <<version, attempts>>
<1> USE DEF TypeOK
<1>1. candidate'[w] = candidate[w] =>
        /\ candidate[w] # None
        /\ candidate'[w].task = candidate[w].task
        /\ candidate'[w].version = candidate[w].version
  OBVIOUS
<1>2. ASSUME NEW v \in Workers, NEW t \in Tasks, SelectCandidate(v, t)
      PROVE  \/ candidate'[w] = candidate[w]
             \/ /\ candidate'[w].task = t
                /\ candidate'[w].version = version[t]
                /\ attempts[t] < MaxAttempts[t]
                /\ UNCHANGED <<version, attempts>>
  BY <1>2 DEF SelectCandidate, Retryable, taskVars
<1>3. ASSUME NEW v \in Workers,
             ClaimCandidate(v) \/ SkipCandidate(v) \/ AbortClaim(v)
      PROVE  candidate'[w] = candidate[w]
  BY <1>3 DEF ClaimCandidate, SkipCandidate, AbortClaim
<1>4. CASE Tick
  <2>1. candidate[w] # None /\ candidate'[w] = [candidate[w] EXCEPT !.age = @ + 1]
    BY <1>4 DEF Tick
  <2> QED BY <2>1 DEF Candidate
<1>5. CASE \/ UNCHANGED storeVars
           \/ \E t \in Tasks : Enqueue(t) \/ CancelRead(t) \/ CancelWrite(t)
           \/ \E t \in Tasks : HandlerWrite(t)
           \/ \E u \in Workers, t \in Tasks, d \in Delays :
                OwnerStep(u, t, version[t], d)
           \/ \E d \in Delays : RecoverExpired(d)
  <2>1. candidate' = candidate
    <3>1. CASE UNCHANGED storeVars
      BY <3>1 DEF storeVars
    <3>2. ASSUME NEW t \in Tasks,
                 Enqueue(t) \/ CancelRead(t) \/ CancelWrite(t) \/ HandlerWrite(t)
          PROVE  candidate' = candidate
      BY <3>2 DEF Enqueue, CancelRead, CancelWrite, HandlerWrite, BindDeployment,
         SetOperationState, SetDeploymentStatus
    <3>3. ASSUME NEW u \in Workers, NEW t \in Tasks, NEW d \in Delays,
                 OwnerStep(u, t, version[t], d)
          PROVE  candidate' = candidate
      BY <3>3 DEF OwnerStep, MarkRunning, Heartbeat, Finish, Retry
    <3>4. ASSUME NEW d \in Delays, RecoverExpired(d) PROVE candidate' = candidate
      BY <3>4 DEF RecoverExpired
    <3> QED BY <1>5, <3>1, <3>2, <3>3, <3>4
  <2> QED BY <1>1, <2>1
<1>6. CASE \E v \in Workers, t \in Tasks : SelectCandidate(v, t)
  BY <1>1, <1>2, <1>6
<1>7. CASE \E v \in Workers :
             ClaimCandidate(v) \/ SkipCandidate(v) \/ AbortClaim(v)
  BY <1>1, <1>3, <1>7
<1> QED BY <1>4, <1>5, <1>6, <1>7 DEF Next

\* A selection stays sound while other transactions commit.
LEMMA CandidateInvStep ==
  ASSUME TypeOK, TypeOK', CandidateInv, [Next]_storeVars
  PROVE  CandidateInv'
<1> SUFFICES ASSUME NEW w \in Workers, candidate'[w] # None
             PROVE  /\ candidate'[w].version <= version'[candidate'[w].task]
                    /\ candidate'[w].version = version'[candidate'[w].task]
                         => attempts'[candidate'[w].task]
                              < MaxAttempts[candidate'[w].task]
  BY DEF CandidateInv
<1>1. CASE /\ candidate[w] # None
           /\ candidate'[w].task = candidate[w].task
           /\ candidate'[w].version = candidate[w].version
  <2> DEFINE t == candidate[w].task
  <2>1. t \in Tasks /\ candidate[w].version \in Nat
    BY <1>1 DEF TypeOK, Candidate
  <2>2. /\ candidate[w].version <= version[t]
        /\ candidate[w].version = version[t] => attempts[t] < MaxAttempts[t]
    BY <1>1 DEF CandidateInv
  <2>3. /\ version'[t] >= version[t]
        /\ version'[t] = version[t] => attempts'[t] = attempts[t]
    BY <2>1, VersionGuardsAttempts
  <2>4. version[t] \in Nat /\ version'[t] \in Nat
    BY <2>1 DEF TypeOK
  <2> QED BY <1>1, <2>1, <2>2, <2>3, <2>4
<1>2. CASE \E t \in Tasks : /\ candidate'[w].task = t
                           /\ candidate'[w].version = version[t]
                           /\ attempts[t] < MaxAttempts[t]
                           /\ UNCHANGED <<version, attempts>>
  BY <1>2 DEF TypeOK
<1> QED BY <1>1, <1>2, CandidateChange

\* The bound itself: only a claim raises attempts, and only of the row it
\* selected.
LEMMA AttemptsBoundedStep ==
  ASSUME TypeOK, CandidateInv, AttemptsBounded, [Next]_storeVars
  PROVE  AttemptsBounded'
<1> SUFFICES ASSUME NEW t \in Tasks PROVE attempts'[t] <= MaxAttempts[t]
  BY DEF AttemptsBounded
<1> USE StoreAssumption DEF TypeOK, StoreAssumption
<1>1. CASE \E w \in Workers : ClaimCandidate(w)
  <2>1. PICK w \in Workers : ClaimCandidate(w)
    BY <1>1
  <2> DEFINE u == candidate[w].task
  <2>2. u \in Tasks /\ attempts' = [attempts EXCEPT ![u] = @ + 1]
    BY <2>1 DEF ClaimCandidate, Candidate
  <2>3. attempts[u] < MaxAttempts[u]
    BY <2>1 DEF ClaimCandidate, Claimable, CandidateInv
  <2> QED BY <2>2, <2>3 DEF AttemptsBounded
<1>2. CASE ~ \E w \in Workers : ClaimCandidate(w)
  <2>1. attempts' = attempts
    BY <1>2, VersionGuardsAttempts
  <2> QED BY <2>1 DEF AttemptsBounded
<1> QED BY <1>1, <1>2

\* The inductive invariant behind the bound on attempts.
THEOREM AttemptsInvariant == Spec => []AttemptsInv
<1>1. Init => AttemptsInv
  BY InitTypeOK, StoreAssumption
  DEF AttemptsInv, CandidateInv, AttemptsBounded, Init, StoreAssumption
<1>2. AttemptsInv /\ TypeOK' /\ [Next]_storeVars => AttemptsInv'
  BY CandidateInvStep, AttemptsBoundedStep DEF AttemptsInv
<1> QED BY <1>1, <1>2, TypeCorrect, PTL DEF Spec

\* No task is claimed more than max_attempts times (lease_next), although the
\* UPDATE that claims does not look at max_attempts.
THEOREM AttemptsAreBounded == Spec => []AttemptsBounded
<1>1. AttemptsInv => AttemptsBounded
  BY DEF AttemptsInv
<1> QED BY <1>1, AttemptsInvariant, PTL
-----------------------------------------------------------------------------
(* Finished tasks.                                                         *)

\* What TerminalIsFinal says of one step and one task.
StaysOver(t) ==
  state[t] \in TerminalTask =>
    /\ state'[t] = state[t]
    /\ leasedBy'[t] = leasedBy[t]
    /\ version'[t] = version[t]

\* No transaction touches a finished row.
LEMMA StaysOverStep ==
  ASSUME TypeOK, [Next]_storeVars, NEW t \in Tasks
  PROVE  StaysOver(t)
<1> USE DEF TypeOK, StaysOver, TerminalTask, Held, taskVars
<1>1. CASE UNCHANGED storeVars \/ Tick
  BY <1>1 DEF storeVars, Tick
<1>2. ASSUME NEW u \in Tasks, Enqueue(u) \/ CancelRead(u) \/ CancelWrite(u)
      PROVE  StaysOver(t)
  BY <1>2 DEF Enqueue, CancelRead, CancelWrite, CancelledTask
<1>3. ASSUME NEW u \in Tasks, HandlerWrite(u)
      PROVE  StaysOver(t)
  BY <1>3 DEF HandlerWrite, BindDeployment, SetOperationState,
              SetDeploymentStatus
<1>4. ASSUME NEW w \in Workers,
             \/ \E u \in Tasks : SelectCandidate(w, u)
             \/ SkipCandidate(w)
             \/ AbortClaim(w)
      PROVE  StaysOver(t)
  <2>1. UNCHANGED taskVars
    BY <1>4 DEF SelectCandidate, SkipCandidate, AbortClaim
  <2> QED BY <2>1
<1>5. ASSUME NEW w \in Workers, ClaimCandidate(w)
      PROVE  StaysOver(t)
  BY <1>5 DEF ClaimCandidate, Claimable, Runnable, Candidate
<1>6. ASSUME NEW w \in Workers, NEW u \in Tasks, NEW d \in Delays,
             OwnerStep(w, u, version[u], d)
      PROVE  StaysOver(t)
  BY <1>6 DEF OwnerStep, MarkRunning, Heartbeat, Finish, Retry
<1>7. ASSUME NEW d \in Delays, RecoverExpired(d)
      PROVE  StaysOver(t)
  BY <1>7 DEF RecoverExpired, Expired
<1> HIDE DEF StaysOver
<1> QED BY <1>1, <1>2, <1>3, <1>4, <1>5, <1>6, <1>7 DEF Next

\* A row that is over stays over (engine.py and the API may write it at any
\* time): every UPDATE of runner_tasks names the states it starts from.
THEOREM FinishedTasksAreFinal == Spec => TerminalIsFinal
<1>1. ASSUME TypeOK, [Next]_storeVars
      PROVE  [\A t \in Tasks :
                state[t] \in TerminalTask =>
                  /\ state'[t] = state[t]
                  /\ leasedBy'[t] = leasedBy[t]
                  /\ version'[t] = version[t]]_storeVars
  BY <1>1, StaysOverStep DEF StaysOver
<1> QED BY <1>1, TypeCorrect, PTL DEF Spec, TerminalIsFinal

-----------------------------------------------------------------------------
(* The queue is a lock per resource.  A lease that a heartbeat with an old *)
(* `now` has revived is not counted as one until its task is claimed anew. *)

\* What every step but a claim does to the lock: leases may end, tasks may be
\* finished, nothing is granted.
Shrinks ==
  /\ Live' \subseteq Live
  /\ \A t \in Tasks : state[t] \in TerminalTask => state'[t] \in TerminalTask
  /\ attempts' = attempts

\* The transactions of the API and of the handlers grant no lease.
LEMMA ApiShrinks ==
  ASSUME TypeOK, NEW u \in Tasks,
         Enqueue(u) \/ CancelRead(u) \/ CancelWrite(u) \/ HandlerWrite(u)
  PROVE  Shrinks
<1> USE DEF TypeOK, Shrinks, Live, Active, Held, LeaseLive, TerminalTask, taskVars
<1>1. CASE Enqueue(u)
  BY <1>1 DEF Enqueue
<1>2. CASE CancelRead(u)
  BY <1>2 DEF CancelRead
<1>3. CASE CancelWrite(u)
  BY <1>3 DEF CancelWrite, CancelledTask
<1>4. CASE HandlerWrite(u)
  BY <1>4 DEF HandlerWrite, BindDeployment, SetOperationState,
              SetDeploymentStatus
<1> QED BY <1>1, <1>2, <1>3, <1>4

\* An owner's operation makes no lease live that was not, unless it revives it.
LEMMA OwnerShrinks ==
  ASSUME TypeOK, NEW w \in Workers, NEW u \in Tasks,
         NEW v \in Nat, NEW d \in Delays, OwnerStep(w, u, v, d)
  PROVE  Shrinks
<1> USE DEF TypeOK, Shrinks, Live, Active, Held, LeaseLive, TerminalTask, Owns
<1>2. CASE MarkRunning(w, u, v, d)
  BY <1>2 DEF MarkRunning
<1>1. d \in Int /\ d >= 0
  BY DEF Delays
<1>3. CASE Heartbeat(w, u, v, d)
  <2>1. LeaseLive(u, 0) \/ u \in revived'
    BY <1>1, <1>3 DEF Heartbeat
  <2> QED BY <1>3, <2>1 DEF Heartbeat
<1>4. ASSUME NEW s \in TerminalTask, Finish(w, u, v, d, s)
      PROVE  Shrinks
  BY <1>4 DEF Finish
<1>5. CASE Retry(w, u, v, d)
  BY <1>5 DEF Retry
<1> QED BY <1>2, <1>3, <1>4, <1>5 DEF OwnerStep

\* The recovery takes leases away, and only of tasks that are not over.
LEMMA RecoverShrinks ==
  ASSUME TypeOK, NEW d \in Delays, RecoverExpired(d)
  PROVE  Shrinks
  BY DEF RecoverExpired, Expired, TypeOK, Shrinks, Live, Active, Held, LeaseLive,
         TerminalTask

\* Time only ends leases.
LEMMA TickShrinks ==
  ASSUME TypeOK, Tick
  PROVE  Shrinks
  BY StoreAssumption
  DEF Tick, TypeOK, Shrinks, Live, Active, Held, LeaseLive, TerminalTask,
      StoreAssumption

\* Every step that is not a claim only takes from the lock.
LEMMA StepShrinks ==
  ASSUME TypeOK, [Next]_storeVars,
         ~ \E w \in Workers : ClaimCandidate(w)
  PROVE  Shrinks
<1>1. CASE UNCHANGED storeVars
  BY <1>1 DEF storeVars, taskVars, Shrinks, Live, Active, Held, LeaseLive
<1>2. ASSUME NEW w \in Workers,
             \/ \E t \in Tasks : SelectCandidate(w, t)
             \/ SkipCandidate(w)
             \/ AbortClaim(w)
      PROVE  Shrinks
  <2>1. UNCHANGED taskVars
    BY <1>2 DEF SelectCandidate, SkipCandidate, AbortClaim
  <2> QED BY <2>1 DEF taskVars, Shrinks, Live, Active, Held, LeaseLive
<1>3. ASSUME NEW w \in Workers, NEW t \in Tasks, NEW d \in Delays,
             OwnerStep(w, t, version[t], d)
      PROVE  Shrinks
  <2>1. version[t] \in Nat
    BY DEF TypeOK
  <2> QED BY <1>3, <2>1, OwnerShrinks
<1> QED BY <1>1, <1>2, <1>3, ApiShrinks, RecoverShrinks, TickShrinks DEF Next

\* A claim grants one lease, to a task that had none and is not over, of a
\* resource that no live lease holds.
LEMMA ClaimGrants ==
  ASSUME TypeOK, CandidateInv, NEW w \in Workers, ClaimCandidate(w)
  PROVE  \E t \in Tasks :
           /\ state[t] \notin TerminalTask
           /\ attempts[t] < MaxAttempts[t]
           /\ \A u \in Live : Resource[u] # Resource[t]
           /\ Live' = Live \cup {t}
           /\ attempts' = [attempts EXCEPT ![t] = @ + 1]
           /\ \A u \in Tasks : state'[u] \in TerminalTask <=> state[u] \in TerminalTask
<1> DEFINE c == candidate[w]
           t == candidate[w].task
<1> USE StoreAssumption DEF TypeOK, StoreAssumption
<1>1. t \in Tasks /\ c.version \in Nat /\ c.age \in Nat /\ c.age < Lease
  BY DEF ClaimCandidate, Candidate, Delays
<1>2. version[t] = c.version /\ Runnable(t, c.age) /\ ~ResourceBusy(t, c.age)
  BY <1>1 DEF ClaimCandidate, Claimable
<1>3. attempts[t] < MaxAttempts[t]
  BY <1>2 DEF ClaimCandidate, CandidateInv
<1>4. state[t] \notin TerminalTask /\ ~Active(t, c.age)
  BY <1>1, <1>2 DEF Runnable, Held, Active, LeaseLive, TerminalTask
<1>5. ASSUME NEW u \in Live PROVE u # t /\ Resource[u] # Resource[t]
  <2>1. u \in Tasks /\ Active(u, c.age)
    BY <1>1 DEF Live, Active, LeaseLive
  <2> QED BY <1>1, <1>2, <1>4, <2>1 DEF ResourceBusy
<1>6. /\ state' = [state EXCEPT ![t] = "leased"]
      /\ ttl' = [ttl EXCEPT ![t] = Lease - c.age]
      /\ revived' = revived \ {t}
      /\ attempts' = [attempts EXCEPT ![t] = @ + 1]
  BY <1>1 DEF ClaimCandidate
<1>7. Live' = Live \cup {t}
  BY <1>1, <1>6 DEF Live, Active, Held, LeaseLive
<1>8. \A u \in Tasks : state'[u] \in TerminalTask <=> state[u] \in TerminalTask
  BY <1>1, <1>4, <1>6 DEF TerminalTask
<1>9. \A u \in Live : Resource[u] # Resource[t]
  BY <1>5
<1> HIDE DEF t, TypeOK
<1> QED BY <1>1, <1>3, <1>4, <1>6, <1>7, <1>8, <1>9

-----------------------------------------------------------------------------
(* Exclusive leases and the refinement of the lock.                        *)

\* At most one task of a resource has a live lease (the comment at
\* repositories.py:72), however old the clocks of the transactions are, unless
\* one of the leases was revived by its owner's late heartbeat.
THEOREM LeasesAreExclusive == Spec => []ExclusiveLease
<1>1. Init => ExclusiveLease
  BY DEF Init, ExclusiveLease, Live, Active, Held
<1>2. ASSUME AttemptsInv, ExclusiveLease, [Next]_storeVars
      PROVE  ExclusiveLease'
  <2> USE <1>2 DEF AttemptsInv
  <2>1. CASE \E w \in Workers : ClaimCandidate(w)
    <3>1. PICK t \in Tasks : /\ \A u \in Live : Resource[u] # Resource[t]
                            /\ Live' = Live \cup {t}
      BY <2>1, ClaimGrants
    <3> QED BY <3>1 DEF ExclusiveLease
  <2>2. CASE ~ \E w \in Workers : ClaimCandidate(w)
    <3>1. Live' \subseteq Live
      BY <2>2, StepShrinks DEF Shrinks
    <3> QED BY <3>1 DEF ExclusiveLease
  <2> QED BY <2>1, <2>2
<1> QED BY <1>1, <1>2, AttemptsInvariant, PTL DEF Spec

\* The queue refines the lock: every claim is a grant of a free resource, and
\* every other transaction only ends leases or finishes tasks.  What a revived
\* lease is worth is left open, as in LeaseIsLock.
THEOREM QueueImplementsLock == Spec => LeaseIsLock
<1>1. Init => Lock!LockInit
  BY DEF Init, Lock!LockInit, Live, Over, Active, Held, TerminalTask
<1>2. ASSUME AttemptsInv, [Next]_storeVars
      PROVE  [Lock!LockNext]_(Lock!lockVars)
  <2> USE <1>2 DEF AttemptsInv
  <2>1. CASE \E w \in Workers : ClaimCandidate(w)
    <3>1. PICK t \in Tasks :
            /\ state[t] \notin TerminalTask
            /\ attempts[t] < MaxAttempts[t]
            /\ \A u \in Live : Resource[u] # Resource[t]
            /\ Live' = Live \cup {t}
            /\ attempts' = [attempts EXCEPT ![t] = @ + 1]
            /\ \A u \in Tasks : state'[u] \in TerminalTask <=> state[u] \in TerminalTask
      BY <2>1, ClaimGrants
    <3>2. Over' = Over
      BY <3>1 DEF Over
    <3>3. Lock!Grant(t)
      BY <3>1, <3>2 DEF Lock!Grant, Over
    <3> QED BY <3>3 DEF Lock!LockNext
  <2>2. CASE ~ \E w \in Workers : ClaimCandidate(w)
    <3>1. Shrinks
      BY <2>2, StepShrinks
    <3>2. Live' = Live \ (Live \ Live') /\ Over' = Over \cup Over'
      BY <3>1 DEF Shrinks, Over
    <3>3. Over' \cap Live \subseteq Live \ Live'
      BY DEF Over, Live, Active, Held, TerminalTask
    <3>4. Lock!Release(Live \ Live', Over')
      BY <3>1, <3>2, <3>3 DEF Lock!Release, Shrinks
    <3>5. (Live \ Live') \in SUBSET Live /\ Over' \in SUBSET Tasks
      BY DEF Over
    <3> QED BY <3>4, <3>5 DEF Lock!LockNext
  <2> QED BY <2>1, <2>2
<1> QED BY <1>1, <1>2, AttemptsInvariant, PTL DEF Spec, LeaseIsLock, Lock!LockSpec

-----------------------------------------------------------------------------
(* Type correctness of a worker's memory.                                  *)

\* A worker that has left the loop holds a lease token.
LEMMA TokenHeld ==
  ASSUME RunnerTypeOK, NEW w \in Workers, pc[w] \notin {"loop", "down"}
  PROVE  /\ box[w] \in LeaseToken
         /\ box[w].task \in Tasks
         /\ box[w].version \in Nat
         /\ box[w].attempts \in Nat
         /\ candidate[w] = None
<1>1. box[w] \in LeaseToken
  BY DEF RunnerTypeOK
<1> QED BY <1>1 DEF RunnerTypeOK, LeaseToken

\* A worker starts in its loop.
LEMMA InitRunnerTypeOK == EngineInit => RunnerTypeOK
  BY RunnerAssumption
  DEF EngineInit, Init, RunnerInit, RunnerTypeOK, Location, MonitorState,
      RunnerAssumption

\* Only tasks are passed on.
LEMMA PassOnTypeOK ==
  ASSUME RunnerTypeOK, NEW T, T \subseteq Tasks, PassOn(T)
  PROVE  outlived' \subseteq Tasks
BY DEF PassOn, RunnerTypeOK

\* run_once up to the claim.
LEMMA ClaimRunnerTypeOK ==
  ASSUME TypeOK, RunnerTypeOK, NEW w \in Workers, Claim(w)
  PROVE  RunnerTypeOK'
<1> USE RunnerAssumption DEF RunnerTypeOK, RunnerAssumption, runnerVars,
        Location, MonitorState
<1>1. ASSUME NEW t \in Tasks, StartClaim(w, t) PROVE RunnerTypeOK'
  BY <1>1 DEF StartClaim, SelectCandidate, TypeOK
<1>2. CASE Claimed(w)
  <2> DEFINE t == candidate[w].task
             token == [task |-> t, version |-> version[t] + 1,
                       attempts |-> attempts[t] + 1]
  <2>1. token \in LeaseToken /\ token # None
    BY <1>2 DEF Claimed, ClaimCandidate, TypeOK, Candidate, LeaseToken
  <2>2. /\ box' = [box EXCEPT ![w] = token]
        /\ pc[w] = "loop" /\ pc' = [pc EXCEPT ![w] = "claimed"]
        /\ candidate' = [candidate EXCEPT ![w] = None]
        /\ UNCHANGED <<monitor, verdict, crashes, starts, returned>>
    BY <1>2 DEF Claimed, ClaimCandidate
  <2>3. outlived' \subseteq Tasks
    BY <1>2, PassOnTypeOK, <2>1 DEF Claimed, LeaseToken
  <2> HIDE DEF token
  <2> QED BY <2>1, <2>2, <2>3 DEF TypeOK
<1>3. CASE ClaimMissed(w)
  BY <1>3 DEF ClaimMissed, SkipCandidate, TypeOK
<1> QED BY <1>1, <1>2, <1>3 DEF Claim

\* Leaving a task clears everything a worker remembers of it.
LEMMA LeaveRunnerTypeOK ==
  ASSUME RunnerTypeOK, NEW w \in Workers, candidate[w] = None,
         candidate' = candidate, Leave(w)
  PROVE  RunnerTypeOK'
  BY RunnerAssumption
  DEF RunnerTypeOK, RunnerAssumption, Leave, Location, MonitorState

\* The start of the handler.
LEMMA BeginRunnerTypeOK ==
  ASSUME TypeOK, RunnerTypeOK, NEW w \in Workers, Begin(w)
  PROVE  RunnerTypeOK'
<1>1. pc[w] = "claimed"
  BY DEF Begin, StartHandler, StartLost
<1>2. /\ box[w] \in LeaseToken /\ box[w].task \in Tasks
      /\ box[w].version \in Nat /\ candidate[w] = None
  BY <1>1, TokenHeld
<1>3. CASE StartHandler(w)
  <2> DEFINE token == [box[w] EXCEPT !.version = @ + 1]
  <2>1. token \in LeaseToken /\ token # None
    BY <1>2, RunnerAssumption DEF LeaseToken, RunnerAssumption
  <2>2. /\ box' = [box EXCEPT ![w] = token]
        /\ candidate' = candidate
        /\ pc' = [pc EXCEPT ![w] = "executing"]
        /\ monitor' = [monitor EXCEPT ![w] = "sleeping"]
        /\ starts' = [starts EXCEPT ![box[w].task] = @ + 1]
        /\ UNCHANGED <<verdict, crashes, returned, outlived>>
    BY <1>3 DEF StartHandler, MarkRunning, RunnerTypeOK
  <2> HIDE DEF token
  <2> QED BY <1>1, <1>2, <2>1, <2>2 DEF RunnerTypeOK, Location, MonitorState
<1>4. CASE StartLost(w)
  BY <1>2, <1>4, LeaveRunnerTypeOK DEF StartLost, storeVars
<1> QED BY <1>3, <1>4 DEF Begin

\* The monitor.
LEMMA WatchRunnerTypeOK ==
  ASSUME TypeOK, RunnerTypeOK, NEW w \in Workers, Watch(w)
  PROVE  RunnerTypeOK'
<1>1. pc[w] = "executing"
  BY DEF Watch, MonitorCheck, MonitorSeesCancel, MonitorHeartbeat, MonitorLost,
         MonitorStore, Asked
<1>2. /\ box[w] \in LeaseToken /\ box[w].version \in Nat /\ candidate[w] = None
  BY <1>1, TokenHeld
<1>3. candidate' = candidate
  BY DEF Watch, MonitorCheck, MonitorSeesCancel, MonitorHeartbeat, MonitorLost,
         MonitorStore, Heartbeat, storeVars
<1>4. ASSUME NEW m \in MonitorState \ {"off"}, MonitorGoes(w, m), box' = box
      PROVE  RunnerTypeOK'
  BY <1>1, <1>3, <1>4 DEF MonitorGoes, RunnerTypeOK
<1>5. ASSUME NEW why \in {"cancelled", "lost"}, MonitorEnds(w, why)
      PROVE  RunnerTypeOK'
  BY <1>1, <1>2, <1>3, <1>5, RunnerAssumption
  DEF MonitorEnds, RunnerTypeOK, RunnerAssumption, Reason, TerminalTask,
      Location, MonitorState
<1>6. CASE MonitorCheck(w) \/ MonitorHeartbeat(w)
  BY <1>4, <1>6 DEF MonitorCheck, MonitorHeartbeat, MonitorState
<1>7. CASE MonitorSeesCancel(w) \/ MonitorLost(w)
  BY <1>5, <1>7 DEF MonitorSeesCancel, MonitorLost
<1>8. CASE MonitorStore(w)
  <2> DEFINE token == [box[w] EXCEPT !.version = @ + 1]
  <2>1. token \in LeaseToken /\ token # None
    BY <1>2, RunnerAssumption DEF LeaseToken, RunnerAssumption
  <2>2. /\ box' = [box EXCEPT ![w] = token]
        /\ monitor' = [monitor EXCEPT ![w] = "sleeping"]
        /\ UNCHANGED <<pc, verdict, crashes, starts, returned, outlived>>
    BY <1>8 DEF MonitorStore, MonitorGoes, RunnerTypeOK
  <2> HIDE DEF token
  <2> QED BY <1>1, <1>3, <2>1, <2>2 DEF RunnerTypeOK, MonitorState
<1> QED BY <1>6, <1>7, <1>8 DEF Watch

\* The end of the handler and of the task.
LEMMA EndRunnerTypeOK ==
  ASSUME TypeOK, RunnerTypeOK, NEW w \in Workers, End(w) \/ Settle(w)
  PROVE  RunnerTypeOK'
<1>1. ASSUME NEW r \in HandlerResults \cup {"cancelled"}, HandlerReturns(w, r)
      PROVE  RunnerTypeOK'
  <2>1. pc[w] = "executing" /\ candidate' = candidate /\ candidate[w] = None
    BY <1>1, TokenHeld DEF HandlerReturns, storeVars
  <2>2. box[w].task \in Tasks /\ box[w].attempts \in Nat /\ r \in Reason
    BY <2>1, TokenHeld, RunnerAssumption
    DEF RunnerAssumption, Reason, TerminalTask
  <2>3. returned' \in [Tasks -> SUBSET Nat]
    BY <1>1, <2>2 DEF HandlerReturns, RunnerTypeOK
  <2>4. PICK s \in Reason : verdict' = [verdict EXCEPT ![w] = s]
    BY <1>1, <2>2 DEF HandlerReturns, Reason, TerminalTask
  <2>5. s # None
    BY RunnerAssumption DEF RunnerAssumption
  <2> QED BY <1>1, <2>1, <2>3, <2>4, <2>5
      DEF HandlerReturns, RunnerTypeOK, Location, MonitorState
<1>2. CASE HandlerStopped(w)
  <2>1. pc[w] = "stopping" /\ candidate' = candidate /\ candidate[w] = None
    BY <1>2, TokenHeld DEF HandlerStopped, storeVars
  <2>2. CASE Leave(w)
    BY <2>1, <2>2, LeaveRunnerTypeOK
  <2>3. CASE ~Leave(w)
    BY <1>2, <2>1, <2>3 DEF HandlerStopped, RunnerTypeOK, Location
  <2> QED BY <2>2, <2>3
<1>3. CASE Settle(w)
  <2>1. pc[w] = "finishing" /\ Leave(w)
    BY <1>3 DEF Settle, Commit, CommitLost
  <2>2. candidate' = candidate
    BY <1>3 DEF Settle, Commit, CommitLost, Retry, Finish, storeVars
  <2> QED BY <2>1, <2>2, TokenHeld, LeaveRunnerTypeOK
<1> QED BY <1>1, <1>2, <1>3 DEF End

\* Crashes, restarts, recovery, the API and the clock.
LEMMA OtherRunnerTypeOK ==
  ASSUME TypeOK, RunnerTypeOK,
         \/ \E w \in Workers : Recover(w) \/ Crash(w) \/ Restart(w)
         \/ \E t \in Tasks : Api(t)
         \/ EngineTick
  PROVE  RunnerTypeOK'
<1> USE RunnerAssumption DEF RunnerAssumption
<1>1. ASSUME UNCHANGED runnerVars,
             \A w \in Workers : candidate'[w] # None => candidate[w] # None
      PROVE  RunnerTypeOK'
  BY <1>1 DEF runnerVars, RunnerTypeOK
<1>2. ASSUME NEW w \in Workers, Crash(w) PROVE RunnerTypeOK'
  <2>1. candidate' = [candidate EXCEPT ![w] = None]
    BY <1>2 DEF Crash, AbortClaim, storeVars, TypeOK
  <2>2. crashes' \in 0..MaxCrashes
    BY <1>2 DEF Crash, RunnerTypeOK
  <2> QED BY <1>2, <2>1, <2>2 DEF Crash, RunnerTypeOK, TypeOK, Location, MonitorState
<1>3. ASSUME NEW w \in Workers, Restart(w) PROVE RunnerTypeOK'
  <2>1. candidate' = candidate
    BY <1>3 DEF Restart, RecoverExpired, storeVars
  <2>2. outlived' \subseteq Tasks
    BY <1>3, PassOnTypeOK DEF Restart, Expired
  <2> QED BY <1>3, <2>1, <2>2 DEF Restart, RunnerTypeOK, Location
<1>4. ASSUME NEW w \in Workers, Recover(w) PROVE RunnerTypeOK'
  <2>1. candidate' = candidate
    BY <1>4 DEF Recover, RecoverExpired
  <2>2. outlived' \subseteq Tasks
    BY <1>4, PassOnTypeOK DEF Recover, Expired
  <2> QED BY <1>4, <2>1, <2>2 DEF Recover, RunnerTypeOK
<1>5. ASSUME NEW t \in Tasks, Api(t) PROVE RunnerTypeOK'
  BY <1>1, <1>5 DEF Api, Enqueue, CancelRead, CancelWrite
<1>6. CASE EngineTick
  BY <1>1, <1>6 DEF EngineTick, Tick
<1> QED BY <1>2, <1>3, <1>4, <1>5, <1>6

\* Every step of the engine keeps the types of the workers' memory.
LEMMA RunnerTypeStep ==
  ASSUME TypeOK, RunnerTypeOK, [EngineNext]_vars
  PROVE  RunnerTypeOK'
<1>1. CASE UNCHANGED vars
  BY <1>1 DEF vars, runnerVars, storeVars, RunnerTypeOK
<1>2. CASE EngineNext
  BY <1>2, ClaimRunnerTypeOK, BeginRunnerTypeOK, WatchRunnerTypeOK,
     EndRunnerTypeOK, OtherRunnerTypeOK
  DEF EngineNext, Work
<1> QED BY <1>1, <1>2

-----------------------------------------------------------------------------
(* The engine only does what TaskStore lets any caller do.                 *)

\* An operation whose token matches a row is an owner's step of that row.
LEMMA TokenIsOwner ==
  ASSUME NEW w, NEW t \in Tasks, NEW v, NEW d,
         \/ MarkRunning(w, t, v, d)
         \/ Heartbeat(w, t, v, d)
         \/ \E s \in TerminalTask : Finish(w, t, v, d, s)
         \/ Retry(w, t, v, d)
  PROVE  OwnerStep(w, t, version[t], d)
<1>1. version[t] = v
  BY DEF MarkRunning, Heartbeat, Finish, Retry, Owns
<1> QED BY <1>1 DEF OwnerStep

\* A worker's step is a step of the store or leaves the rows alone.
LEMMA WorkIsNext ==
  ASSUME TypeOK, RunnerTypeOK, NEW w \in Workers, Work(w)
  PROVE  [Next]_storeVars
<1>1. CASE Claim(w)
  <2>1. \/ \E t \in Tasks : SelectCandidate(w, t)
        \/ ClaimCandidate(w)
        \/ SkipCandidate(w)
    BY <1>1 DEF Claim, StartClaim, Claimed, ClaimMissed
  <2> QED BY <2>1 DEF Next
<1>2. CASE \/ StartLost(w) \/ MonitorCheck(w) \/ MonitorSeesCancel(w)
           \/ MonitorLost(w) \/ MonitorStore(w) \/ HandlerStopped(w)
           \/ CommitLost(w)
           \/ \E r \in HandlerResults \cup {"cancelled"} : HandlerReturns(w, r)
  BY <1>2 DEF StartLost, MonitorCheck, MonitorSeesCancel, MonitorLost,
              MonitorStore, HandlerStopped, CommitLost, HandlerReturns
<1>3. CASE StartHandler(w) \/ MonitorHeartbeat(w) \/ Commit(w)
  <2>1. box[w].task \in Tasks
    BY <1>3, TokenHeld DEF StartHandler, MonitorHeartbeat, Commit
  <2>2. CASE StartHandler(w) \/ MonitorHeartbeat(w)
    <3>1. \E d \in Delays : OwnerStep(w, box[w].task, version[box[w].task], d)
      BY <2>1, <2>2, TokenIsOwner DEF StartHandler, MonitorHeartbeat
    <3> QED BY <2>1, <3>1 DEF Next
  <2>3. CASE Commit(w)
    <3>1. PICK d \in Delays :
            IF verdict[w] = "retry"
            THEN Retry(w, box[w].task, box[w].version, d)
            ELSE Finish(w, box[w].task, box[w].version, d, verdict[w])
      BY <2>3 DEF Commit
    <3>2. Finish(w, box[w].task, box[w].version, d, verdict[w])
            => verdict[w] \in TerminalTask
      BY DEF Finish
    <3>3. OwnerStep(w, box[w].task, version[box[w].task], d)
      BY <2>1, <3>1, <3>2, TokenIsOwner
    <3> QED BY <2>1, <3>3 DEF Next
  <2> QED BY <1>3, <2>2, <2>3
<1> QED BY <1>1, <1>2, <1>3 DEF Work, Begin, Watch, End, Settle

\* So is every other step of the engine.
LEMMA EngineStepIsNext ==
  ASSUME TypeOK, RunnerTypeOK, [EngineNext]_vars
  PROVE  [Next]_storeVars
<1>1. CASE UNCHANGED vars
  BY <1>1 DEF vars
<1>2. ASSUME NEW t \in Tasks, Api(t) PROVE Next
  BY <1>2 DEF Api, Next
<1>3. ASSUME NEW w \in Workers, Recover(w) PROVE Next
  BY <1>3 DEF Recover, Next
<1>4. ASSUME NEW w \in Workers, Crash(w) PROVE [Next]_storeVars
  BY <1>4 DEF Crash, Next
<1>5. ASSUME NEW w \in Workers, Restart(w) PROVE [Next]_storeVars
  <2>1. 0 \in Delays
    BY StoreAssumption DEF Delays, StoreAssumption
  <2> QED BY <1>5, <2>1 DEF Restart, Next
<1>6. CASE EngineTick
  BY <1>6 DEF EngineTick, Next
<1> QED BY <1>1, <1>2, <1>3, <1>4, <1>5, <1>6, WorkIsNext DEF EngineNext

\* What a worker remembers always has its type and fits where it is
\* (engine.py _execute): a token exactly from the claim to the commit.
THEOREM RunnerTypeCorrect == EngineSpec => [](TypeOK /\ RunnerTypeOK)
<1>1. EngineInit => TypeOK /\ RunnerTypeOK
  BY InitTypeOK, InitRunnerTypeOK DEF EngineInit
<1>2. TypeOK /\ RunnerTypeOK /\ [EngineNext]_vars => TypeOK' /\ RunnerTypeOK'
  BY EngineStepIsNext, RunnerTypeStep, TypeStep
<1> QED BY <1>1, <1>2, PTL DEF EngineSpec

\* The engine refines the store: whatever is proved of arbitrary callers of
\* the store's transactions holds of the runners.
THEOREM EngineImplementsStore == EngineSpec => Spec
<1>1. EngineInit => Init
  BY DEF EngineInit
<1>2. TypeOK /\ RunnerTypeOK /\ [EngineNext]_vars => [Next]_storeVars
  BY EngineStepIsNext
<1> QED BY <1>1, <1>2, RunnerTypeCorrect, PTL DEF EngineSpec, Spec

\* Two runners never own tasks of one resource at the same time, unless one of
\* the leases was revived by a late heartbeat.
THEOREM EngineLeasesAreExclusive == EngineSpec => []ExclusiveLease
  BY EngineImplementsStore, LeasesAreExclusive, PTL

-----------------------------------------------------------------------------
(* How often a handler is started.                                         *)

\* A task that is leased and not yet running has an attempt whose handler has
\* not been started.
StartsInv ==
  \A t \in Tasks :
    /\ starts[t] <= attempts[t]
    /\ state[t] = "leased" => starts[t] < attempts[t]

\* A step that neither claims nor starts: attempts and starts stay, and no
\* task becomes leased.
Idle ==
  /\ attempts' = attempts /\ starts' = starts
  /\ \A t \in Tasks : state'[t] = "leased" => state[t] = "leased"

\* Every step but the claim and the start of a handler is idle in this sense.
LEMMA StepIdle ==
  ASSUME TypeOK, RunnerTypeOK, [EngineNext]_vars,
         ~ \E w \in Workers : Claimed(w) \/ StartHandler(w)
  PROVE  Idle
<1> USE DEF Idle, TypeOK, taskVars, runnerVars, storeVars
<1>1. CASE UNCHANGED vars
  BY <1>1 DEF vars
<1>2. ASSUME NEW t \in Tasks, Api(t) PROVE Idle
  BY <1>2 DEF Api, Enqueue, CancelRead, CancelWrite
<1>3. ASSUME NEW d \in Delays, RecoverExpired(d), starts' = starts PROVE Idle
  BY <1>3 DEF RecoverExpired
<1>4. ASSUME NEW w \in Workers, Recover(w) \/ Crash(w) \/ Restart(w) PROVE Idle
  <2>1. CASE Recover(w)
    BY <1>3, <2>1 DEF Recover
  <2>2. CASE Crash(w)
    BY <2>2 DEF Crash, AbortClaim
  <2>3. CASE Restart(w)
    <3>1. 0 \in Delays
      BY StoreAssumption DEF Delays, StoreAssumption
    <3> QED BY <1>3, <2>3, <3>1 DEF Restart
  <2> QED BY <1>4, <2>1, <2>2, <2>3
<1>5. CASE EngineTick
  BY <1>5 DEF EngineTick, Tick
<1>6. ASSUME NEW w \in Workers,
             \/ StartLost(w) \/ MonitorCheck(w) \/ MonitorSeesCancel(w)
             \/ MonitorLost(w) \/ MonitorStore(w) \/ HandlerStopped(w)
             \/ CommitLost(w)
             \/ \E r \in HandlerResults \cup {"cancelled"} : HandlerReturns(w, r)
      PROVE  Idle
  BY <1>6 DEF StartLost, MonitorCheck, MonitorSeesCancel, MonitorLost,
              MonitorStore, HandlerStopped, CommitLost, HandlerReturns, Leave,
              MonitorGoes, MonitorEnds
<1>7. ASSUME NEW w \in Workers,
             \/ \E t \in Tasks : StartClaim(w, t)
             \/ ClaimMissed(w)
      PROVE  Idle
  BY <1>7 DEF StartClaim, ClaimMissed, SelectCandidate, SkipCandidate
<1>8. ASSUME NEW w \in Workers, MonitorHeartbeat(w) PROVE Idle
  BY <1>8 DEF MonitorHeartbeat, Heartbeat, MonitorGoes
<1>9. ASSUME NEW w \in Workers, Commit(w) PROVE Idle
  BY <1>9 DEF Commit, Finish, Retry, Leave, TerminalTask
<1> HIDE DEF Idle
<1> QED BY <1>1, <1>2, <1>4, <1>5, <1>6, <1>7, <1>8, <1>9
    DEF EngineNext, Work, Claim, Begin, Watch, End, Settle

\* Each claim pays for at most one start of the handler.
LEMMA StartsInvStep ==
  ASSUME TypeOK, RunnerTypeOK, StartsInv, [EngineNext]_vars
  PROVE  StartsInv'
<1> USE DEF TypeOK, RunnerTypeOK
<1>1. ASSUME NEW w \in Workers, Claimed(w) PROVE StartsInv'
  <2> DEFINE u == candidate[w].task
  <2>1. /\ u \in Tasks /\ starts' = starts
        /\ state' = [state EXCEPT ![u] = "leased"]
        /\ attempts' = [attempts EXCEPT ![u] = @ + 1]
    BY <1>1 DEF Claimed, ClaimCandidate, Candidate
  <2> QED BY <2>1 DEF StartsInv
<1>2. ASSUME NEW w \in Workers, StartHandler(w) PROVE StartsInv'
  <2> DEFINE u == box[w].task
  <2>1. u \in Tasks
    BY <1>2, TokenHeld DEF StartHandler
  <2>2. /\ state[u] = "leased" /\ attempts' = attempts
        /\ state' = [state EXCEPT ![u] = "running"]
        /\ starts' = [starts EXCEPT ![u] = @ + 1]
    BY <1>2 DEF StartHandler, MarkRunning
  <2> QED BY <2>1, <2>2 DEF StartsInv
<1>3. CASE ~ \E w \in Workers : Claimed(w) \/ StartHandler(w)
  BY <1>3, StepIdle DEF Idle, StartsInv
<1> QED BY <1>1, <1>2, <1>3

\* A handler is started at most once per attempt and at most max_attempts
\* times, whatever crashes: a script, with one attempt, runs at most once
\* (approvals.py:217).
THEOREM StartsAreBounded == EngineSpec => []StartsBounded
<1>1. EngineInit => StartsInv
  <2> SUFFICES ASSUME EngineInit, NEW t \in Tasks
               PROVE  starts[t] <= attempts[t] /\ state[t] # "leased"
    BY DEF EngineInit, Init, StartsInv
  <2>1. starts[t] = 0 /\ attempts[t] = 0 /\ state[t] = "absent"
    BY DEF EngineInit, Init, RunnerInit
  <2> QED BY <2>1
<1>2. TypeOK /\ RunnerTypeOK /\ StartsInv /\ [EngineNext]_vars => StartsInv'
  BY StartsInvStep
<1>3. StartsInv /\ AttemptsBounded => StartsBounded
  BY DEF StartsInv, AttemptsBounded, StartsBounded
<1>4. EngineSpec => []AttemptsBounded
  BY EngineImplementsStore, AttemptsAreBounded, PTL
<1> QED BY <1>1, <1>2, <1>3, <1>4, RunnerTypeCorrect, PTL DEF EngineSpec

-----------------------------------------------------------------------------
(* What a lease token is worth.                                            *)

\* The version a worker's next operation will present: lease_box lags behind
\* by the heartbeat that its monitor has committed and not yet stored.
Known(w) == IF monitor[w] = "renewed" THEN box[w].version + 1 ELSE box[w].version

\* The version is enough of a fence: while it is the row's, the row is still
\* the one this attempt of this worker has left.
TokenInv ==
  \A w \in Workers : box[w] # None =>
    /\ Known(w) <= version[box[w].task]
    /\ Known(w) = version[box[w].task] =>
         /\ leasedBy[box[w].task] = w
         /\ attempts[box[w].task] = box[w].attempts
         /\ state[box[w].task] = IF pc[w] = "claimed" THEN "leased" ELSE "running"

\* A verdict of success comes from a handler that returned.
VerdictInv ==
  \A w \in Workers :
    verdict[w] = "succeeded" => box[w].attempts \in returned[box[w].task]

\* The run of a running task is its owner's, unless the run is over.
RunSound(t) ==
  /\ state[t] \in TerminalTask => runStatus[t] \in {state[t], "cancelled"}
  /\ runStatus[t] \in {"succeeded", "failed"} => state[t] = runStatus[t]
  /\ state[t] = "absent" <=> runStatus[t] = "absent"
  /\ cancelView[t] # None => state[t] # "absent"
  /\ state[t] = "running" /\ runStatus[t] \in OpenRun => runLeasedBy[t] = leasedBy[t]

RunInv == \A t \in RunTasks : RunSound(t)

\* A handler whose lease was not passed on under it runs while its worker owns
\* the task, in the attempt that it was started for.
HeldInv ==
  \A w \in Workers, t \in Tasks :
    Handling(w, t) /\ t \notin outlived =>
      leasedBy[t] = w /\ state[t] = "running" /\ attempts[t] = box[w].attempts

\* While its version stays, a row that was submitted stays as it is.
LEMMA VersionFences ==
  ASSUME TypeOK, [Next]_storeVars, NEW t \in Tasks, version'[t] = version[t],
         state[t] # "absent"
  PROVE  /\ state'[t] = state[t]
         /\ leasedBy'[t] = leasedBy[t]
         /\ attempts'[t] = attempts[t]
<1> DEFINE Stays == state'[t] = state[t] /\ leasedBy'[t] = leasedBy[t]
<1> USE DEF TypeOK, taskVars
<1>1. ASSUME UNCHANGED storeVars \/ Tick PROVE Stays
  BY <1>1 DEF storeVars, Tick
<1>2. ASSUME NEW u \in Tasks, Enqueue(u) \/ CancelRead(u) \/ CancelWrite(u) PROVE Stays
  BY <1>2 DEF Enqueue, CancelRead, CancelWrite
<1>3. ASSUME NEW u \in Tasks, HandlerWrite(u) PROVE Stays
  BY <1>3 DEF HandlerWrite, BindDeployment, SetOperationState, SetDeploymentStatus
<1>4. ASSUME NEW w \in Workers,
             \/ \E u \in Tasks : SelectCandidate(w, u)
             \/ SkipCandidate(w)
             \/ AbortClaim(w)
      PROVE  Stays
  <2>1. UNCHANGED taskVars
    BY <1>4 DEF SelectCandidate, SkipCandidate, AbortClaim
  <2> QED BY <2>1
<1>5. ASSUME NEW w \in Workers, ClaimCandidate(w) PROVE Stays
  BY <1>5 DEF ClaimCandidate, Candidate
<1>6. ASSUME NEW w \in Workers, NEW u \in Tasks, NEW d \in Delays, OwnerStep(w, u, version[u], d)
      PROVE  Stays
  BY <1>6 DEF OwnerStep, MarkRunning, Heartbeat, Finish, Retry
<1>7. ASSUME NEW d \in Delays, RecoverExpired(d) PROVE Stays
  BY <1>7 DEF RecoverExpired
<1>8. Stays
  <2> HIDE DEF Stays
  <2> QED BY <1>1, <1>2, <1>3, <1>4, <1>5, <1>6, <1>7 DEF Next
<1> QED BY <1>8, VersionGuardsAttempts

\* A worker's steps leave the memory of the others alone.
LEMMA OtherWorker ==
  ASSUME RunnerTypeOK, NEW w \in Workers, NEW u \in Workers, u # w,
         Work(u) \/ Crash(u) \/ Restart(u) \/ Recover(u)
  PROVE  /\ pc'[w] = pc[w] /\ box'[w] = box[w] /\ monitor'[w] = monitor[w]
         /\ verdict'[w] = verdict[w]
<1> USE DEF RunnerTypeOK
<1>1. CASE Claim(u) \/ Begin(u)
  BY <1>1 DEF Claim, StartClaim, Claimed, ClaimMissed, Begin, StartHandler, StartLost, Leave,
     runnerVars
<1>2. CASE Watch(u)
  BY <1>2 DEF Watch, MonitorCheck, MonitorSeesCancel, MonitorHeartbeat, MonitorLost,
     MonitorStore, MonitorGoes, MonitorEnds
<1>3. CASE End(u)
  BY <1>3 DEF End, HandlerReturns, HandlerStopped, Leave
<1>4. CASE Settle(u) \/ Crash(u) \/ Restart(u)
  BY <1>4 DEF Settle, Commit, CommitLost, Leave, Crash, Restart
<1>5. CASE Recover(u)
  BY <1>5 DEF Recover, runnerVars
<1> QED BY <1>1, <1>2, <1>3, <1>4, <1>5 DEF Work

\* So do the steps of the API and of the clock.
LEMMA OthersStay ==
  ASSUME RunnerTypeOK, [EngineNext]_vars, NEW w \in Workers,
         ~ (Work(w) \/ Crash(w) \/ Restart(w))
  PROVE  /\ pc'[w] = pc[w] /\ box'[w] = box[w] /\ monitor'[w] = monitor[w]
         /\ verdict'[w] = verdict[w]
<1>1. CASE UNCHANGED runnerVars
  BY <1>1 DEF runnerVars
<1>2. CASE \/ UNCHANGED vars
           \/ \E t \in Tasks : Api(t)
           \/ \E u \in Workers : Recover(u)
           \/ EngineTick
  BY <1>1, <1>2 DEF vars, Api, Recover, EngineTick
<1>3. CASE \E u \in Workers : Work(u) \/ Crash(u) \/ Restart(u)
  BY <1>3, OtherWorker
<1> QED BY <1>2, <1>3 DEF EngineNext

\* What a worker's own step makes of its memory, unless it claims, starts the
\* handler or renews the lease.
LEMMA OwnMemory ==
  ASSUME TypeOK, RunnerTypeOK, NEW w \in Workers, Work(w) \/ Crash(w) \/ Restart(w),
         box'[w] # None
  PROVE  \/ /\ box[w] # None
            /\ box'[w].task = box[w].task /\ box'[w].attempts = box[w].attempts
            /\ Known(w)' <= Known(w)
            /\ pc'[w] = "claimed" <=> pc[w] = "claimed"
            /\ verdict'[w] = "succeeded" =>
                 verdict[w] = "succeeded" \/ box[w].attempts \in returned'[box[w].task]
         \/ Claimed(w) \/ StartHandler(w) \/ MonitorHeartbeat(w)
<1> DEFINE Kept == /\ box[w] # None
                   /\ box'[w].task = box[w].task /\ box'[w].attempts = box[w].attempts
                   /\ Known(w)' <= Known(w)
                   /\ pc'[w] = "claimed" <=> pc[w] = "claimed"
                   /\ verdict'[w] = "succeeded" =>
                        verdict[w] = "succeeded" \/ box[w].attempts \in returned'[box[w].task]
<1> USE DEF RunnerTypeOK
<1>0. /\ Leave(w) \/ Crash(w) => box'[w] = None
      /\ Restart(w) => box'[w] = box[w] /\ box[w] = None
  BY DEF Leave, Crash, Restart
<1>1. CASE (\E t \in Tasks : StartClaim(w, t)) \/ ClaimMissed(w)
  <2>1. UNCHANGED runnerVars /\ pc[w] = "loop"
    BY <1>1 DEF StartClaim, ClaimMissed
  <2> QED BY <2>1 DEF runnerVars
<1>2. ASSUME pc[w] \in {"executing", "stopping"}
      PROVE  /\ box[w] \in LeaseToken /\ box[w] # None /\ box[w].version \in Nat
             /\ box[w].task \in Tasks
  BY <1>2, TokenHeld
<1>3. CASE MonitorCheck(w) \/ MonitorSeesCancel(w) \/ MonitorLost(w)
  <2>1. pc[w] = "executing"
    BY <1>3 DEF MonitorCheck, MonitorSeesCancel, MonitorLost, Asked
  <2>2. /\ box' = box /\ monitor'[w] # "renewed" /\ pc'[w] # "claimed"
        /\ verdict'[w] = "succeeded" => verdict[w] = "succeeded"
    BY <1>3, <2>1 DEF MonitorCheck, MonitorSeesCancel, MonitorLost, MonitorGoes, MonitorEnds
  <2> QED BY <1>2, <2>1, <2>2 DEF Known
<1>4. CASE MonitorStore(w)
  <2>1. /\ pc[w] = "executing" /\ monitor[w] = "renewed" /\ monitor'[w] = "sleeping"
        /\ UNCHANGED <<pc, verdict>>
        /\ box' = [box EXCEPT ![w] = [box[w] EXCEPT !.version = @ + 1]]
    BY <1>4 DEF MonitorStore, MonitorGoes
  <2>2. /\ box'[w] = [box[w] EXCEPT !.version = @ + 1]
        /\ box'[w].version = box[w].version + 1
        /\ box'[w].task = box[w].task /\ box'[w].attempts = box[w].attempts
    BY <1>2, <2>1 DEF LeaseToken
  <2>3. Known(w)' = Known(w)
    BY <1>2, <2>1, <2>2 DEF Known
  <2> QED BY <1>2, <2>1, <2>2, <2>3 DEF Known
<1>5. ASSUME NEW r \in HandlerResults \cup {"cancelled"}, HandlerReturns(w, r) PROVE Kept
  <2>1. /\ pc[w] = "executing" /\ pc'[w] # "claimed" /\ monitor'[w] = "off" /\ box' = box
        /\ verdict'[w] = "succeeded" => r = "succeeded"
        /\ returned' = [returned EXCEPT ![box[w].task] =
                          IF r = "succeeded" THEN @ \cup {box[w].attempts} ELSE @]
    BY <1>5 DEF HandlerReturns
  <2>2. verdict'[w] = "succeeded" => box[w].attempts \in returned'[box[w].task]
    BY <1>2, <2>1
  <2> QED BY <1>2, <2>1, <2>2 DEF Known
<1>6. CASE HandlerStopped(w)
  <2>1. /\ pc[w] = "stopping" /\ box' = box /\ monitor' = monitor /\ verdict' = verdict
        /\ pc'[w] # "claimed"
    BY <1>0, <1>6 DEF HandlerStopped
  <2> QED BY <1>2, <2>1 DEF Known
<1>7. Settle(w) \/ StartLost(w) => Leave(w)
  BY DEF Settle, Commit, CommitLost, StartLost
<1> HIDE DEF Kept
<1>8. Kept \/ Claimed(w) \/ StartHandler(w) \/ MonitorHeartbeat(w)
  BY <1>0, <1>1, <1>3, <1>4, <1>5, <1>6, <1>7 DEF Work, Claim, Begin, Watch, End, Kept
<1> QED BY <1>8 DEF Kept

\* A handler that has returned has returned for good.
LEMMA ReturnedGrows ==
  ASSUME TypeOK, RunnerTypeOK, [EngineNext]_vars, NEW t \in Tasks
  PROVE  returned[t] \subseteq returned'[t]
<1> DEFINE Grows == returned[t] \subseteq returned'[t]
<1>1. ASSUME UNCHANGED vars \/ (\E u \in Tasks : Api(u)) \/ EngineTick PROVE Grows
  BY <1>1 DEF vars, runnerVars, Api, EngineTick
<1>2. ASSUME NEW w \in Workers, Recover(w) \/ Crash(w) \/ Restart(w) PROVE Grows
  BY <1>2 DEF runnerVars, Recover, Crash, Restart
<1>3. ASSUME NEW w \in Workers, Claim(w) \/ Begin(w) \/ Watch(w) \/ Settle(w) PROVE Grows
  BY <1>3 DEF Claim, StartClaim, Claimed, ClaimMissed, Begin, StartHandler, StartLost, Leave,
     runnerVars, Watch, MonitorCheck, MonitorSeesCancel, MonitorHeartbeat, MonitorLost,
     MonitorStore, MonitorGoes, MonitorEnds, Settle, Commit, CommitLost
<1>4. ASSUME NEW w \in Workers, HandlerStopped(w) PROVE Grows
  BY <1>4 DEF HandlerStopped, Leave
<1>5. ASSUME NEW w \in Workers, NEW r, HandlerReturns(w, r) PROVE Grows
  BY <1>5 DEF HandlerReturns, RunnerTypeOK
<1> HIDE DEF Grows
<1>6. Grows
  BY <1>1, <1>2, <1>3, <1>4, <1>5 DEF EngineNext, Work, End
<1> QED BY <1>6 DEF Grows

\* Whatever step is taken, a worker that holds a token after it held one for
\* the same attempt before, or has just claimed, started or renewed.
LEMMA Memory ==
  ASSUME TypeOK, RunnerTypeOK, [EngineNext]_vars, NEW w \in Workers, box'[w] # None,
         ~ (Claimed(w) \/ StartHandler(w) \/ MonitorHeartbeat(w))
  PROVE  /\ box[w] # None /\ pc[w] \notin {"loop", "down"}
         /\ box'[w].task = box[w].task /\ box'[w].attempts = box[w].attempts
         /\ Known(w)' <= Known(w)
         /\ pc'[w] = "claimed" <=> pc[w] = "claimed"
         /\ verdict'[w] = "succeeded" =>
              verdict[w] = "succeeded" \/ box[w].attempts \in returned'[box[w].task]
<1>1. CASE Work(w) \/ Crash(w) \/ Restart(w)
  BY <1>1, OwnMemory DEF RunnerTypeOK
<1>2. CASE ~ (Work(w) \/ Crash(w) \/ Restart(w))
  <2>1. /\ pc'[w] = pc[w] /\ box'[w] = box[w] /\ monitor'[w] = monitor[w]
        /\ verdict'[w] = verdict[w]
    BY <1>2, OthersStay
  <2>2. box[w].version \in Nat /\ pc[w] \notin {"loop", "down"}
    BY <2>1, TokenHeld DEF RunnerTypeOK
  <2> QED BY <2>1, <2>2 DEF Known
<1> QED BY <1>1, <1>2

\* A token that is the row's version stays a faithful picture of the row.
LEMMA TokenInvStep ==
  ASSUME TypeOK, RunnerTypeOK, RunnerTypeOK', TokenInv, [EngineNext]_vars
  PROVE  TokenInv'
<1> SUFFICES ASSUME NEW w \in Workers, box'[w] # None
             PROVE  /\ Known(w)' <= version'[box'[w].task]
                    /\ Known(w)' = version'[box'[w].task] =>
                         /\ leasedBy'[box'[w].task] = w
                         /\ attempts'[box'[w].task] = box'[w].attempts
                         /\ state'[box'[w].task] =
                              IF pc'[w] = "claimed" THEN "leased" ELSE "running"
  BY DEF TokenInv
<1>1. CASE Claimed(w)
  <2> DEFINE t == candidate[w].task
             token == [task |-> t, version |-> version[t] + 1, attempts |-> attempts[t] + 1]
  <2>1. t \in Tasks
    BY <1>1 DEF Claimed, ClaimCandidate, TypeOK, Candidate
  <2>2. /\ box'[w] = token /\ pc'[w] = "claimed" /\ monitor'[w] # "renewed"
        /\ version'[t] = version[t] + 1 /\ attempts'[t] = attempts[t] + 1
        /\ leasedBy'[t] = w /\ state'[t] = "leased" /\ version[t] \in Nat
    BY <1>1, <2>1 DEF Claimed, ClaimCandidate, TypeOK, RunnerTypeOK
  <2> QED BY <2>2 DEF Known
<1>2. CASE StartHandler(w)
  <2> DEFINE t == box[w].task
  <2>1. /\ pc[w] = "claimed" /\ box[w] # None /\ box[w] \in LeaseToken /\ t \in Tasks
        /\ box[w].version \in Nat /\ monitor[w] = "off"
    BY <1>2, TokenHeld DEF StartHandler, RunnerTypeOK
  <2>2. /\ version[t] = box[w].version /\ leasedBy[t] = w
        /\ version' = [version EXCEPT ![t] = @ + 1]
        /\ state' = [state EXCEPT ![t] = "running"]
        /\ UNCHANGED <<leasedBy, attempts>>
    BY <1>2 DEF StartHandler, MarkRunning, Owns
  <2>3. /\ box'[w].version = box[w].version + 1 /\ box'[w].task = t
        /\ box'[w].attempts = box[w].attempts /\ pc'[w] = "executing" /\ monitor'[w] = "sleeping"
    <3>1. /\ box'[w] = [box[w] EXCEPT !.version = @ + 1] /\ pc'[w] = "executing"
          /\ monitor'[w] = "sleeping"
      BY <1>2 DEF StartHandler, RunnerTypeOK
    <3> QED BY <2>1, <3>1 DEF LeaseToken
  <2>4. attempts[t] = box[w].attempts
    BY <2>1, <2>2 DEF TokenInv, Known
  <2> QED BY <2>1, <2>2, <2>3, <2>4 DEF Known, TypeOK
<1>3. CASE MonitorHeartbeat(w)
  <2> DEFINE t == box[w].task
  <2>1. /\ pc[w] = "executing" /\ monitor[w] = "checked" /\ box[w] # None /\ t \in Tasks
        /\ box[w].version \in Nat
    BY <1>3, TokenHeld DEF MonitorHeartbeat, RunnerTypeOK
  <2>2. /\ version[t] = box[w].version /\ leasedBy[t] = w
        /\ version' = [version EXCEPT ![t] = @ + 1]
        /\ UNCHANGED <<state, leasedBy, attempts>>
    BY <1>3 DEF MonitorHeartbeat, Heartbeat, Owns
  <2>3. box' = box /\ pc' = pc /\ monitor'[w] = "renewed"
    BY <1>3 DEF MonitorHeartbeat, MonitorGoes, RunnerTypeOK
  <2>4. attempts[t] = box[w].attempts /\ state[t] = "running"
    BY <2>1, <2>2 DEF TokenInv, Known
  <2> QED BY <2>1, <2>2, <2>3, <2>4 DEF Known, TypeOK
<1>4. CASE ~ (Claimed(w) \/ StartHandler(w) \/ MonitorHeartbeat(w))
  <2> DEFINE t == box[w].task
  <2>1. /\ box[w] # None /\ pc[w] \notin {"loop", "down"}
        /\ box'[w].task = t /\ box'[w].attempts = box[w].attempts
        /\ Known(w)' <= Known(w)
        /\ pc'[w] = "claimed" <=> pc[w] = "claimed"
    BY <1>4, Memory
  <2>2. t \in Tasks /\ Known(w) \in Nat /\ Known(w)' \in Nat
    <3>1. box[w].version \in Nat /\ t \in Tasks
      BY <2>1, TokenHeld
    <3>2. box'[w] \in LeaseToken
      BY DEF RunnerTypeOK
    <3> QED BY <3>1, <3>2 DEF Known, LeaseToken
  <2>3. Known(w) <= version[t] /\ version[t] \in Nat /\ version'[t] \in Nat /\ version'[t] >= version[t]
    <3>1. [Next]_storeVars
      BY EngineStepIsNext
    <3>2. TypeOK'
      BY <3>1, TypeStep
    <3> QED BY <2>1, <2>2, <3>1, <3>2, VersionGuardsAttempts DEF TokenInv, TypeOK
  <2>4. CASE Known(w)' = version'[t]
    <3>1. Known(w) = version[t] /\ version'[t] = version[t]
      BY <2>1, <2>2, <2>3, <2>4
    <3>2. /\ leasedBy[t] = w /\ attempts[t] = box[w].attempts
          /\ state[t] = IF pc[w] = "claimed" THEN "leased" ELSE "running"
      BY <2>1, <3>1 DEF TokenInv
    <3>3. state'[t] = state[t] /\ leasedBy'[t] = leasedBy[t] /\ attempts'[t] = attempts[t]
      BY <2>2, <3>1, <3>2, EngineStepIsNext, VersionFences
    <3> QED BY <2>1, <2>2, <2>3, <3>2, <3>3
  <2> QED BY <2>1, <2>2, <2>3, <2>4
<1> QED BY <1>1, <1>2, <1>3, <1>4

-----------------------------------------------------------------------------
(* Success.                                                                *)

\* A verdict of success stays founded on a handler that returned.
LEMMA VerdictInvStep ==
  ASSUME TypeOK, RunnerTypeOK, RunnerTypeOK', VerdictInv, [EngineNext]_vars
  PROVE  VerdictInv'
<1> SUFFICES ASSUME NEW w \in Workers, verdict'[w] = "succeeded"
             PROVE  box'[w].attempts \in returned'[box'[w].task]
  BY DEF VerdictInv
<1>1. box'[w] # None /\ pc'[w] \in {"stopping", "finishing"}
  BY RunnerAssumption DEF RunnerTypeOK, Reason, TerminalTask
<1>2. ~ (Claimed(w) \/ StartHandler(w) \/ MonitorHeartbeat(w))
  <2>1. Claimed(w) \/ StartHandler(w) => pc'[w] \in {"claimed", "executing"}
    BY DEF Claimed, StartHandler, RunnerTypeOK
  <2>2. MonitorHeartbeat(w) => pc'[w] = "executing"
    BY DEF MonitorHeartbeat, MonitorGoes
  <2> QED BY <1>1, <2>1, <2>2
<1>3. /\ box[w] # None /\ pc[w] \notin {"loop", "down"}
      /\ box'[w].task = box[w].task /\ box'[w].attempts = box[w].attempts
      /\ verdict[w] = "succeeded" \/ box[w].attempts \in returned'[box[w].task]
  BY <1>1, <1>2, Memory
<1>4. box[w].task \in Tasks
  BY <1>3, TokenHeld
<1> QED BY <1>3, <1>4, ReturnedGrows DEF VerdictInv

\* Only the commit of a verdict of success makes a task succeed.
LEMMA OnlyCommitSucceeds ==
  ASSUME TypeOK, RunnerTypeOK, [EngineNext]_vars, NEW t \in Tasks, state'[t] = "succeeded"
  PROVE  \/ state[t] = "succeeded"
         \/ \E w \in Workers : Commit(w) /\ verdict[w] = "succeeded" /\ box[w].task = t
<1> DEFINE Was == \/ state[t] = "succeeded"
                  \/ \E w \in Workers : Commit(w) /\ verdict[w] = "succeeded" /\ box[w].task = t
<1> USE DEF TypeOK, taskVars, storeVars
<1>1. ASSUME UNCHANGED vars \/ EngineTick PROVE Was
  BY <1>1 DEF vars, EngineTick, Tick
<1>2. ASSUME NEW u \in Tasks, Api(u) PROVE Was
  BY <1>2 DEF Api, Enqueue, CancelRead, CancelWrite
<1>3. ASSUME NEW d \in Delays, RecoverExpired(d) PROVE Was
  BY <1>3 DEF RecoverExpired
<1>4. ASSUME NEW w \in Workers, Recover(w) \/ Crash(w) \/ Restart(w) PROVE Was
  <2>1. 0 \in Delays
    BY StoreAssumption DEF Delays
  <2> QED BY <1>3, <1>4, <2>1 DEF Recover, Crash, Restart, AbortClaim
<1>5. ASSUME NEW w \in Workers, Claim(w) \/ Begin(w) \/ Watch(w) \/ End(w) \/ CommitLost(w)
      PROVE  Was
  BY <1>5 DEF Claim, StartClaim, SelectCandidate, Claimed, ClaimCandidate, ClaimMissed,
     SkipCandidate, Begin, StartHandler, MarkRunning, StartLost, Watch, MonitorCheck,
     MonitorSeesCancel, MonitorHeartbeat, Heartbeat, MonitorLost, MonitorStore, End,
     HandlerReturns, HandlerStopped, CommitLost
<1>6. ASSUME NEW w \in Workers, Commit(w) PROVE Was
  <2>1. PICK d \in Delays :
          IF verdict[w] = "retry"
          THEN Retry(w, box[w].task, box[w].version, d)
          ELSE Finish(w, box[w].task, box[w].version, d, verdict[w])
    BY <1>6 DEF Commit
  <2>2. CASE verdict[w] = "retry"
    BY <2>1, <2>2 DEF Retry
  <2>3. CASE verdict[w] # "retry"
    BY <1>6, <2>1, <2>3 DEF Finish
  <2> QED BY <2>2, <2>3
<1> HIDE DEF Was
<1>7. Was
  BY <1>1, <1>2, <1>4, <1>5, <1>6 DEF EngineNext, Work, Settle
<1> QED BY <1>7 DEF Was

LEMMA SuccessStep ==
  ASSUME TypeOK, RunnerTypeOK, TokenInv, VerdictInv, SuccessFromCurrentAttempt, [EngineNext]_vars
  PROVE  SuccessFromCurrentAttempt'
<1> SUFFICES ASSUME NEW t \in Tasks, state'[t] = "succeeded"
             PROVE  attempts'[t] \in returned'[t]
  BY DEF SuccessFromCurrentAttempt
<1>1. CASE state[t] = "succeeded"
  <2>1. version'[t] = version[t]
    BY <1>1, EngineStepIsNext, StaysOverStep DEF StaysOver, TerminalTask
  <2>2. attempts'[t] = attempts[t]
    BY <1>1, <2>1, EngineStepIsNext, VersionFences
  <2> QED BY <1>1, <2>2, ReturnedGrows DEF SuccessFromCurrentAttempt
<1>2. ASSUME NEW w \in Workers, Commit(w), verdict[w] = "succeeded", box[w].task = t
      PROVE  attempts'[t] \in returned'[t]
  <2>1. pc[w] = "finishing" /\ box[w] # None /\ monitor[w] # "renewed"
    BY <1>2 DEF Commit, RunnerTypeOK
  <2>2. version[t] = box[w].version /\ attempts' = attempts
    BY <1>2 DEF Commit, Finish, Owns
  <2>3. attempts[t] = box[w].attempts
    BY <1>2, <2>1, <2>2 DEF TokenInv, Known
  <2> QED BY <1>2, <2>2, <2>3, ReturnedGrows DEF VerdictInv
<1> QED BY <1>1, <1>2, OnlyCommitSucceeds

-----------------------------------------------------------------------------
(* The run of a task.                                                      *)

\* A step that leaves the rows of the queue and of the runs alone.
LEMMA RowsStay ==
  ASSUME UNCHANGED <<state, leasedBy, runStatus, runLeasedBy, cancelView>>, NEW t, RunSound(t)
  PROVE  RunSound(t)'
BY DEF RunSound

\* The API.
LEMMA ApiRunSound ==
  ASSUME TypeOK, NEW u \in Tasks, Api(u), NEW t \in RunTasks, RunSound(t)
  PROVE  RunSound(t)'
<1> USE DEF TypeOK, RunSound, TerminalTask, OpenRun, RunStatus, TaskState
<1>0. t \in Tasks
  BY StoreAssumption
<1>1. CASE Enqueue(u)
  BY <1>0, <1>1, StoreAssumption DEF Enqueue
<1>2. CASE CancelRead(u)
  BY <1>0, <1>2 DEF CancelRead, taskVars, linkVars
<1>3. CASE CancelWrite(u)
  BY <1>0, <1>3 DEF CancelWrite, CancelledTask
<1> QED BY <1>1, <1>2, <1>3 DEF Api

\* The recovery gives the run back or fails it with its task.
LEMMA RecoverRunSound ==
  ASSUME TypeOK, NEW d \in Delays, RecoverExpired(d), NEW t \in RunTasks, RunSound(t)
  PROVE  RunSound(t)'
<1>0. t \in Tasks
  BY StoreAssumption
<1>1. CASE t \in Expired(d)
  <2>1. /\ state'[t] = (IF Retryable(t) THEN "pending" ELSE "failed")
        /\ runStatus'[t] = RecoveredRun(t) /\ cancelView' = cancelView /\ Held(t)
    BY <1>0, <1>1 DEF RecoverExpired, Expired
  <2>2. runStatus[t] \in RunStatus
    BY <1>0 DEF TypeOK
  <2> QED BY <2>1, <2>2 DEF RecoveredRun, RunSound, Held, TerminalTask, OpenRun, RunStatus
<1>2. CASE t \notin Expired(d)
  <2>1. /\ state'[t] = state[t] /\ leasedBy'[t] = leasedBy[t] /\ runStatus'[t] = runStatus[t]
        /\ runLeasedBy'[t] = runLeasedBy[t] /\ cancelView' = cancelView
    BY <1>0, <1>2 DEF RecoverExpired
  <2> QED BY <2>1 DEF RunSound
<1> QED BY <1>1, <1>2

\* The start of the handler makes the run the worker's; what the handler's
\* worker commits finds it so.
LEMMA OwnerRunSound ==
  ASSUME TypeOK, RunnerTypeOK, TokenInv, NEW w \in Workers, StartHandler(w) \/ Commit(w),
         NEW t \in RunTasks, RunSound(t)
  PROVE  RunSound(t)'
<1> DEFINE u == box[w].task
<1> USE DEF TypeOK, RunSound, TerminalTask, OpenRun, RunStatus, TaskState
<1>0. t \in Tasks
  BY StoreAssumption
<1>1. pc[w] \in {"claimed", "finishing"} /\ u \in Tasks /\ box[w] # None /\ monitor[w] # "renewed"
  BY TokenHeld DEF StartHandler, Commit, RunnerTypeOK
<1>2. CASE StartHandler(w)
  <2>1. PICK d \in Delays : MarkRunning(w, u, box[w].version, d)
    BY <1>2 DEF StartHandler
  <2> QED BY <1>0, <1>1, <2>1 DEF MarkRunning, Owns
<1>3. CASE Commit(w)
  <2>1. PICK d \in Delays :
          IF verdict[w] = "retry"
          THEN Retry(w, u, box[w].version, d)
          ELSE Finish(w, u, box[w].version, d, verdict[w])
    BY <1>3 DEF Commit
  <2>2. /\ pc[w] = "finishing" /\ version[u] = box[w].version /\ leasedBy[u] = w
        /\ UNCHANGED cancelView
    BY <1>3, <2>1 DEF Commit, Retry, Finish, Owns
  <2>3. state[u] = "running"
    BY <1>1, <2>2 DEF TokenInv, Known
  <2>4. CASE verdict[w] = "retry"
    BY <1>0, <1>1, <2>1, <2>2, <2>3, <2>4 DEF Retry
  <2>5. CASE verdict[w] # "retry"
    <3>1. verdict[w] \in TerminalTask
      BY <2>1, <2>5 DEF Finish
    <3>2. CASE t = u
      <4>1. /\ state'[t] = verdict[w]
            /\ runStatus'[t] = IF runStatus[t] \in OpenRun THEN verdict[w] ELSE runStatus[t]
        BY <1>0, <2>1, <2>2, <2>3, <2>5, <3>2 DEF Finish
      <4> QED BY <1>0, <2>2, <2>3, <3>1, <3>2, <4>1
    <3>3. CASE t # u
      BY <1>0, <1>1, <2>1, <2>2, <2>5, <3>3 DEF Finish
    <3> QED BY <3>2, <3>3
  <2> QED BY <2>4, <2>5
<1> QED BY <1>2, <1>3

LEMMA RunInvStep ==
  ASSUME TypeOK, RunnerTypeOK, TokenInv, RunInv, [EngineNext]_vars
  PROVE  RunInv'
<1> SUFFICES ASSUME NEW t \in RunTasks PROVE RunSound(t)'
  BY DEF RunInv
<1>0. RunSound(t) /\ t \in Tasks /\ 0 \in Delays
  BY StoreAssumption DEF RunInv, Delays
<1>1. CASE UNCHANGED vars
  BY <1>0, <1>1, RowsStay DEF vars, storeVars, taskVars, linkVars
<1>2. ASSUME NEW u \in Tasks, Api(u) PROVE RunSound(t)'
  BY <1>0, <1>2, ApiRunSound
<1>3. CASE EngineTick
  BY <1>0, <1>3, RowsStay DEF EngineTick, Tick, linkVars
<1>4. ASSUME NEW w \in Workers, Recover(w) \/ Restart(w) PROVE RunSound(t)'
  <2>1. CASE \E d \in Delays : RecoverExpired(d)
    BY <1>0, <2>1, RecoverRunSound
  <2>2. CASE UNCHANGED storeVars
    BY <1>0, <2>2, RowsStay DEF storeVars, taskVars, linkVars
  <2> QED BY <1>0, <1>4, <2>1, <2>2 DEF Recover, Restart
<1>5. ASSUME NEW w \in Workers, Crash(w) \/ StartLost(w) \/ MonitorCheck(w) \/ MonitorSeesCancel(w)
             \/ MonitorLost(w) \/ MonitorStore(w) \/ End(w) \/ CommitLost(w)
      PROVE  RunSound(t)'
  <2>1. UNCHANGED <<taskVars, linkVars, cancelView>>
    BY <1>5 DEF Crash, AbortClaim, StartLost, MonitorCheck, MonitorSeesCancel, MonitorLost,
       MonitorStore, End, HandlerReturns, HandlerStopped, CommitLost, storeVars
  <2> QED BY <1>0, <2>1, RowsStay DEF taskVars, linkVars
<1>6. ASSUME NEW w \in Workers, MonitorHeartbeat(w) PROVE RunSound(t)'
  BY <1>0, <1>6, RowsStay DEF MonitorHeartbeat, Heartbeat, linkVars
<1>7. ASSUME NEW w \in Workers, Claim(w) PROVE RunSound(t)'
  <2>1. CASE (\E u \in Tasks : StartClaim(w, u)) \/ ClaimMissed(w)
    <3>1. UNCHANGED <<taskVars, linkVars, cancelView>>
      BY <2>1 DEF StartClaim, SelectCandidate, ClaimMissed, SkipCandidate
    <3> QED BY <1>0, <3>1, RowsStay DEF taskVars, linkVars
  <2>2. CASE Claimed(w)
    <3> DEFINE u == candidate[w].task
    <3>1. /\ u \in Tasks /\ Claimable(candidate[w])
          /\ state' = [state EXCEPT ![u] = "leased"] /\ leasedBy' = [leasedBy EXCEPT ![u] = w]
          /\ UNCHANGED <<linkVars, cancelView>>
      BY <2>2 DEF Claimed, ClaimCandidate, TypeOK, Candidate
    <3>2. state[u] \in {"pending", "leased", "running"}
      BY <3>1 DEF Claimable, Runnable, Held
    <3> QED BY <1>0, <3>1, <3>2 DEF RunSound, TerminalTask, linkVars, TypeOK
  <2> QED BY <1>7, <2>1, <2>2 DEF Claim
<1>8. ASSUME NEW w \in Workers, StartHandler(w) \/ Commit(w) PROVE RunSound(t)'
  BY <1>0, <1>8, OwnerRunSound
<1> QED BY <1>1, <1>2, <1>3, <1>4, <1>5, <1>6, <1>7, <1>8
    DEF EngineNext, Work, Begin, Watch, Settle

-----------------------------------------------------------------------------
(* The lease under a running handler.                                      *)

\* What another transaction makes of a row that is being worked on.
RowStays(t) ==
  state'[t] = state[t] /\ leasedBy'[t] = leasedBy[t] /\ attempts'[t] = attempts[t]

\* A lease that was passed on under a handler is not forgotten.
LEMMA OutlivedGrows ==
  ASSUME [EngineNext]_vars
  PROVE  outlived \subseteq outlived'
<1>1. UNCHANGED outlived \/ \E T : PassOn(T)
  <2>1. ASSUME UNCHANGED vars \/ EngineTick \/ (\E t \in Tasks : Api(t)) PROVE UNCHANGED outlived
    BY <2>1 DEF vars, runnerVars, Api, EngineTick
  <2>2. ASSUME NEW w \in Workers, Recover(w) \/ Crash(w) \/ Restart(w) \/ Claim(w)
        PROVE  UNCHANGED outlived \/ \E T : PassOn(T)
    BY <2>2 DEF Recover, Crash, Restart, Claim, StartClaim, Claimed, ClaimMissed, runnerVars
  <2>3. ASSUME NEW w \in Workers, Begin(w) \/ Watch(w) \/ End(w) \/ Settle(w)
        PROVE  UNCHANGED outlived
    BY <2>3 DEF Begin, StartHandler, StartLost, Leave, Watch, MonitorCheck, MonitorSeesCancel,
       MonitorHeartbeat, MonitorLost, MonitorStore, MonitorGoes, MonitorEnds, End, HandlerReturns,
       HandlerStopped, Settle, Commit, CommitLost
  <2> QED BY <2>1, <2>2, <2>3 DEF EngineNext, Work
<1> QED BY <1>1 DEF PassOn

\* A handler that runs after a step ran before it, or was started by it.
LEMMA HandlingBefore ==
  ASSUME TypeOK, RunnerTypeOK, RunnerTypeOK', [EngineNext]_vars, NEW w \in Workers,
         NEW t \in Tasks, Handling(w, t)', ~ StartHandler(w)
  PROVE  /\ Handling(w, t) /\ box'[w].attempts = box[w].attempts
         /\ ~ Claimed(w) /\ ~ Commit(w)
<1>1. box'[w] # None /\ pc'[w] \in {"executing", "stopping"}
  BY DEF Handling, RunnerTypeOK
<1>2. ~ Claimed(w) /\ ~ Commit(w)
  BY <1>1 DEF Claimed, Commit, Leave, RunnerTypeOK
<1>3. CASE MonitorHeartbeat(w)
  <2>1. UNCHANGED <<box, pc>>
    BY <1>3 DEF MonitorHeartbeat, MonitorGoes
  <2> QED BY <1>2, <2>1 DEF Handling
<1>4. CASE ~ MonitorHeartbeat(w)
  <2>1. box[w] # None /\ box'[w].task = box[w].task /\ box'[w].attempts = box[w].attempts
        /\ pc[w] \notin {"loop", "down", "claimed"}
    BY <1>1, <1>2, <1>4, Memory
  <2>2. pc[w] # "finishing"
    <3>1. ASSUME pc[w] = "finishing" PROVE pc'[w] = "finishing" \/ box'[w] = None
      <4>1. CASE Work(w) \/ Crash(w) \/ Restart(w)
        BY <3>1, <4>1 DEF Work, Claim, StartClaim, Claimed, ClaimMissed, Begin, StartHandler,
           StartLost, Watch, MonitorCheck, MonitorSeesCancel, MonitorHeartbeat, MonitorLost,
           MonitorStore, Asked, End, HandlerReturns, HandlerStopped, Settle, Commit, CommitLost,
           Leave, Crash, Restart, RunnerTypeOK
      <4>2. CASE ~ (Work(w) \/ Crash(w) \/ Restart(w))
        BY <3>1, <4>2, OthersStay
      <4> QED BY <4>1, <4>2
    <3> QED BY <1>1, <3>1
  <2>3. pc[w] \in {"executing", "stopping"}
    BY <2>1, <2>2 DEF RunnerTypeOK, Location
  <2>4. box[w].task = t
    BY <2>1 DEF Handling
  <2> QED BY <1>2, <2>1, <2>3, <2>4 DEF Handling
<1> QED BY <1>3, <1>4

LEMMA HeldInvStep ==
  ASSUME TypeOK, RunnerTypeOK, RunnerTypeOK', TokenInv, HeldInv, [EngineNext]_vars
  PROVE  HeldInv'
<1> SUFFICES ASSUME NEW w \in Workers, NEW t \in Tasks, Handling(w, t)', t \notin outlived'
             PROVE  /\ leasedBy'[t] = w /\ state'[t] = "running"
                    /\ attempts'[t] = box'[w].attempts
  BY DEF HeldInv
<1>0. t \notin outlived
  BY OutlivedGrows
<1>1. CASE StartHandler(w)
  <2>1. /\ pc[w] = "claimed" /\ box[w] # None /\ box[w] \in LeaseToken /\ monitor[w] = "off"
    BY <1>1, TokenHeld DEF StartHandler, RunnerTypeOK
  <2>2. box'[w] = [box[w] EXCEPT !.version = @ + 1]
    BY <1>1 DEF StartHandler, RunnerTypeOK
  <2>3. box'[w].task = box[w].task /\ box'[w].attempts = box[w].attempts
    BY <2>1, <2>2 DEF LeaseToken
  <2>4. box[w].task = t
    BY <2>3 DEF Handling
  <2>5. /\ version[t] = box[w].version /\ leasedBy[t] = w
        /\ state' = [state EXCEPT ![t] = "running"]
        /\ UNCHANGED <<leasedBy, attempts>>
    BY <1>1, <2>4 DEF StartHandler, MarkRunning, Owns
  <2> QED BY <2>1, <2>3, <2>4, <2>5 DEF TokenInv, Known, TypeOK
<1>2. CASE ~ StartHandler(w)
  <2>1. Handling(w, t) /\ box'[w].attempts = box[w].attempts /\ ~ Claimed(w) /\ ~ Commit(w)
    BY <1>2, HandlingBefore
  <2>2. leasedBy[t] = w /\ state[t] = "running" /\ attempts[t] = box[w].attempts
    BY <1>0, <2>1 DEF HeldInv
  <2> SUFFICES RowStays(t)
    BY <2>1, <2>2 DEF RowStays
  <2>3. ASSUME UNCHANGED taskVars PROVE RowStays(t)
    BY <2>3 DEF taskVars, RowStays
  <2>4. CASE UNCHANGED vars
    BY <2>3, <2>4 DEF vars, storeVars
  <2>5. ASSUME NEW u \in Tasks, Api(u) PROVE RowStays(t)
    BY <2>2, <2>5 DEF Api, Enqueue, CancelRead, CancelWrite, CancelledTask, taskVars, RowStays,
       TypeOK
  <2>6. CASE EngineTick
    BY <2>6 DEF EngineTick, Tick, RowStays
  <2>7. ASSUME NEW v \in Workers, Recover(v) \/ Restart(v) PROVE RowStays(t)
    <3>1. ASSUME NEW d \in Delays, RecoverExpired(d), PassOn(Expired(d)) PROVE RowStays(t)
      <4>1. t \notin Expired(d)
        BY <2>1, <3>1 DEF PassOn
      <4> QED BY <3>1, <4>1 DEF RecoverExpired, RowStays, TypeOK
    <3>2. 0 \in Delays
      BY StoreAssumption DEF Delays
    <3> QED BY <2>3, <2>7, <3>1, <3>2 DEF Recover, Restart, storeVars
  <2>8. ASSUME NEW v \in Workers, Crash(v) \/ StartLost(v) \/ MonitorCheck(v) \/ MonitorSeesCancel(v)
               \/ MonitorLost(v) \/ MonitorStore(v) \/ End(v) \/ CommitLost(v)
        PROVE  RowStays(t)
    BY <2>3, <2>8 DEF Crash, AbortClaim, StartLost, MonitorCheck, MonitorSeesCancel, MonitorLost,
       MonitorStore, End, HandlerReturns, HandlerStopped, CommitLost, storeVars
  <2>9. ASSUME NEW v \in Workers, Claim(v) PROVE RowStays(t)
    <3>1. CASE (\E u \in Tasks : StartClaim(v, u)) \/ ClaimMissed(v)
      BY <2>3, <3>1 DEF StartClaim, SelectCandidate, ClaimMissed, SkipCandidate
    <3>2. CASE Claimed(v)
      <4>1. candidate[v].task # t
        BY <2>1, <3>2 DEF Claimed, PassOn
      <4> QED BY <3>2, <4>1 DEF Claimed, ClaimCandidate, RowStays, TypeOK
    <3> QED BY <2>9, <3>1, <3>2 DEF Claim
  <2>10. ASSUME NEW v \in Workers, StartHandler(v) PROVE RowStays(t)
    <3>1. box[v].task # t
      BY <2>2, <2>10 DEF StartHandler, MarkRunning
    <3> QED BY <2>10, <3>1 DEF StartHandler, MarkRunning, RowStays, TypeOK
  <2>11. ASSUME NEW v \in Workers, MonitorHeartbeat(v) PROVE RowStays(t)
    BY <2>11 DEF MonitorHeartbeat, Heartbeat, RowStays
  <2>12. ASSUME NEW v \in Workers, Commit(v) PROVE RowStays(t)
    <3>1. leasedBy[box[v].task] = v /\ v # w
      BY <2>1, <2>12 DEF Commit, Finish, Retry, Owns
    <3>2. box[v].task # t
      BY <2>2, <3>1
    <3> QED BY <2>12, <3>2 DEF Commit, Finish, Retry, RowStays, TypeOK
  <2> QED BY <2>4, <2>5, <2>6, <2>7, <2>8, <2>9, <2>10, <2>11, <2>12
      DEF EngineNext, Work, Begin, Watch, Settle
<1> QED BY <1>1, <1>2

-----------------------------------------------------------------------------
(* The theorems.                                                           *)

EngineInv ==
  /\ TypeOK /\ RunnerTypeOK /\ TokenInv /\ VerdictInv /\ SuccessFromCurrentAttempt
  /\ RunInv

LEMMA EngineStaysSound == EngineSpec => []EngineInv
<1>1. EngineInit => EngineInv
  <2> SUFFICES ASSUME EngineInit PROVE EngineInv
    OBVIOUS
  <2>1. TypeOK /\ RunnerTypeOK
    BY InitTypeOK, InitRunnerTypeOK DEF EngineInit
  <2>2. /\ \A w \in Workers : box[w] = None /\ verdict[w] = None
        /\ \A t \in Tasks : state[t] = "absent" /\ runStatus[t] = "absent" /\ cancelView[t] = None
    BY DEF EngineInit, Init, RunnerInit
  <2>3. TokenInv /\ VerdictInv /\ SuccessFromCurrentAttempt
    BY <2>2, RunnerAssumption DEF TokenInv, VerdictInv, SuccessFromCurrentAttempt, Reason, TerminalTask
  <2>4. RunInv
    BY <2>2, StoreAssumption DEF RunInv, RunSound, TerminalTask, OpenRun
  <2> QED BY <2>1, <2>3, <2>4 DEF EngineInv
<1>2. EngineInv /\ [EngineNext]_vars => EngineInv'
  BY EngineStepIsNext, TypeStep, RunnerTypeStep, TokenInvStep, VerdictInvStep, SuccessStep,
     RunInvStep
  DEF EngineInv
<1> QED BY <1>1, <1>2, PTL DEF EngineSpec

\* A task is reported as succeeded only if the handler of its last attempt
\* returned normally, not one of an earlier owner (engine.py _execute): the
\* version that the worker presents is the proof that nobody came after it.
THEOREM SuccessIsEarned == EngineSpec => []SuccessFromCurrentAttempt
BY EngineStaysSound, PTL DEF EngineInv

\* Task and run end together and alike, or the run was cancelled: mark_running,
\* finish, retry and the recovery agree, whoever dies or stalls when.
THEOREM RunsFollowTasks == EngineSpec => []RunFollowsTask
<1>1. EngineInv => RunFollowsTask
  BY DEF EngineInv, RunInv, RunSound, RunFollowsTask
<1> QED BY <1>1, EngineStaysSound, PTL

-----------------------------------------------------------------------------
(***************************************************************************)
(*                              The handlers.                              *)
(***************************************************************************)

Server == RunTasks \cup DepTasks
BuildLocation == {"checkout", "load", "build", "resolve", "save", "bind"}

-----------------------------------------------------------------------------
(* The inductive invariant.                                                *)

\* The worker is the one whose handler, or whose result, counts: no lease was
\* passed on under a handler of its task, and its token is still the row's.
Mine(w) ==
  /\ box[w] # None
  /\ Task(w) \notin outlived
  /\ \/ pc[w] \in {"executing", "stopping"}
     \/ pc[w] = "finishing" /\ version[Task(w)] = box[w].version

\* Which handler is where, and what it says.
Place(w) ==
  /\ hpc[w] \in BuildLocation => Task(w) \in RunTasks
  /\ hpc[w] \in {"start", "check", "script", "report"} => Task(w) \notin RunTasks
  /\ hpc[w] = "check" => Task(w) \in DepTasks
  /\ hpc[w] = "script" => Task(w) \notin DepTasks
  /\ hpc[w] \in {"prepare", "remote", "record"} => Task(w) \in Server
  /\ hpc[w] = "complete" => Task(w) \in RunTasks
  /\ hpc[w] = "report" => outcome[w] \in {"succeeded", "failed"}
  /\ hpc[w] = "done" => outcome[w] \in {"succeeded", "failed", "cancelled"}
  /\ hpc[w] = "save" => image[w] <= pushes[Task(w)]

PlaceInv == \A w \in Workers : Place(w)

\* A handler builds only for a run without a digest, and deploys the run's.
ImageSound(w) ==
  /\ hpc[w] \in {"build", "resolve", "save"} => artifact[Task(w)] = 0
  /\ hpc[w] = "resolve" => pushes[Task(w)] # 0
  /\ hpc[w] = "save" => image[w] # 0
  /\ hpc[w] = "bind" => image[w] # 0 /\ image[w] = artifact[Task(w)]

ImageInv == \A w \in Workers : Mine(w) => ImageSound(w)

\* A deployment is open, or healthy and to be rolled back.
Undecided(t) == depStatus[t] \in OpenDep \/ (t \in RollbackTasks /\ depStatus[t] = "healthy")

\* A handler acts on a server only for a deployment that is not decided.
DeploymentInv ==
  /\ \A w \in Workers :
       Mine(w) /\ hpc[w] \in {"prepare", "remote", "record"} => Undecided(Task(w))
  /\ \A t \in Tasks : /\ state[t] = "absent" => depStatus[t] = "absent"
                      /\ depStatus[t] # "absent" => t \in Server

\* The handlers that have yet to run the script of a task, and the runs so far,
\* are not more than the starts.
Scripts(t) == {w \in Workers : hpc[w] \in {"start", "script"} /\ Task(w) = t}

ScriptSound(t) ==
  IsFiniteSet(Scripts(t)) /\ ran[t] + Cardinality(Scripts(t)) <= starts[t]

ScriptInv == \A t \in Tasks : ScriptSound(t)

\* What a task has to show before it may be called a success.
Achieved(t) ==
  /\ t \in Server => depStatus[t] = Goal(t)
  /\ t \notin Server => ran[t] # 0

Reported(t) == t \in OpTasks => opState[t] \in OpenOp \cup {"succeeded"}

\* A handler, or a worker, that speaks of success has it to show.
Promise(w) ==
  /\ hpc[w] \in {"report", "done"} /\ outcome[w] = "succeeded" => Achieved(Task(w))
  /\ hpc[w] = "complete" => Achieved(Task(w)) /\ Reported(Task(w))
  /\ hpc[w] = "done" /\ outcome[w] = "succeeded" => Reported(Task(w))
  /\ verdict[w] = "succeeded" => Achieved(Task(w)) /\ Reported(Task(w))

\* The operation of a pipeline, to which its handler does not report, is open
\* until the end.
OpenInv ==
  \A t \in RunTasks \cap OpTasks :
    state[t] \in {"pending", "leased", "running"} => opState[t] \in OpenOp

SuccessInv ==
  /\ OpenInv
  /\ \A w \in Workers : verdict[w] = "succeeded" => pc[w] = "finishing"
  /\ \A w \in Workers : Mine(w) => Promise(w)

-----------------------------------------------------------------------------
(* Handlers and the engine.                                                *)

\* A handler writes to the operation and the deployment of its task, and to
\* nothing that the engine relies on.
LEMMA HandlerIsQuiet ==
  ASSUME NEW w \in Workers, HandlerStep(w)
  PROVE  UNCHANGED <<runnerVars, taskVars, runStatus, runLeasedBy, cancelRequested, candidate,
                     cancelView>>
<1> USE DEF storeVars, linkVars, At
<1>1. CASE Checkout(w) \/ LoadArtifact(w) \/ BuildAndPush(w) \/ ResolveDigest(w) \/ SaveArtifact(w)
  BY <1>1 DEF Checkout, LoadArtifact, BuildAndPush, ResolveDigest, SaveArtifact
<1>2. CASE Bind(w)
  BY <1>2 DEF Bind, BindDeployment
<1>3. CASE ReportExecuting(w) \/ Report(w)
  BY <1>3 DEF ReportExecuting, Report, SetOperation, SetOperationState
<1>4. CASE CheckDeployment(w) \/ Record(w)
  BY <1>4 DEF CheckDeployment, Record, SetDeploymentStatus
<1>5. CASE Prepare(w) \/ Remote(w) \/ RunScript(w) \/ Complete(w)
  BY <1>5 DEF Prepare, Remote, RunScript, Complete
<1> QED BY <1>1, <1>2, <1>3, <1>4, <1>5 DEF HandlerStep

\* A handler that takes a step is at some place.
LEMMA HandlerRuns == ASSUME NEW w \in Workers, HandlerStep(w) PROVE hpc[w] # "idle"
BY DEF HandlerStep, Checkout, LoadArtifact, BuildAndPush, ResolveDigest, SaveArtifact, Bind,
   ReportExecuting, CheckDeployment, Prepare, Remote, RunScript, Record, Complete, Report, At

\* Every other step is one of the engine.
LEMMA EngineStepOf ==
  ASSUME NEW w \in Workers, Start(w) \/ Return(w) \/ Stop(w)
  PROVE  Work(w)
<1>1. CASE Start(w)
  BY <1>1 DEF Start, Work, Begin
<1>2. CASE Return(w)
  <2>1. HandlerReturns(w, outcome[w]) /\ outcome[w] \in HandlerResults \cup {"cancelled"}
    BY <1>2 DEF Return, HandlerReturns
  <2> QED BY <2>1 DEF Work, End
<1>3. CASE Stop(w)
  BY <1>3 DEF Stop, Work, End
<1> QED BY <1>1, <1>2, <1>3

LEMMA AroundStepOf ==
  ASSUME NEW w \in Workers, Around(w)
  PROVE  Work(w) \/ Recover(w) \/ Restart(w)
BY DEF Around, Work, Begin

LEMMA HandlersSteps ==
  ASSUME [HandlersNext]_allVars
  PROVE  [EngineNext]_vars \/ \E w \in Workers : HandlerStep(w)
<1>1. CASE UNCHANGED allVars
  BY <1>1 DEF allVars
<1> QED BY <1>1, EngineStepOf, AroundStepOf DEF HandlersNext, EngineNext

\* The types and the places.
HandlerBase == TypeOK /\ RunnerTypeOK /\ HandlerTypeOK /\ PlaceInv

\* What a handler writes is what any caller of the store may write.
LEMMA HandlerIsNext ==
  ASSUME HandlerBase, NEW w \in Workers, HandlerStep(w)
  PROVE  [Next]_storeVars
<1> USE DEF HandlerBase
<1>0. hpc[w] # "idle" /\ pc[w] \in {"executing", "stopping"} /\ Task(w) \in Tasks
  <2>1. hpc[w] # "idle"
    BY HandlerRuns
  <2> QED BY <2>1, TokenHeld DEF HandlerTypeOK, Task
<1>1. \A s \in {"executing", "succeeded", "failed"} :
        SetOperation(Task(w), s) => [Next]_storeVars
  BY <1>0 DEF SetOperation, Next, HandlerWrite
<1>2. \A s \in DepStatus \ {"absent", "pending"} :
        SetDeploymentStatus(Task(w), s) => [Next]_storeVars
  BY <1>0 DEF Next, HandlerWrite
<1>3. CASE \/ Checkout(w) \/ LoadArtifact(w) \/ BuildAndPush(w) \/ ResolveDigest(w)
           \/ SaveArtifact(w) \/ Prepare(w) \/ Remote(w) \/ RunScript(w) \/ Complete(w)
  BY <1>3 DEF Checkout, LoadArtifact, BuildAndPush, ResolveDigest, SaveArtifact, Prepare, Remote,
     RunScript, Complete
<1>4. CASE Bind(w)
  <2>1. CASE UNCHANGED storeVars
    BY <2>1
  <2>2. CASE BindDeployment(w, Task(w), box[w].attempts, 0)
    <3>1. box[w].attempts = attempts[Task(w)] /\ 0 \in Delays
      BY <2>2, StoreAssumption DEF BindDeployment, Delays
    <3>2. BindDeployment(w, Task(w), attempts[Task(w)], 0)
      BY <2>2, <3>1
    <3>3. HandlerWrite(Task(w))
      BY <3>1, <3>2 DEF HandlerWrite
    <3> QED BY <1>0, <3>3 DEF Next
  <2> QED BY <1>4, <2>1, <2>2 DEF Bind
<1>5. CASE ReportExecuting(w)
  BY <1>1, <1>5 DEF ReportExecuting
<1>6. CASE CheckDeployment(w)
  BY <1>2, <1>6 DEF CheckDeployment, DepStatus, OpenDep
<1>7. CASE Record(w)
  <2>1. \E s \in {"healthy", "rolled_back", "failed"} : SetDeploymentStatus(Task(w), s)
    BY <1>7 DEF Record, Goal, Restored
  <2> QED BY <1>2, <2>1 DEF DepStatus, OpenDep
<1>8. CASE Report(w)
  BY <1>1, <1>8 DEF Report, At, PlaceInv, Place
<1> QED BY <1>3, <1>4, <1>5, <1>6, <1>7, <1>8 DEF HandlerStep

\* So the handlers, too, only do what any caller of the store may do.
LEMMA HandlersStepIsNext ==
  ASSUME HandlerBase, [HandlersNext]_allVars
  PROVE  [Next]_storeVars
BY HandlersSteps, EngineStepIsNext, HandlerIsNext DEF HandlerBase

\* The memory of a handler that goes on, whoever else takes a step.
LEMMA HandlerStays ==
  ASSUME HandlerBase, [HandlersNext]_allVars, NEW w \in Workers, ~ HandlerStep(w), ~ Start(w),
         hpc'[w] # "idle"
  PROVE  /\ hpc[w] # "idle" /\ hpc'[w] = hpc[w] /\ outcome'[w] = outcome[w]
         /\ image'[w] = image[w] /\ Task(w)' = Task(w)
         /\ pc'[w] \in {"executing", "stopping"}
<1> DEFINE Same == hpc'[w] = hpc[w] /\ outcome'[w] = outcome[w] /\ image'[w] = image[w]
<1> USE DEF HandlerBase
<1>1. hpc \in [Workers -> HandlerLocation] /\ outcome \in [Workers -> Outcome]
      /\ image \in [Workers -> Nat]
  BY DEF HandlerTypeOK
<1>2. ASSUME NEW v \in Workers, v # w, HandlerStep(v) PROVE Same
  <2> USE <1>1 DEF Goto, GotoWith, Fails, handlerVars, localVars
  <2>1. CASE Checkout(v) \/ LoadArtifact(v) \/ BuildAndPush(v) \/ ResolveDigest(v) \/ SaveArtifact(v)
    BY <1>2, <2>1 DEF Checkout, LoadArtifact, BuildAndPush, ResolveDigest, SaveArtifact
  <2>2. CASE Bind(v)
    BY <1>2, <2>2 DEF Bind
  <2>3. CASE ReportExecuting(v) \/ CheckDeployment(v) \/ Prepare(v) \/ Remote(v) \/ RunScript(v)
             \/ Record(v) \/ Complete(v) \/ Report(v)
    BY <1>2, <2>3 DEF ReportExecuting, CheckDeployment, Prepare, Remote, RunScript, Record,
       Complete, Report
  <2> QED BY <1>2, <2>1, <2>2, <2>3 DEF HandlerStep
<1>3. ASSUME NEW v \in Workers, Start(v) PROVE Same
  BY <1>1, <1>3 DEF Start, Goto
<1>4. ASSUME NEW v \in Workers, Reset(v) PROVE Same /\ v # w
  BY <1>1, <1>4 DEF Reset
<1>5. ASSUME UNCHANGED handlerVars PROVE Same
  BY <1>5 DEF handlerVars, localVars
<1>6. Same
  <2> HIDE DEF Same
  <2>1. CASE UNCHANGED allVars
    BY <1>5, <2>1 DEF allVars
  <2>2. CASE HandlersNext
    BY <1>2, <1>3, <1>4, <1>5, <2>2 DEF HandlersNext, Return, Stop
  <2> QED BY <2>1, <2>2
<1>7. /\ hpc[w] # "idle" /\ pc[w] \in {"executing", "stopping"} /\ box[w] # None
      /\ box[w] \in LeaseToken
  BY <1>1, <1>6 DEF HandlerTypeOK, RunnerTypeOK
<1> DEFINE Goes == pc'[w] \in {"executing", "stopping"} /\ Task(w)' = Task(w)
<1>8. ASSUME box' = box, pc' = pc PROVE Goes
  BY <1>7, <1>8 DEF Task
<1>9. ASSUME NEW v \in Workers, v # w, Work(v) \/ Crash(v) \/ Restart(v) \/ Recover(v) PROVE Goes
  BY <1>7, <1>9, OtherWorker DEF Task
<1>10. ASSUME Around(w) PROVE Goes
  <2>1. Watch(w) \/ Recover(w)
    BY <1>7, <1>10 DEF Around, Claim, StartClaim, Claimed, ClaimMissed, StartLost, Settle,
       Commit, CommitLost, Restart
  <2>2. CASE Recover(w)
    BY <1>8, <2>2 DEF Recover
  <2>3. CASE Watch(w)
    <3>1. pc'[w] \in {"executing", "stopping"}
      BY <1>7, <2>3 DEF Watch, MonitorCheck, MonitorSeesCancel, MonitorHeartbeat, MonitorLost,
         MonitorStore, MonitorGoes, MonitorEnds, RunnerTypeOK
    <3>2. box'[w] = box[w] \/ box'[w] = [box[w] EXCEPT !.version = @ + 1]
      BY <2>3 DEF Watch, MonitorCheck, MonitorSeesCancel, MonitorHeartbeat, MonitorLost,
         MonitorStore, MonitorEnds, RunnerTypeOK
    <3>3. Task(w)' = Task(w)
      BY <1>7, <3>2 DEF Task, LeaseToken
    <3> QED BY <3>1, <3>3
  <2> QED BY <2>1, <2>2, <2>3
<1>11. Goes
  <2> HIDE DEF Goes
  <2>1. CASE UNCHANGED allVars
    BY <1>8, <2>1 DEF allVars, vars, runnerVars
  <2>2. ASSUME NEW v \in Workers, HandlerStep(v) PROVE Goes
    BY <1>8, <2>2, HandlerIsQuiet DEF runnerVars
  <2>3. ASSUME NEW v \in Workers, v # w, Start(v) \/ Return(v) \/ Stop(v) PROVE Goes
    BY <1>9, <2>3, EngineStepOf
  <2>4. ASSUME NEW v \in Workers, Return(v) \/ Stop(v) \/ (Crash(v) /\ Reset(v)) PROVE v # w
    BY <1>4, <2>4 DEF Return, Stop
  <2>5. ASSUME NEW v \in Workers, v # w, Around(v) PROVE Goes
    BY <1>9, <2>5, AroundStepOf
  <2>6. CASE EngineTick \/ \E t \in Tasks : Api(t)
    BY <1>8, <2>6 DEF EngineTick, Api, runnerVars
  <2> QED BY <1>9, <1>10, <2>1, <2>2, <2>3, <2>4, <2>5, <2>6 DEF HandlersNext
<1> QED BY <1>6, <1>7, <1>11

-----------------------------------------------------------------------------
(* Types and places.                                                       *)

\* A handler runs exactly while its worker is executing or stopping.
LEMMA IdleStep ==
  ASSUME HandlerBase, [HandlersNext]_allVars, NEW w \in Workers
  PROVE  hpc'[w] # "idle" <=> pc'[w] \in {"executing", "stopping"}
<1> DEFINE Fits == hpc'[w] # "idle" <=> pc'[w] \in {"executing", "stopping"}
<1> USE DEF HandlerBase, HandlerTypeOK, RunnerTypeOK
<1>1. ASSUME NEW v \in Workers, HandlerStep(v) PROVE Fits
  <2>1. UNCHANGED pc
    BY <1>1, HandlerIsQuiet DEF runnerVars
  <2>2. hpc[v] # "idle" /\ \E l \in HandlerLocation \ {"idle"} : hpc' = [hpc EXCEPT ![v] = l]
    <3> USE DEF At, Goto, GotoWith, Fails, HandlerLocation
    <3>1. CASE Checkout(v) \/ LoadArtifact(v) \/ BuildAndPush(v) \/ ResolveDigest(v)
      BY <3>1 DEF Checkout, LoadArtifact, BuildAndPush, ResolveDigest
    <3>2. CASE SaveArtifact(v) \/ Bind(v)
      BY <3>2 DEF SaveArtifact, Bind
    <3>3. CASE ReportExecuting(v) \/ CheckDeployment(v) \/ Prepare(v) \/ Remote(v)
      BY <3>3 DEF ReportExecuting, CheckDeployment, Prepare, Remote
    <3>4. CASE RunScript(v) \/ Record(v) \/ Complete(v) \/ Report(v)
      BY <3>4 DEF RunScript, Record, Complete, Report
    <3> QED BY <1>1, <3>1, <3>2, <3>3, <3>4 DEF HandlerStep
  <2> QED BY <2>1, <2>2
<1>2. ASSUME NEW v \in Workers, Start(v) PROVE Fits
  BY <1>2 DEF Start, StartHandler, Goto
<1>3. ASSUME NEW v \in Workers, Return(v) \/ Stop(v) \/ (Crash(v) /\ Reset(v)) PROVE Fits
  <2>1. /\ hpc' = [hpc EXCEPT ![v] = "idle"]
        /\ \E l \in {"finishing", "loop", "down"} : pc' = [pc EXCEPT ![v] = l]
    BY <1>3 DEF Return, HandlerReturns, Stop, HandlerStopped, Leave, Crash, Reset
  <2> QED BY <2>1
<1>4. ASSUME NEW v \in Workers, Around(v), UNCHANGED handlerVars PROVE Fits
  <2>1. UNCHANGED hpc
    BY <1>4 DEF handlerVars, localVars
  <2>2. CASE Watch(v)
    BY <2>1, <2>2 DEF Watch, MonitorCheck, MonitorSeesCancel, MonitorHeartbeat, MonitorLost,
       MonitorStore, MonitorGoes, MonitorEnds, Asked
  <2>3. CASE Claim(v) \/ Recover(v) \/ Restart(v)
    BY <2>1, <2>3 DEF Claim, StartClaim, Claimed, ClaimMissed, Recover, Restart, runnerVars
  <2>4. CASE StartLost(v) \/ Settle(v)
    BY <2>1, <2>4 DEF StartLost, Settle, Commit, CommitLost, Leave
  <2> QED BY <1>4, <2>2, <2>3, <2>4 DEF Around
<1>5. ASSUME \/ (EngineTick \/ \E t \in Tasks : Api(t)) /\ UNCHANGED handlerVars
             \/ UNCHANGED allVars
      PROVE  Fits
  BY <1>5 DEF EngineTick, Api, runnerVars, handlerVars, localVars, allVars, vars
<1> HIDE DEF Fits
<1>6. Fits
  BY <1>1, <1>2, <1>3, <1>4, <1>5 DEF HandlersNext
<1> QED BY <1>6 DEF Fits

\* Only a handler writes to the images and the scripts, and to those of its own task.
LEMMA ImagesStep ==
  ASSUME HandlerBase, [HandlersNext]_allVars
  PROVE  \/ UNCHANGED imageVars
         \/ \E w \in Workers : BuildAndPush(w) \/ SaveArtifact(w) \/ Bind(w) \/ RunScript(w)
BY DEF HandlersNext, HandlerStep, Checkout, LoadArtifact, ResolveDigest, ReportExecuting,
   CheckDeployment, Prepare, Remote, Record, Complete, Report, Start, Return, Stop, Reset, handlerVars, allVars

\* The memory of a handler and the rows of its task always have their types.
LEMMA HandlerTypeStep ==
  ASSUME HandlerBase, [HandlersNext]_allVars
  PROVE  HandlerTypeOK'
<1> DEFINE Typed ==
      /\ hpc' \in [Workers -> HandlerLocation] /\ outcome' \in [Workers -> Outcome]
      /\ image' \in [Workers -> Nat] /\ artifact' \in [Tasks -> Nat] /\ deployed' \in [Tasks -> Nat]
      /\ pushes' \in [Tasks -> Nat] /\ ran' \in [Tasks -> Nat]
      /\ \A t \in Tasks : artifact'[t] <= pushes'[t]
<1> USE DEF HandlerBase, HandlerTypeOK, HandlerLocation, Outcome, RemoteOutcome
<1>1. ASSUME NEW v \in Workers, HandlerStep(v) PROVE Typed
  <2> USE DEF At, Goto, GotoWith, Fails, imageVars
  <2>0. hpc[v] # "idle" => pc[v] \in {"executing", "stopping"} /\ Task(v) \in Tasks
    BY TokenHeld DEF Task
  <2>1. CASE Checkout(v) \/ LoadArtifact(v)
    BY <2>0, <2>1 DEF Checkout, LoadArtifact
  <2>2. CASE BuildAndPush(v)
    BY <2>0, <2>2 DEF BuildAndPush
  <2>3. CASE ResolveDigest(v)
    BY <2>0, <2>3 DEF ResolveDigest
  <2>4. CASE SaveArtifact(v)
    BY <2>0, <2>4 DEF SaveArtifact, PlaceInv, Place
  <2>5. CASE Bind(v)
    <3>1. image[v] \in Nat
      OBVIOUS
    <3>2. deployed' = deployed \/ deployed' = [deployed EXCEPT ![Task(v)] = image[v]]
      BY <2>5 DEF Bind
    <3>3. /\ UNCHANGED <<artifact, pushes, ran, image>>
          /\ \E l \in {"done", "prepare", "complete"} : hpc' = [hpc EXCEPT ![v] = l]
          /\ outcome' = outcome \/ \E o \in {"failed", "cancelled", "succeeded"} :
                                     outcome' = [outcome EXCEPT ![v] = o]
      BY <2>5, StoreAssumption DEF Bind, PlaceInv, Place, BuildLocation, IsPipeline
    <3> QED BY <3>1, <3>2, <3>3
  <2>6. CASE ReportExecuting(v) \/ CheckDeployment(v)
    BY <2>6 DEF ReportExecuting, CheckDeployment
  <2>7. CASE Prepare(v) \/ Remote(v) \/ RunScript(v) \/ Complete(v)
    BY <2>0, <2>7 DEF Prepare, Remote, RunScript, Complete
  <2>8. CASE Record(v) \/ Report(v)
    BY <2>8 DEF Record, Report
  <2> HIDE DEF Typed
  <2> QED BY <1>1, <2>1, <2>2, <2>3, <2>4, <2>5, <2>6, <2>7, <2>8 DEF HandlerStep
<1>2. ASSUME NEW v \in Workers, Start(v) PROVE Typed
  BY <1>2 DEF Start, Goto, imageVars
<1>3. ASSUME NEW v \in Workers, Reset(v) PROVE Typed
  BY <1>3 DEF Reset, imageVars
<1>4. ASSUME UNCHANGED handlerVars PROVE Typed
  BY <1>4 DEF handlerVars, localVars, imageVars
<1> HIDE DEF Typed
<1>5. Typed
  <2>1. CASE UNCHANGED allVars
    BY <1>4, <2>1 DEF allVars
  <2> QED BY <1>1, <1>2, <1>3, <1>4, <2>1 DEF HandlersNext, Return, Stop
<1> QED BY <1>5, IdleStep DEF Typed

\* An image that has been pushed stays pushed.
LEMMA PushesGrow ==
  ASSUME HandlerBase, [HandlersNext]_allVars, NEW t \in Tasks
  PROVE  pushes'[t] >= pushes[t]
<1> USE DEF HandlerBase, HandlerTypeOK
<1>1. UNCHANGED pushes \/ \E w \in Workers : pushes' = [pushes EXCEPT ![Task(w)] = @ + 1]
  BY ImagesStep DEF BuildAndPush, SaveArtifact, Bind, RunScript, imageVars
<1> QED BY <1>1

\* A handler's own step leads to a place that fits its task.
LEMMA OwnPlace ==
  ASSUME HandlerBase, NEW w \in Workers, HandlerStep(w)
  PROVE  Place(w)'
<1> USE DEF HandlerBase, PlaceInv, Place, At, Goto, GotoWith, Fails, BuildLocation, Server
<1>0. /\ hpc \in [Workers -> HandlerLocation] /\ outcome \in [Workers -> Outcome]
      /\ image \in [Workers -> Nat] /\ pushes \in [Tasks -> Nat]
  BY DEF HandlerTypeOK
<1>1. box' = box /\ Task(w)' = Task(w)
  BY HandlerIsQuiet DEF runnerVars, Task
<1>2. hpc[w] # "idle" => Task(w) \in Tasks
  BY TokenHeld DEF Task, HandlerTypeOK
<1>3. CASE Checkout(w) \/ LoadArtifact(w)
  BY <1>0, <1>1, <1>3 DEF Checkout, LoadArtifact, IsPipeline
<1>4. CASE BuildAndPush(w)
  BY <1>0, <1>1, <1>2, <1>4 DEF BuildAndPush, IsPipeline
<1>5. CASE ResolveDigest(w)
  BY <1>0, <1>1, <1>2, <1>5 DEF ResolveDigest, IsPipeline, imageVars
<1>6. CASE SaveArtifact(w)
  BY <1>0, <1>1, <1>6 DEF SaveArtifact
<1>7. CASE Bind(w)
  BY <1>0, <1>1, <1>7 DEF Bind, IsPipeline
<1>8. CASE ReportExecuting(w)
  BY <1>0, <1>1, <1>8 DEF ReportExecuting, IsDeployment
<1>9. CASE CheckDeployment(w)
  BY <1>0, <1>1, <1>9 DEF CheckDeployment, IsPipeline
<1>10. CASE Prepare(w) \/ Remote(w) \/ RunScript(w) \/ Complete(w)
  BY <1>0, <1>1, <1>10 DEF Prepare, Remote, RunScript, Complete, IsPipeline
<1>11. CASE Record(w)
  BY <1>0, <1>1, <1>11 DEF Record, IsPipeline
<1>12. CASE Report(w)
  BY <1>0, <1>1, <1>12 DEF Report
<1> QED BY <1>3, <1>4, <1>5, <1>6, <1>7, <1>8, <1>9, <1>10, <1>11, <1>12 DEF HandlerStep

LEMMA PlaceStep ==
  ASSUME HandlerBase, [HandlersNext]_allVars
  PROVE  PlaceInv'
<1> SUFFICES ASSUME NEW w \in Workers PROVE Place(w)'
  BY DEF PlaceInv
<1>1. CASE HandlerStep(w)
  BY <1>1, OwnPlace
<1>2. CASE Start(w)
  <2>1. hpc'[w] = IF IsPipeline(w) THEN "checkout" ELSE "start"
    BY <1>2 DEF Start, Goto, HandlerBase, HandlerTypeOK
  <2>2. pc[w] = "claimed" /\ box'[w] = [box[w] EXCEPT !.version = @ + 1]
    BY <1>2 DEF Start, StartHandler, HandlerBase, RunnerTypeOK
  <2>3. Task(w)' = Task(w)
    BY <2>2, TokenHeld DEF Task, HandlerBase, LeaseToken
  <2> QED BY <2>1, <2>3 DEF Place, IsPipeline, BuildLocation
<1>3. CASE hpc'[w] = "idle"
  BY <1>3 DEF Place, BuildLocation
<1>4. CASE ~ HandlerStep(w) /\ ~ Start(w) /\ hpc'[w] # "idle"
  <2>1. /\ hpc[w] # "idle" /\ hpc'[w] = hpc[w] /\ outcome'[w] = outcome[w]
        /\ image'[w] = image[w] /\ Task(w)' = Task(w)
    BY <1>4, HandlerStays
  <2>2. /\ Task(w) \in Tasks /\ image[w] \in Nat /\ pushes[Task(w)] \in Nat
        /\ pushes'[Task(w)] \in Nat /\ pushes'[Task(w)] >= pushes[Task(w)]
    <3>1. Task(w) \in Tasks
      BY <2>1, TokenHeld DEF Task, HandlerBase, HandlerTypeOK
    <3>2. pushes' \in [Tasks -> Nat]
      BY HandlerTypeStep DEF HandlerTypeOK
    <3> QED BY <3>1, <3>2, PushesGrow DEF HandlerBase, HandlerTypeOK
  <2>3. pushes'[Task(w)'] >= pushes[Task(w)]
    BY <2>1, <2>2
  <2> QED BY <2>1, <2>2, <2>3 DEF Place, HandlerBase, PlaceInv
<1> QED BY <1>1, <1>2, <1>3, <1>4

LEMMA HandlerBaseStep ==
  ASSUME HandlerBase, [HandlersNext]_allVars
  PROVE  HandlerBase'
<1>1. TypeOK'
  BY HandlersStepIsNext, TypeStep DEF HandlerBase
<1>2. RunnerTypeOK'
  <2>1. ASSUME NEW w \in Workers, HandlerStep(w) PROVE RunnerTypeOK'
    BY <2>1, HandlerIsQuiet DEF runnerVars, RunnerTypeOK, HandlerBase
  <2> QED BY <2>1, HandlersSteps, RunnerTypeStep DEF HandlerBase
<1> QED BY <1>1, <1>2, HandlerTypeStep, PlaceStep DEF HandlerBase

LEMMA HandlersBase == HandlersSpec => []HandlerBase
<1>1. HandlersInit => HandlerBase
  BY InitTypeOK, InitRunnerTypeOK
  DEF HandlersInit, EngineInit, RunnerInit, HandlerBase, HandlerTypeOK, HandlerLocation, Outcome,
      PlaceInv, Place, BuildLocation
<1>2. HandlerBase /\ [HandlersNext]_allVars => HandlerBase'
  BY HandlerBaseStep
<1> QED BY <1>1, <1>2, PTL DEF HandlersSpec

\* A handler is where its task and its worker say it may be, and what a run
\* records is an image that was pushed (handlers.py:120).
THEOREM HandlerTypeCorrect == HandlersSpec => []HandlerTypeOK
BY HandlersBase, PTL DEF HandlerBase

\* The handlers on top of the engine are callers of the queue like any other:
\* whatever is proved of the store holds of them too.
THEOREM HandlersImplementStore == HandlersSpec => Spec
<1>1. HandlersInit => Init
  BY DEF HandlersInit, EngineInit
<1>2. HandlerBase /\ [HandlersNext]_allVars => [Next]_storeVars
  BY HandlersStepIsNext
<1> QED BY <1>1, <1>2, HandlersBase, PTL DEF HandlersSpec, Spec

-----------------------------------------------------------------------------
(* A handler is alone with its task.                                       *)

HeldBase == HandlerBase /\ TokenInv /\ HeldInv

LEMMA HeldBaseStep ==
  ASSUME HeldBase, [HandlersNext]_allVars
  PROVE  HeldBase'
<1> USE DEF HeldBase
<1>0. HandlerBase'
  BY HandlerBaseStep
<1>1. CASE [EngineNext]_vars
  <2>1. TypeOK /\ RunnerTypeOK /\ RunnerTypeOK'
    BY <1>0 DEF HandlerBase
  <2>2. TokenInv'
    BY <1>1, <2>1, TokenInvStep
  <2>3. HeldInv'
    BY <1>1, <2>1, HeldInvStep
  <2> QED BY <1>0, <2>2, <2>3
<1>2. ASSUME NEW w \in Workers, HandlerStep(w) PROVE HeldBase'
  <2>1. UNCHANGED <<runnerVars, taskVars>>
    BY <1>2, HandlerIsQuiet
  <2>2. TokenInv'
    BY <2>1 DEF runnerVars, taskVars, TokenInv, Known
  <2>3. HeldInv'
    BY <2>1 DEF runnerVars, taskVars, HeldInv, Handling
  <2> QED BY <1>0, <2>2, <2>3
<1> QED BY <1>1, <1>2, HandlersSteps

LEMMA HandlersHeld == HandlersSpec => []HeldBase
<1>1. HandlersInit => TokenInv /\ HeldInv
  <2> SUFFICES ASSUME HandlersInit PROVE TokenInv /\ HeldInv
    OBVIOUS
  <2>1. \A w \in Workers : box[w] = None /\ pc[w] = "loop"
    BY DEF HandlersInit, EngineInit, RunnerInit
  <2> QED BY <2>1 DEF TokenInv, HeldInv, Handling
<1>2. HeldBase /\ [HandlersNext]_allVars => HeldBase'
  BY HeldBaseStep
<1>3. HandlersInit /\ HandlerBase /\ TokenInv /\ HeldInv => HeldBase
  BY DEF HeldBase
<1> QED BY <1>1, <1>2, <1>3, HandlersBase, PTL DEF HandlersSpec

\* A handler's worker has a task.
LEMMA Busy ==
  ASSUME HandlerBase, NEW w \in Workers, hpc[w] # "idle"
  PROVE  /\ box[w] # None /\ Task(w) \in Tasks
         /\ pc[w] \in {"executing", "stopping"}
         /\ Task(w) \notin outlived => Mine(w)
<1>1. pc[w] \in {"executing", "stopping"}
  BY DEF HandlerBase, HandlerTypeOK
<1>2. box[w] # None /\ Task(w) \in Tasks
  BY <1>1, TokenHeld DEF HandlerBase, RunnerTypeOK, Task
<1> QED BY <1>1, <1>2 DEF Mine

\* A worker that counts owns its task, which is running.
LEMMA MineHolds ==
  ASSUME HeldBase, NEW w \in Workers, Mine(w)
  PROVE  /\ Task(w) \in Tasks /\ leasedBy[Task(w)] = w /\ state[Task(w)] = "running"
         /\ pc[w] \notin {"loop", "down", "claimed"} /\ box[w] # None
<1>1. pc[w] \in {"executing", "stopping", "finishing"} /\ box[w] # None
  BY DEF Mine
<1>2. Task(w) \in Tasks
  BY <1>1, TokenHeld DEF HeldBase, HandlerBase, Task
<1>3. CASE pc[w] \in {"executing", "stopping"}
  BY <1>1, <1>2, <1>3 DEF Mine, HeldBase, HeldInv, Handling, Task
<1>4. CASE pc[w] = "finishing"
  <2>1. monitor[w] # "renewed" /\ version[Task(w)] = box[w].version
    BY <1>4 DEF Mine, HeldBase, HandlerBase, RunnerTypeOK
  <2> QED BY <1>1, <1>2, <1>4, <2>1 DEF HeldBase, TokenInv, Known, Task
<1> QED BY <1>1, <1>3, <1>4

\* No two workers that count work on the same task.
LEMMA Alone ==
  ASSUME HeldBase, NEW v \in Workers, NEW w \in Workers, v # w, Mine(v), Mine(w)
  PROVE  Task(v) # Task(w)
BY MineHolds

\* A handler that goes on and counts after a step counted before it.
LEMMA MineBefore ==
  ASSUME HandlerBase, [HandlersNext]_allVars, NEW w \in Workers, hpc[w] # "idle", Mine(w)',
         Task(w)' = Task(w)
  PROVE  Mine(w)
<1>1. outlived \subseteq outlived'
  <2>1. ASSUME NEW v \in Workers, HandlerStep(v) PROVE outlived' = outlived
    BY <2>1, HandlerIsQuiet DEF runnerVars
  <2> QED BY <2>1, OutlivedGrows, HandlersSteps
<1>2. Task(w) \notin outlived
  BY <1>1 DEF Mine
<1> QED BY <1>2, Busy

\* The recovery passes on the expired leases, and busy workers do not notice.
Recovers(d) ==
  /\ RecoverExpired(d)
  /\ PassOn(Expired(d))
  /\ \A w \in Workers : box[w] # None => pc'[w] = pc[w] /\ box'[w] = box[w]

\* Of the engine's steps only these write to the task, the operation or the
\* deployment.
LEMMA EngineWrites ==
  ASSUME TypeOK, RunnerTypeOK, [EngineNext]_vars
  PROVE  \/ UNCHANGED <<state, opState, depStatus>>
         \/ \E t \in Tasks : Enqueue(t) \/ CancelWrite(t)
         \/ \E d \in Delays : Recovers(d)
         \/ \E w \in Workers : Claimed(w) \/ StartHandler(w) \/ Commit(w)
<1> DEFINE Writes == \/ UNCHANGED <<state, opState, depStatus>>
                     \/ \E t \in Tasks : Enqueue(t) \/ CancelWrite(t)
                     \/ \E d \in Delays : Recovers(d)
                     \/ \E w \in Workers : Claimed(w) \/ StartHandler(w) \/ Commit(w)
<1> USE DEF storeVars, taskVars, linkVars
<1>1. ASSUME UNCHANGED vars \/ EngineTick PROVE Writes
  BY <1>1 DEF vars, EngineTick, Tick
<1>2. ASSUME NEW t \in Tasks, Api(t) PROVE Writes
  BY <1>2 DEF Api, CancelRead
<1>3. ASSUME NEW w \in Workers, Recover(w) \/ Crash(w) \/ Restart(w) PROVE Writes
  <2>1. 0 \in Delays
    BY StoreAssumption DEF Delays
  <2>2. CASE Recover(w)
    BY <2>2 DEF Recover, Recovers
  <2>3. CASE Crash(w)
    BY <2>3 DEF Crash, AbortClaim
  <2>4. CASE Restart(w)
    <3>1. \A v \in Workers : box[v] # None => pc'[v] = pc[v] /\ box'[v] = box[v]
      BY <2>4 DEF Restart, RunnerTypeOK
    <3> QED BY <2>1, <2>4, <3>1 DEF Restart, Recovers
  <2> QED BY <1>3, <2>2, <2>3, <2>4
<1>4. ASSUME NEW w \in Workers, Work(w) PROVE Writes
  <2>1. CASE Claim(w) \/ Begin(w)
    BY <2>1 DEF Claim, StartClaim, SelectCandidate, ClaimMissed, SkipCandidate, Begin, StartLost
  <2>2. CASE Watch(w)
    BY <2>2 DEF Watch, MonitorCheck, MonitorSeesCancel, MonitorHeartbeat, Heartbeat, MonitorLost,
       MonitorStore
  <2>3. CASE End(w) \/ Settle(w)
    BY <2>3 DEF End, HandlerReturns, HandlerStopped, Settle, CommitLost
  <2> QED BY <1>4, <2>1, <2>2, <2>3 DEF Work
<1> HIDE DEF Writes
<1>5. Writes
  BY <1>1, <1>2, <1>3, <1>4 DEF EngineNext
<1> QED BY <1>5 DEF Writes

\* The engine and the API leave the rows of a task that is being worked on to
\* its worker.
LEMMA EngineSpares ==
  ASSUME HeldBase, [EngineNext]_vars, NEW w \in Workers, Mine(w), Mine(w)',
         ~ StartHandler(w), ~ Commit(w)
  PROVE  opState'[Task(w)] = opState[Task(w)] /\ depStatus'[Task(w)] = depStatus[Task(w)]
<1> DEFINE t == Task(w)
           Spared == opState'[t] = opState[t] /\ depStatus'[t] = depStatus[t]
<1>0. TypeOK /\ RunnerTypeOK
  BY DEF HeldBase, HandlerBase
<1>1. t \in Tasks /\ leasedBy[t] = w /\ state[t] = "running"
  BY MineHolds
<1>2. ASSUME NEW d \in Delays, Recovers(d) PROVE t \notin Expired(d)
  <2>1. pc'[w] = pc[w] /\ Task(w)' = t /\ box'[w] = box[w]
    BY <1>2 DEF Recovers, Mine, Task
  <2>2. CASE pc[w] \in {"executing", "stopping"}
    BY <1>2, <2>1, <2>2 DEF Recovers, PassOn, Mine, Handling, Task
  <2>3. CASE pc[w] = "finishing"
    <3>1. version'[t] = version[t]
      BY <2>1, <2>3 DEF Mine
    <3> QED BY <1>0, <1>1, <1>2, <3>1 DEF Recovers, RecoverExpired, TypeOK
  <2> QED BY <2>2, <2>3 DEF Mine
<1> HIDE DEF t
<1> USE <1>0 DEF TypeOK
<1>3. ASSUME NEW u \in Tasks, Enqueue(u) \/ CancelWrite(u) PROVE Spared
  BY <1>1, <1>3 DEF Enqueue, CancelWrite
<1>4. ASSUME NEW d \in Delays, Recovers(d) PROVE Spared
  BY <1>1, <1>2, <1>4 DEF Recovers, RecoverExpired
<1>5. ASSUME NEW v \in Workers, Claimed(v) PROVE Spared
  BY <1>5 DEF Claimed, ClaimCandidate, linkVars
<1>6. ASSUME NEW v \in Workers, v # w, StartHandler(v) \/ Commit(v) PROVE Spared
  <2>1. leasedBy[box[v].task] = v
    BY <1>6 DEF StartHandler, MarkRunning, Commit, Finish, Retry, Owns
  <2>2. box[v].task # t
    BY <1>1, <1>6, <2>1
  <2> QED BY <1>1, <1>6, <2>2 DEF StartHandler, MarkRunning, Commit, Finish, Retry
<1> HIDE DEF Spared
<1>7. ASSUME UNCHANGED <<state, opState, depStatus>> PROVE Spared
  BY <1>7 DEF Spared
<1>8. Spared
  BY <1>0, <1>3, <1>4, <1>5, <1>6, <1>7, EngineWrites
<1> QED BY <1>8 DEF Spared, t

\* Every handler's step writes to its own task only.
LEMMA HandlerWrites ==
  ASSUME HandlerBase, NEW w \in Workers, HandlerStep(w), NEW t \in Tasks, t # Task(w)
  PROVE  /\ opState'[t] = opState[t] /\ depStatus'[t] = depStatus[t]
         /\ artifact'[t] = artifact[t] /\ deployed'[t] = deployed[t]
         /\ pushes'[t] = pushes[t] /\ ran'[t] = ran[t]
<1> USE DEF HandlerBase, HandlerTypeOK, TypeOK, At, storeVars, linkVars, imageVars
<1>1. CASE Checkout(w) \/ LoadArtifact(w) \/ BuildAndPush(w) \/ ResolveDigest(w) \/ SaveArtifact(w)
  BY <1>1 DEF Checkout, LoadArtifact, BuildAndPush, ResolveDigest, SaveArtifact
<1>2. CASE Bind(w)
  BY <1>2 DEF Bind, BindDeployment
<1>3. CASE ReportExecuting(w) \/ Report(w)
  BY <1>3 DEF ReportExecuting, Report, SetOperation, SetOperationState
<1>4. CASE CheckDeployment(w) \/ Record(w)
  BY <1>4 DEF CheckDeployment, Record, SetDeploymentStatus
<1>5. CASE Prepare(w) \/ Remote(w) \/ RunScript(w) \/ Complete(w)
  BY <1>5 DEF Prepare, Remote, RunScript, Complete
<1> QED BY <1>1, <1>2, <1>3, <1>4, <1>5 DEF HandlerStep

\* So the rows of a task with a worker that counts change by its steps alone.
LEMMA Undisturbed ==
  ASSUME HeldBase, [HandlersNext]_allVars, NEW w \in Workers, Mine(w), Mine(w)',
         ~ HandlerStep(w), ~ Start(w), ~ Commit(w)
  PROVE  /\ opState'[Task(w)] = opState[Task(w)] /\ depStatus'[Task(w)] = depStatus[Task(w)]
         /\ artifact'[Task(w)] = artifact[Task(w)] /\ deployed'[Task(w)] = deployed[Task(w)]
         /\ pushes'[Task(w)] = pushes[Task(w)] /\ ran'[Task(w)] = ran[Task(w)]
<1>0. Task(w) \in Tasks /\ HandlerBase
  BY MineHolds DEF HeldBase
<1>1. ASSUME NEW v \in Workers, HandlerStep(v)
      PROVE  /\ opState'[Task(w)] = opState[Task(w)] /\ depStatus'[Task(w)] = depStatus[Task(w)]
             /\ artifact'[Task(w)] = artifact[Task(w)] /\ deployed'[Task(w)] = deployed[Task(w)]
             /\ pushes'[Task(w)] = pushes[Task(w)] /\ ran'[Task(w)] = ran[Task(w)]
  <2>1. hpc[v] # "idle" /\ v # w
    BY <1>1, HandlerRuns
  <2>2. ASSUME Task(v) = Task(w) PROVE FALSE
    <3>1. Mine(v)
      BY <1>0, <2>1, <2>2, Busy DEF Mine
    <3> QED BY <2>1, <2>2, <3>1, Alone
  <2> QED BY <1>0, <1>1, <2>2, HandlerWrites
<1>2. CASE ~ \E v \in Workers : HandlerStep(v)
  <2>1. [EngineNext]_vars
    BY <1>2, HandlersSteps
  <2>2. UNCHANGED imageVars
    BY <1>0, <1>2, ImagesStep DEF HandlerStep
  <2>3. ~ StartHandler(w)
    BY MineHolds DEF StartHandler
  <2> QED BY <2>1, <2>2, <2>3, EngineSpares DEF imageVars
<1> QED BY <1>1, <1>2

-----------------------------------------------------------------------------
(* Images.                                                                 *)

LEMMA OwnImage ==
  ASSUME HandlerBase, NEW w \in Workers, ImageSound(w), HandlerStep(w)
  PROVE  ImageSound(w)'
<1> USE DEF HandlerBase, ImageSound, At, Goto, GotoWith, Fails, imageVars
<1>0. /\ hpc \in [Workers -> HandlerLocation] /\ image \in [Workers -> Nat]
      /\ artifact \in [Tasks -> Nat] /\ pushes \in [Tasks -> Nat]
  BY DEF HandlerTypeOK
<1>1. Task(w)' = Task(w)
  BY HandlerIsQuiet DEF runnerVars, Task
<1>2. hpc[w] # "idle" => Task(w) \in Tasks
  BY TokenHeld DEF Task, HandlerTypeOK
<1>3. CASE Checkout(w) \/ LoadArtifact(w)
  BY <1>0, <1>1, <1>2, <1>3 DEF Checkout, LoadArtifact
<1>4. CASE BuildAndPush(w)
  BY <1>0, <1>1, <1>2, <1>4 DEF BuildAndPush
<1>5. CASE ResolveDigest(w)
  BY <1>0, <1>1, <1>2, <1>5 DEF ResolveDigest
<1>6. CASE SaveArtifact(w)
  BY <1>0, <1>1, <1>2, <1>6 DEF SaveArtifact
<1>7. CASE \/ Bind(w) \/ ReportExecuting(w) \/ CheckDeployment(w) \/ Prepare(w) \/ Remote(w)
           \/ RunScript(w) \/ Record(w) \/ Complete(w) \/ Report(w)
  <2>1. hpc'[w] \in {"done", "report", "prepare", "remote", "check", "script", "record", "complete"}
    BY <1>0, <1>7 DEF Bind, ReportExecuting, CheckDeployment, Prepare, Remote, RunScript, Record,
       Complete, Report
  <2> QED BY <2>1
<1> QED BY <1>3, <1>4, <1>5, <1>6, <1>7 DEF HandlerStep

LEMMA ImageInvStep ==
  ASSUME HeldBase, ImageInv, [HandlersNext]_allVars
  PROVE  ImageInv'
<1> SUFFICES ASSUME NEW w \in Workers, Mine(w)' PROVE ImageSound(w)'
  BY DEF ImageInv
<1>0. HandlerBase
  BY DEF HeldBase
<1>1. CASE HandlerStep(w)
  <2>1. hpc[w] # "idle" /\ Task(w)' = Task(w)
    BY <1>1, HandlerRuns, HandlerIsQuiet DEF runnerVars, Task
  <2>2. Mine(w)
    BY <1>0, <2>1, MineBefore
  <2> QED BY <1>0, <1>1, <2>2, OwnImage DEF ImageInv
<1>2. CASE Start(w)
  <2>1. hpc'[w] \in {"checkout", "start"}
    BY <1>0, <1>2 DEF Start, Goto, HandlerBase, HandlerTypeOK
  <2> QED BY <2>1 DEF ImageSound
<1>3. CASE hpc'[w] = "idle"
  BY <1>3 DEF ImageSound
<1>4. CASE ~ HandlerStep(w) /\ ~ Start(w) /\ hpc'[w] # "idle"
  <2>1. /\ hpc[w] # "idle" /\ hpc'[w] = hpc[w] /\ image'[w] = image[w] /\ Task(w)' = Task(w)
    BY <1>0, <1>4, HandlerStays
  <2>2. Mine(w) /\ ~ Commit(w)
    BY <1>0, <2>1, MineBefore, Busy DEF Commit
  <2>3. artifact'[Task(w)] = artifact[Task(w)] /\ pushes'[Task(w)] = pushes[Task(w)]
    BY <1>4, <2>2, Undisturbed
  <2>4. artifact'[Task(w)'] = artifact[Task(w)] /\ pushes'[Task(w)'] = pushes[Task(w)]
    BY <2>1, <2>3
  <2> QED BY <2>1, <2>2, <2>4 DEF ImageInv, ImageSound
<1> QED BY <1>1, <1>2, <1>3, <1>4

LEMMA DeployedStep ==
  ASSUME HandlerBase, ImageInv, DeployedIsRecorded, [HandlersNext]_allVars
  PROVE  /\ \A t \in Tasks \ outlived : artifact[t] # 0 => artifact'[t] = artifact[t]
         /\ DeployedIsRecorded'
<1> USE DEF HandlerBase, HandlerTypeOK
<1>0. outlived \subseteq outlived'
  <2>1. ASSUME NEW v \in Workers, HandlerStep(v) PROVE outlived' = outlived
    BY <2>1, HandlerIsQuiet DEF runnerVars
  <2> QED BY <2>1, OutlivedGrows, HandlersSteps
<1>1. \/ UNCHANGED <<artifact, deployed>>
      \/ \E w \in Workers : SaveArtifact(w) \/ Bind(w)
  BY ImagesStep DEF BuildAndPush, RunScript, imageVars
<1>2. ASSUME NEW w \in Workers, SaveArtifact(w)
      PROVE  /\ artifact' = [artifact EXCEPT ![Task(w)] = image[w]] /\ deployed' = deployed
             /\ Task(w) \notin outlived => artifact[Task(w)] = 0
  <2>1. hpc[w] = "save"
    BY <1>2 DEF SaveArtifact, At
  <2> QED BY <1>2, <2>1, Busy DEF SaveArtifact, ImageInv, ImageSound
<1>3. ASSUME NEW w \in Workers, Bind(w)
      PROVE  /\ artifact' = artifact
             /\ \/ deployed' = deployed
                \/ /\ deployed' = [deployed EXCEPT ![Task(w)] = image[w]]
                   /\ Task(w) \notin outlived => image[w] = artifact[Task(w)]
  <2>1. hpc[w] = "bind"
    BY <1>3 DEF Bind, At
  <2> QED BY <1>3, <2>1, Busy DEF Bind, ImageInv, ImageSound
<1>4. \A t \in Tasks \ outlived : artifact[t] # 0 => artifact'[t] = artifact[t]
  BY <1>1, <1>2, <1>3
<1>5. ASSUME NEW t \in RunTasks \ outlived', deployed'[t] # 0 PROVE deployed'[t] = artifact'[t]
  <2>1. t \in Tasks /\ t \notin outlived
    BY <1>0, StoreAssumption
  <2>2. deployed[t] # 0 => deployed[t] = artifact[t]
    BY <2>1 DEF DeployedIsRecorded
  <2> QED BY <1>1, <1>2, <1>3, <1>5, <2>1, <2>2
<1> QED BY <1>4, <1>5 DEF DeployedIsRecorded

LEMMA HandlersImages == HandlersSpec => [](HandlerBase /\ ImageInv /\ DeployedIsRecorded)
<1>1. HandlersInit => ImageInv /\ DeployedIsRecorded
  BY StoreAssumption DEF HandlersInit, ImageInv, ImageSound, DeployedIsRecorded
<1>2. /\ HeldBase /\ ImageInv /\ [HandlersNext]_allVars => ImageInv'
      /\ HandlerBase /\ ImageInv /\ DeployedIsRecorded /\ [HandlersNext]_allVars
           => DeployedIsRecorded'
  BY ImageInvStep, DeployedStep
<1> QED BY <1>1, <1>2, HandlersHeld, HandlersBase, PTL DEF HandlersSpec

\* What a pipeline has deployed, or is deploying, is the image that its run
\* records (handlers.py:160), whatever crashes between the push, the
\* checkpoint and the deployment, for every task whose lease was not passed on
\* under a running handler.  Such a handler could save another image over it:
\* _save_artifact goes by the run's id alone.
THEOREM DeployedImagesAreRecorded == HandlersSpec => []DeployedIsRecorded
BY HandlersImages, PTL

\* The digest of such a run, once recorded, is never replaced: a later attempt
\* loads it instead of building another image.
THEOREM ArtifactsAreKept == HandlersSpec => ArtifactKept
<1>1. HandlerBase /\ ImageInv /\ DeployedIsRecorded /\ [HandlersNext]_allVars
        => [\A t \in Tasks \ outlived : artifact[t] # 0 => artifact'[t] = artifact[t]]_allVars
  BY DeployedStep
<1> QED BY <1>1, HandlersImages, PTL DEF HandlersSpec, ArtifactKept

-----------------------------------------------------------------------------
(* Deployments.                                                            *)

\* What the engine and the API may make of a task's rows.
LinkStep(t) ==
  /\ state[t] \in TerminalTask => opState'[t] = opState[t] /\ depStatus'[t] = depStatus[t]
  /\ \/ depStatus'[t] = depStatus[t]
     \/ depStatus[t] \in OpenDep
     \/ state[t] = "absent" /\ t \in DepTasks
  /\ state'[t] = "absent" => state[t] = "absent" /\ depStatus'[t] = depStatus[t]
  /\ state'[t] = "failed" => state[t] = "failed" \/ (opState'[t] \notin OpenOp /\ depStatus'[t] \notin OpenDep)
  /\ (t \in OpTasks /\ state'[t] \in {"pending", "leased", "running"}) =>
        \/ opState'[t] = opState[t] /\ state[t] \in {"pending", "leased", "running"}
        \/ opState'[t] \in OpenOp

LEMMA EngineLinkStep ==
  ASSUME TypeOK, RunnerTypeOK, [EngineNext]_vars, NEW t \in Tasks
  PROVE  LinkStep(t)
<1> USE DEF TypeOK, TaskState, TerminalTask, OpenOp, OpenDep, OpState, DepStatus
<1>1. ASSUME UNCHANGED <<state, opState, depStatus>> PROVE LinkStep(t)
  BY <1>1 DEF LinkStep
<1>2. ASSUME NEW u \in Tasks, Enqueue(u) PROVE LinkStep(t)
  BY <1>2, StoreAssumption DEF Enqueue, LinkStep
<1>3. ASSUME NEW u \in Tasks, CancelWrite(u) PROVE LinkStep(t)
  BY <1>3 DEF CancelWrite, CancelledTask, LinkStep
<1>4. ASSUME NEW d \in Delays, Recovers(d) PROVE LinkStep(t)
  <2>1. CASE t \in Expired(d)
    <3>1. /\ state[t] \in {"leased", "running"}
          /\ state'[t] = (IF Retryable(t) THEN "pending" ELSE "failed")
          /\ opState'[t] = RecoveredOp(t) /\ depStatus'[t] = RecoveredDep(t)
      BY <1>4, <2>1 DEF Recovers, RecoverExpired, Expired, Held
    <3> QED BY <3>1 DEF LinkStep, RecoveredOp, RecoveredDep
  <2>2. CASE t \notin Expired(d)
    <3>1. state'[t] = state[t] /\ opState'[t] = opState[t] /\ depStatus'[t] = depStatus[t]
      BY <1>4, <2>2 DEF Recovers, RecoverExpired
    <3> QED BY <3>1 DEF LinkStep
  <2> QED BY <2>1, <2>2
<1>5. ASSUME NEW w \in Workers, Claimed(w) PROVE LinkStep(t)
  <2>1. /\ Runnable(candidate[w].task, candidate[w].age)
        /\ state' = [state EXCEPT ![candidate[w].task] = "leased"]
        /\ UNCHANGED <<opState, depStatus>>
    BY <1>5 DEF Claimed, ClaimCandidate, Claimable, linkVars
  <2> QED BY <2>1 DEF LinkStep, Runnable, Held
<1>6. ASSUME NEW w \in Workers, StartHandler(w) PROVE LinkStep(t)
  BY <1>6 DEF StartHandler, MarkRunning, LinkStep
<1>7. ASSUME NEW w \in Workers, Commit(w) PROVE LinkStep(t)
  <2> DEFINE u == box[w].task
  <2>1. PICK d \in Delays :
          IF verdict[w] = "retry"
          THEN Retry(w, u, box[w].version, d)
          ELSE Finish(w, u, box[w].version, d, verdict[w])
    BY <1>7 DEF Commit
  <2>2. CASE Retry(w, u, box[w].version, d)
    BY <2>2 DEF Retry, LinkStep, Held
  <2>3. CASE Finish(w, u, box[w].version, d, verdict[w])
    BY <2>3 DEF Finish, LinkStep, Held
  <2> QED BY <2>1, <2>2, <2>3
<1> QED BY <1>1, <1>2, <1>3, <1>4, <1>5, <1>6, <1>7, EngineWrites

LEMMA OwnUndecided ==
  ASSUME HandlerBase, NEW w \in Workers, HandlerStep(w),
         hpc[w] \in {"prepare", "remote", "record"} => Undecided(Task(w)),
         hpc'[w] \in {"prepare", "remote", "record"}
  PROVE  Undecided(Task(w))'
<1> USE DEF HandlerBase, Undecided, At, Goto, GotoWith, Fails
<1>0. /\ hpc \in [Workers -> HandlerLocation] /\ depStatus \in [Tasks -> DepStatus]
  BY DEF HandlerTypeOK, TypeOK
<1>1. Task(w)' = Task(w)
  BY HandlerIsQuiet DEF runnerVars, Task
<1>2. hpc[w] # "idle" => Task(w) \in Tasks
  BY TokenHeld DEF Task, HandlerTypeOK
<1>3. CASE Bind(w)
  BY <1>0, <1>1, <1>2, <1>3 DEF Bind, BindDeployment, OpenDep
<1>4. CASE CheckDeployment(w)
  BY <1>0, <1>1, <1>2, <1>4 DEF CheckDeployment, From, IsRollback, SetDeploymentStatus, OpenDep,
     storeVars, linkVars
<1>5. CASE Prepare(w) \/ Remote(w)
  BY <1>0, <1>1, <1>5 DEF Prepare, Remote, storeVars, linkVars
<1>6. CASE \/ Checkout(w) \/ LoadArtifact(w) \/ BuildAndPush(w) \/ ResolveDigest(w) \/ SaveArtifact(w)
           \/ ReportExecuting(w) \/ RunScript(w) \/ Record(w) \/ Complete(w) \/ Report(w)
  BY <1>0, <1>6 DEF Checkout, LoadArtifact, BuildAndPush, ResolveDigest, SaveArtifact,
     ReportExecuting, RunScript, Record, Complete, Report
<1> QED BY <1>3, <1>4, <1>5, <1>6 DEF HandlerStep

\* The deployment of a handler's task is not made up, and not reopened.
HandlerLinkStep(t) ==
  /\ state[t] = "absent" => depStatus'[t] = depStatus[t]
  /\ depStatus'[t] # "absent" => depStatus[t] # "absent" \/ t \in RunTasks
  /\ t \notin outlived =>
       depStatus[t] = "absent" \/ depStatus'[t] = depStatus[t] \/ Undecided(t)

LEMMA OwnLinkStep ==
  ASSUME HandlerBase, DeploymentInv, NEW w \in Workers, HandlerStep(w), NEW t \in Tasks
  PROVE  HandlerLinkStep(t)
<1> USE DEF HandlerBase, HandlerLinkStep, At, storeVars, linkVars
<1>0. hpc[w] # "idle" => Task(w) \in Tasks /\ (Task(w) \notin outlived => Mine(w))
  BY Busy
<1>1. depStatus \in [Tasks -> DepStatus] /\ (state[t] = "absent" => depStatus[t] = "absent")
  BY DEF TypeOK, DeploymentInv
<1>2. CASE \/ Checkout(w) \/ LoadArtifact(w) \/ BuildAndPush(w) \/ ResolveDigest(w) \/ SaveArtifact(w)
           \/ ReportExecuting(w) \/ Prepare(w) \/ Remote(w) \/ RunScript(w) \/ Complete(w) \/ Report(w)
  <2>1. depStatus' = depStatus
    BY <1>2 DEF Checkout, LoadArtifact, BuildAndPush, ResolveDigest, SaveArtifact, ReportExecuting,
       Prepare, Remote, RunScript, Complete, Report, SetOperation, SetOperationState
  <2> QED BY <2>1
<1>3. CASE Bind(w)
  BY <1>0, <1>1, <1>3 DEF Bind, BindDeployment, Active, Held, Undecided, PlaceInv, Place, BuildLocation
<1>4. CASE CheckDeployment(w)
  BY <1>0, <1>1, <1>4 DEF CheckDeployment, SetDeploymentStatus, From, IsRollback, Undecided
<1>5. CASE Record(w)
  BY <1>0, <1>1, <1>5 DEF Record, SetDeploymentStatus, DeploymentInv
<1> QED BY <1>2, <1>3, <1>4, <1>5 DEF HandlerStep

\* A decided deployment stays decided.
Decided(t) ==
  depStatus[t] \notin {"absent"} \cup OpenDep
    => \/ depStatus'[t] = depStatus[t]
       \/ t \in RollbackTasks /\ depStatus[t] = "healthy"

LEMMA DeploymentInvStep ==
  ASSUME HeldBase, DeploymentInv, [HandlersNext]_allVars
  PROVE  DeploymentInv' /\ \A t \in Tasks \ outlived : Decided(t)
<1>0. HandlerBase
  BY DEF HeldBase
<1>1. ASSUME NEW w \in Workers, Mine(w)', hpc'[w] \in {"prepare", "remote", "record"}
      PROVE  Undecided(Task(w))'
  <2>1. CASE HandlerStep(w)
    <3>1. hpc[w] # "idle" /\ Task(w)' = Task(w)
      BY <2>1, HandlerRuns, HandlerIsQuiet DEF runnerVars, Task
    <3>2. Mine(w)
      BY <1>0, <1>1, <3>1, MineBefore
    <3> QED BY <1>0, <1>1, <2>1, <3>2, OwnUndecided DEF DeploymentInv
  <2>2. ~ Start(w)
    BY <1>0, <1>1 DEF Start, Goto, HandlerBase, HandlerTypeOK
  <2>3. CASE ~ HandlerStep(w)
    <3>1. /\ hpc[w] # "idle" /\ hpc'[w] = hpc[w] /\ Task(w)' = Task(w)
      BY <1>0, <1>1, <2>2, <2>3, HandlerStays
    <3>2. Mine(w) /\ ~ Commit(w)
      BY <1>0, <1>1, <3>1, MineBefore, Busy DEF Commit
    <3>3. depStatus'[Task(w)] = depStatus[Task(w)]
      BY <1>1, <2>2, <2>3, <3>2, Undisturbed
    <3>4. depStatus'[Task(w)'] = depStatus[Task(w)]
      BY <3>1, <3>3
    <3> QED BY <1>1, <3>1, <3>2, <3>4 DEF DeploymentInv, Undecided
  <2> QED BY <2>1, <2>3
<1>2. ASSUME NEW t \in Tasks
      PROVE  /\ state'[t] = "absent" => depStatus'[t] = "absent"
             /\ depStatus'[t] # "absent" => t \in Server
             /\ t \notin outlived => Decided(t)
  <2>1. CASE [EngineNext]_vars
    <3>1. LinkStep(t)
      BY <1>0, <2>1, EngineLinkStep DEF HandlerBase
    <3> QED BY <3>1 DEF LinkStep, Decided, DeploymentInv, OpenDep, Server
  <2>2. ASSUME NEW w \in Workers, HandlerStep(w)
        PROVE  /\ state'[t] = "absent" => depStatus'[t] = "absent"
               /\ depStatus'[t] # "absent" => t \in Server
               /\ t \notin outlived => Decided(t)
    <3>1. HandlerLinkStep(t) /\ state' = state
      BY <1>0, <2>2, OwnLinkStep, HandlerIsQuiet DEF taskVars
    <3> QED BY <3>1 DEF HandlerLinkStep, Undecided, Decided, DeploymentInv, OpenDep, Server
  <2> QED BY <2>1, <2>2, HandlersSteps
<1> QED BY <1>1, <1>2 DEF DeploymentInv

LEMMA HandlersDeployments == HandlersSpec => [](HeldBase /\ DeploymentInv)
<1>1. HandlersInit => DeploymentInv
  BY DEF HandlersInit, EngineInit, Init, DeploymentInv
<1>2. HeldBase /\ DeploymentInv /\ [HandlersNext]_allVars => DeploymentInv'
  BY DeploymentInvStep
<1> QED BY <1>1, <1>2, HandlersHeld, PTL DEF HandlersSpec

\* Once the database says how a deployment ended, no attempt reopens it,
\* replays it on the server (handlers.py:248) or changes the answer, but for a
\* handler whose lease was passed on under it.
THEOREM DeploymentsAreDecidedOnce == HandlersSpec => DecidedOnce
<1>1. HeldBase /\ DeploymentInv /\ [HandlersNext]_allVars
        => [\A t \in Tasks \ outlived :
              depStatus[t] \notin {"absent"} \cup OpenDep
                => \/ depStatus'[t] = depStatus[t]
                   \/ t \in RollbackTasks /\ depStatus[t] = "healthy"]_allVars
  BY DeploymentInvStep DEF Decided
<1> QED BY <1>1, HandlersDeployments, PTL DEF HandlersSpec, DecidedOnce

-----------------------------------------------------------------------------
(* Scripts.                                                                *)

LEMMA HandlersStartsStep ==
  ASSUME HandlerBase, [HandlersNext]_allVars
  PROVE  /\ StartsInv => StartsInv'
         /\ \A t \in Tasks : starts[t] \in Nat /\ starts'[t] \in Nat /\ starts'[t] >= starts[t]
<1>1. CASE [EngineNext]_vars
  <2>1. RunnerTypeOK'
    BY <1>1, RunnerTypeStep DEF HandlerBase
  <2>2. starts' = starts \/ \E w \in Workers : StartHandler(w)
    BY <1>1 DEF EngineNext, vars, runnerVars, Work, Claim, StartClaim, Claimed, ClaimMissed, Begin,
       StartLost, Leave, Watch, MonitorCheck, MonitorSeesCancel, MonitorHeartbeat, MonitorLost,
       MonitorStore, MonitorGoes, MonitorEnds, End, HandlerReturns, HandlerStopped, Settle, Commit,
       CommitLost, Recover, Crash, Restart, EngineTick, Api
  <2>3. starts' = starts \/ \E u : starts' = [starts EXCEPT ![u] = @ + 1]
    BY <2>2 DEF StartHandler
  <2> QED BY <1>1, <2>1, <2>3, StartsInvStep DEF HandlerBase, RunnerTypeOK
<1>2. ASSUME NEW w \in Workers, HandlerStep(w)
      PROVE  /\ StartsInv => StartsInv'
             /\ \A t \in Tasks : starts[t] \in Nat /\ starts'[t] \in Nat /\ starts'[t] >= starts[t]
  <2>1. UNCHANGED <<starts, attempts, state>>
    BY <1>2, HandlerIsQuiet DEF runnerVars, taskVars
  <2> QED BY <2>1 DEF StartsInv, HandlerBase, RunnerTypeOK
<1> QED BY <1>1, <1>2, HandlersSteps

\* A step that runs no script adds none to those that are to run.
LEMMA ScriptsShrink ==
  ASSUME HandlerBase, [HandlersNext]_allVars, ~ \E w \in Workers : Start(w), NEW t \in Tasks
  PROVE  Scripts(t)' \subseteq Scripts(t)
<1> SUFFICES ASSUME NEW w \in Workers, hpc'[w] \in {"start", "script"}, Task(w)' = t
             PROVE  hpc[w] \in {"start", "script"} /\ Task(w) = t
  BY DEF Scripts
<1>1. CASE HandlerStep(w)
  <2>1. Task(w)' = Task(w) /\ hpc \in [Workers -> HandlerLocation]
    BY <1>1, HandlerIsQuiet DEF runnerVars, Task, HandlerBase, HandlerTypeOK
  <2>2. ReportExecuting(w)
    BY <1>1, <2>1 DEF HandlerStep, Checkout, LoadArtifact, BuildAndPush, ResolveDigest,
       SaveArtifact, Bind, CheckDeployment, Prepare, Remote, RunScript, Record, Complete, Report,
       Goto, GotoWith, Fails
  <2> QED BY <2>1, <2>2 DEF ReportExecuting, At
<1>2. CASE ~ HandlerStep(w)
  BY <1>2, HandlerStays
<1> QED BY <1>1, <1>2

LEMMA ScriptInvStep ==
  ASSUME HandlerBase, ScriptInv, [HandlersNext]_allVars
  PROVE  ScriptInv'
<1> SUFFICES ASSUME NEW t \in Tasks PROVE ScriptSound(t)'
  BY DEF ScriptInv
<1>0. /\ ran \in [Tasks -> Nat] /\ starts[t] \in Nat /\ starts'[t] \in Nat
      /\ starts'[t] >= starts[t] /\ hpc \in [Workers -> HandlerLocation]
  BY HandlersStartsStep DEF HandlerBase, HandlerTypeOK
<1>1. IsFiniteSet(Scripts(t)) /\ ran[t] + Cardinality(Scripts(t)) <= starts[t]
  BY DEF ScriptInv, ScriptSound
<1>2. Cardinality(Scripts(t)) \in Nat
  BY <1>1, FS_CardinalityType
<1>3. CASE \E w \in Workers : Start(w)
  <2>1. PICK w \in Workers : Start(w)
    BY <1>3
  <2>2. pc[w] = "claimed" /\ box'[w] = [box[w] EXCEPT !.version = @ + 1]
    BY <2>1 DEF Start, StartHandler, HandlerBase, RunnerTypeOK
  <2>3. Task(w)' = Task(w) /\ Task(w) \in Tasks
    BY <2>2, TokenHeld DEF HandlerBase, Task, LeaseToken
  <2>4. /\ ran' = ran /\ starts' = [starts EXCEPT ![Task(w)] = @ + 1]
        /\ hpc'[w] \in {"checkout", "start"}
        /\ \A v \in Workers \ {w} : hpc'[v] = hpc[v] /\ Task(v)' = Task(v)
    BY <1>0, <2>1 DEF Start, StartHandler, Goto, imageVars, Task, HandlerBase, RunnerTypeOK
  <2>5. CASE Task(w) = t
    <3>1. starts'[t] = starts[t] + 1
      BY <2>4, <2>5 DEF HandlerBase, RunnerTypeOK
    <3>2. Scripts(t)' \in SUBSET (Scripts(t) \cup {w})
      BY <2>4 DEF Scripts
    <3>3. /\ IsFiniteSet(Scripts(t) \cup {w})
          /\ Cardinality(Scripts(t) \cup {w}) <= Cardinality(Scripts(t)) + 1
          /\ Cardinality(Scripts(t) \cup {w}) \in Nat
      <4>1. /\ IsFiniteSet(Scripts(t) \cup {w})
            /\ Cardinality(Scripts(t) \cup {w})
                 = IF w \in Scripts(t) THEN Cardinality(Scripts(t)) ELSE Cardinality(Scripts(t)) + 1
        BY <1>1, FS_AddElement
      <4> QED BY <1>2, <4>1
    <3>4. /\ IsFiniteSet(Scripts(t)')
          /\ Cardinality(Scripts(t)') <= Cardinality(Scripts(t) \cup {w})
          /\ Cardinality(Scripts(t)') \in Nat
      BY <3>2, <3>3, FS_Subset, FS_CardinalityType
    <3> QED BY <1>0, <1>1, <1>2, <2>4, <3>1, <3>3, <3>4 DEF ScriptSound
  <2>6. CASE Task(w) # t
    <3>1. Scripts(t)' \in SUBSET Scripts(t)
      BY <2>3, <2>4, <2>6 DEF Scripts
    <3>2. /\ IsFiniteSet(Scripts(t)') /\ Cardinality(Scripts(t)') <= Cardinality(Scripts(t))
          /\ Cardinality(Scripts(t)') \in Nat
      BY <1>1, <3>1, FS_Subset, FS_CardinalityType
    <3> QED BY <1>0, <1>1, <1>2, <2>4, <3>2 DEF ScriptSound
  <2> QED BY <2>5, <2>6
<1>4. CASE ~ \E w \in Workers : Start(w)
  <2>1. Scripts(t)' \in SUBSET Scripts(t)
    BY <1>4, ScriptsShrink
  <2>2. CASE ran'[t] = ran[t]
    <3>1. /\ IsFiniteSet(Scripts(t)') /\ Cardinality(Scripts(t)') <= Cardinality(Scripts(t))
          /\ Cardinality(Scripts(t)') \in Nat
      BY <1>1, <2>1, FS_Subset, FS_CardinalityType
    <3> QED BY <1>0, <1>1, <1>2, <2>2, <3>1 DEF ScriptSound
  <2>3. CASE ran'[t] # ran[t]
    <3>1. PICK w \in Workers : RunScript(w)
      BY <2>3, ImagesStep DEF BuildAndPush, SaveArtifact, Bind, imageVars
    <3>2. /\ ran' = [ran EXCEPT ![Task(w)] = @ + 1] /\ Task(w) = t
          /\ hpc[w] = "script" /\ hpc'[w] = "report"
      BY <1>0, <2>3, <3>1 DEF RunScript, At, GotoWith
    <3>3. ran'[t] = ran[t] + 1
      BY <1>0, <3>2
    <3>4. w \in Scripts(t) /\ Scripts(t)' \in SUBSET (Scripts(t) \ {w})
      BY <2>1, <3>2 DEF Scripts
    <3>5. /\ IsFiniteSet(Scripts(t) \ {w})
          /\ Cardinality(Scripts(t) \ {w}) = Cardinality(Scripts(t)) - 1
      BY <1>1, <3>4, FS_RemoveElement
    <3>6. /\ IsFiniteSet(Scripts(t)')
          /\ Cardinality(Scripts(t)') <= Cardinality(Scripts(t) \ {w})
          /\ Cardinality(Scripts(t)') \in Nat
      BY <3>4, <3>5, FS_Subset, FS_CardinalityType
    <3> QED BY <1>0, <1>1, <1>2, <3>3, <3>5, <3>6 DEF ScriptSound
  <2> QED BY <2>2, <2>3
<1> QED BY <1>3, <1>4

\* A script does not run more often than its task has attempts.
LEMMA ScriptsBounded ==
  ASSUME HandlerBase, StartsInv, AttemptsBounded, ScriptInv, NEW t \in Tasks
  PROVE  ran[t] <= MaxAttempts[t]
<1>1. ran[t] \in Nat /\ starts[t] \in Nat /\ attempts[t] \in Nat /\ MaxAttempts[t] \in Nat
  BY StoreAssumption DEF HandlerBase, HandlerTypeOK, RunnerTypeOK, TypeOK
<1>2. starts[t] <= attempts[t] /\ attempts[t] <= MaxAttempts[t]
  BY DEF StartsInv, AttemptsBounded
<1>3. Cardinality(Scripts(t)) \in Nat /\ ran[t] + Cardinality(Scripts(t)) <= starts[t]
  BY FS_CardinalityType DEF ScriptInv, ScriptSound
<1> QED BY <1>1, <1>2, <1>3

-----------------------------------------------------------------------------
(* Success.                                                                *)

\* A handler reports or returns a success only of what it has brought about.
LEMMA OwnPromise ==
  ASSUME HeldBase, SuccessInv, NEW w \in Workers, HandlerStep(w), Mine(w),
         NEW t \in Tasks, Task(w) = t
  PROVE  Promise(w)'
<1> DEFINE Shown == /\ hpc'[w] \in {"report", "done"} /\ outcome'[w] = "succeeded"
                         => Achieved(t)'
                    /\ hpc'[w] = "complete" => Achieved(t)' /\ Reported(t)'
                    /\ hpc'[w] = "done" /\ outcome'[w] = "succeeded" => Reported(t)'
<1> USE DEF At, Goto, GotoWith, Fails
<1>0. /\ hpc \in [Workers -> HandlerLocation] /\ outcome \in [Workers -> Outcome]
      /\ opState \in [Tasks -> OpState] /\ depStatus \in [Tasks -> DepStatus] /\ ran \in [Tasks -> Nat]
  BY DEF HeldBase, HandlerBase, HandlerTypeOK, TypeOK
<1>1. Task(w)' = t /\ verdict' = verdict
  BY HandlerIsQuiet DEF runnerVars, Task
<1>2. /\ hpc[w] # "idle" /\ state[t] = "running"
      /\ pc[w] \in {"executing", "stopping"}
  <2>1. hpc[w] # "idle"
    BY HandlerRuns
  <2> QED BY <2>1, Busy, MineHolds DEF HeldBase
<1>3. Place(w) /\ Promise(w) /\ (t \in RunTasks \cap OpTasks => opState[t] \in OpenOp)
  BY <1>2 DEF HeldBase, HandlerBase, PlaceInv, SuccessInv, OpenInv
<1>4. t \in RunTasks => t \notin RollbackTasks
  BY StoreAssumption
<1>5. ASSUME \/ Checkout(w) \/ LoadArtifact(w) \/ BuildAndPush(w) \/ ResolveDigest(w)
             \/ SaveArtifact(w)
      PROVE  Shown
  BY <1>0, <1>5 DEF Checkout, LoadArtifact, BuildAndPush, ResolveDigest, SaveArtifact
<1>6. ASSUME Bind(w) PROVE Shown
  <2>1. t \in RunTasks
    BY <1>3, <1>6 DEF Bind, Place, BuildLocation
  <2>2. CASE hpc'[w] = "complete"
    <3>1. depStatus[t] = "healthy" /\ UNCHANGED storeVars
      BY <1>0, <1>6, <2>2 DEF Bind
    <3>2. UNCHANGED <<opState, depStatus>>
      BY <3>1 DEF storeVars, linkVars
    <3> QED BY <1>3, <1>4, <2>1, <2>2, <3>1, <3>2 DEF Achieved, Reported, Server, Goal
  <2>3. CASE hpc'[w] # "complete"
    <3>1. hpc'[w] # "report" /\ (hpc'[w] = "done" => outcome'[w] # "succeeded")
      BY <1>0, <1>6, <2>1, <2>3 DEF Bind, IsPipeline
    <3> QED BY <2>3, <3>1
  <2> QED BY <2>2, <2>3
<1>7. ASSUME ReportExecuting(w) \/ Prepare(w) \/ Remote(w) PROVE Shown
  BY <1>0, <1>7 DEF ReportExecuting, Prepare, Remote
<1>8. ASSUME CheckDeployment(w) PROVE Shown
  <2>1. t \in DepTasks
    BY <1>3, <1>8 DEF CheckDeployment, Place
  <2>2. CASE hpc'[w] = "report" /\ outcome'[w] = "succeeded"
    <3>1. depStatus[t] = Goal(t) /\ depStatus' = depStatus
      BY <1>0, <1>8, <2>2 DEF CheckDeployment, storeVars, linkVars
    <3> QED BY <2>1, <2>2, <3>1 DEF Achieved, Server, Goal
  <2>3. CASE ~ (hpc'[w] = "report" /\ outcome'[w] = "succeeded")
    <3>1. hpc'[w] # "complete" /\ (hpc'[w] = "done" => outcome'[w] = "failed")
      BY <1>0, <1>8 DEF CheckDeployment
    <3> QED BY <2>3, <3>1
  <2> QED BY <2>2, <2>3
<1>9. ASSUME RunScript(w) PROVE Shown
  <2>1. t \notin Server /\ hpc'[w] = "report"
    BY <1>0, <1>3, <1>9 DEF RunScript, Place, Server
  <2>2. CASE outcome'[w] = "succeeded"
    <3>1. ran'[t] = ran[t] + 1
      BY <1>0, <1>2, <1>9, <2>2 DEF RunScript
    <3>2. ran'[t] # 0
      BY <1>0, <1>2, <3>1
    <3> QED BY <2>1, <3>2 DEF Achieved
  <2> QED BY <2>1, <2>2
<1>10. ASSUME Record(w) PROVE Shown
  <2>1. t \in Server
    BY <1>3, <1>10 DEF Record, Place
  <2>2. CASE outcome[w] = "done"
    <3>1. depStatus'[t] = Goal(t) /\ opState' = opState
      BY <1>0, <1>2, <1>10, <2>2 DEF Record, SetDeploymentStatus
    <3>2. /\ hpc'[w] = "complete" => t \in RunTasks
          /\ hpc'[w] # "done"
      BY <1>0, <1>10, <2>2 DEF Record, IsPipeline
    <3> QED BY <1>3, <2>1, <3>1, <3>2 DEF Achieved, Reported, Server, Goal
  <2>3. CASE outcome[w] # "done"
    BY <1>0, <1>10, <2>3 DEF Record
  <2> QED BY <2>2, <2>3
<1>11. ASSUME Report(w) PROVE Shown
  <2>1. /\ hpc[w] = "report" /\ outcome' = outcome /\ UNCHANGED <<depStatus, ran>>
        /\ t \in OpTasks => opState'[t] = outcome[w]
    BY <1>0, <1>2, <1>11 DEF Report, SetOperation, SetOperationState, storeVars, linkVars, imageVars
  <2>2. outcome'[w] = "succeeded" => Achieved(t)
    BY <1>3, <2>1 DEF Promise
  <2>3. hpc'[w] = "done"
    BY <1>0, <1>11 DEF Report
  <2> QED BY <2>1, <2>2, <2>3 DEF Achieved, Reported, Goal
<1>12. ASSUME Complete(w) PROVE Shown
  <2>1. /\ hpc[w] = "complete" /\ UNCHANGED <<opState, depStatus, ran>> /\ hpc'[w] # "complete"
    BY <1>0, <1>3, <1>12 DEF Complete, storeVars, linkVars, imageVars
  <2> QED BY <1>3, <2>1 DEF Promise, Achieved, Reported, Goal
<1>13. Shown
  <2> HIDE DEF Shown
  <2> QED BY <1>5, <1>6, <1>7, <1>8, <1>9, <1>10, <1>11, <1>12 DEF HandlerStep
<1>14. verdict'[w] # "succeeded"
  BY <1>1, <1>2 DEF SuccessInv
<1> QED BY <1>1, <1>13, <1>14 DEF Promise, Achieved, Reported, Goal

\* A verdict of success is reached when the handler returns, and waits for the
\* commit.
LEMMA VerdictStays ==
  ASSUME HandlerBase, [HandlersNext]_allVars, NEW w \in Workers, ~ Return(w),
         verdict'[w] = "succeeded", verdict[w] = "succeeded" => pc[w] = "finishing"
  PROVE  /\ verdict[w] = "succeeded" /\ pc'[w] = pc[w] /\ box'[w] = box[w]
         /\ box[w] # None /\ ~ HandlerStep(w) /\ ~ Start(w) /\ ~ Commit(w)
<1> DEFINE Stays == verdict'[w] = verdict[w] /\ pc'[w] = pc[w] /\ box'[w] = box[w]
<1> USE DEF HandlerBase, RunnerTypeOK
<1>0. "succeeded" # None
  BY RunnerAssumption DEF Reason, TerminalTask
<1>1. ASSUME UNCHANGED runnerVars PROVE Stays
  BY <1>1 DEF runnerVars
<1>2. ASSUME NEW v \in Workers, v # w, Work(v) \/ Crash(v) \/ Restart(v) \/ Recover(v) PROVE Stays
  BY <1>2, OtherWorker
<1>3. ~ (Start(w) \/ Crash(w) \/ Restart(w) \/ StartLost(w) \/ Settle(w))
  <2>1. ~ (Crash(w) \/ StartLost(w) \/ Settle(w))
    BY <1>0 DEF Crash, StartLost, Settle, Commit, CommitLost, Leave
  <2>2. Start(w) => pc[w] = "claimed" /\ verdict' = verdict
    BY DEF Start, StartHandler
  <2>3. Restart(w) => pc[w] = "down" /\ verdict' = verdict
    BY DEF Restart
  <2> QED BY <1>0, <2>1, <2>2, <2>3
<1>4. ~ (Stop(w) \/ Claim(w) \/ Watch(w))
  <2>1. Stop(w) => pc[w] = "stopping" /\ (verdict' = verdict \/ verdict'[w] = None)
    BY DEF Stop, HandlerStopped, Leave
  <2>2. Claim(w) => pc[w] = "loop" /\ verdict' = verdict
    BY DEF Claim, StartClaim, Claimed, ClaimMissed, runnerVars
  <2>3. Watch(w) => pc[w] = "executing" /\ (verdict' = verdict \/ verdict'[w] \in {"cancelled", "lost"})
    BY DEF Watch, MonitorCheck, MonitorSeesCancel, MonitorHeartbeat, MonitorLost, MonitorStore,
       MonitorGoes, MonitorEnds, Asked
  <2> QED BY <1>0, <2>1, <2>2, <2>3
<1>5. Stays
  <2> HIDE DEF Stays
  <2>1. CASE UNCHANGED allVars
    BY <1>1, <2>1 DEF allVars, vars
  <2>2. ASSUME NEW v \in Workers, HandlerStep(v) PROVE Stays
    BY <1>1, <2>2, HandlerIsQuiet
  <2>3. ASSUME NEW v \in Workers, Start(v) \/ Return(v) \/ Stop(v) PROVE Stays
    BY <1>2, <1>3, <1>4, <2>3, EngineStepOf
  <2>4. ASSUME NEW v \in Workers, Crash(v) PROVE Stays
    BY <1>2, <1>3, <2>4
  <2>5. ASSUME NEW v \in Workers, Around(v) PROVE Stays
    <3>1. CASE v = w
      <4>1. Recover(w)
        BY <1>3, <1>4, <2>5, <3>1 DEF Around
      <4> QED BY <1>1, <4>1 DEF Recover
    <3> QED BY <1>2, <2>5, <3>1, AroundStepOf
  <2>6. CASE EngineTick \/ \E t \in Tasks : Api(t)
    BY <1>1, <2>6 DEF EngineTick, Api
  <2> QED BY <2>1, <2>2, <2>3, <2>4, <2>5, <2>6 DEF HandlersNext
<1>6. verdict[w] = "succeeded" /\ pc[w] = "finishing"
  BY <1>5
<1>7. ~ HandlerStep(w)
  <2>1. HandlerStep(w) => hpc[w] # "idle"
    BY HandlerRuns
  <2> QED BY <1>6, <2>1 DEF HandlerTypeOK
<1> QED BY <1>3, <1>5, <1>6, <1>7 DEF Settle

\* The operation of a pipeline stays open until its task is over.
LEMMA OpenInvStep ==
  ASSUME HandlerBase, OpenInv, [HandlersNext]_allVars
  PROVE  OpenInv'
<1> SUFFICES ASSUME NEW t \in RunTasks \cap OpTasks, state'[t] \in {"pending", "leased", "running"}
             PROVE  opState'[t] \in OpenOp
  BY DEF OpenInv
<1>1. t \in Tasks
  BY StoreAssumption
<1>2. CASE [EngineNext]_vars
  BY <1>1, <1>2, EngineLinkStep DEF LinkStep, OpenInv, HandlerBase
<1>3. ASSUME NEW w \in Workers, HandlerStep(w) PROVE opState'[t] \in OpenOp
  <2>1. state' = state
    BY <1>3, HandlerIsQuiet DEF taskVars
  <2>2. opState'[t] = opState[t]
    <3>1. CASE t # Task(w)
      BY <1>1, <1>3, <3>1, HandlerWrites
    <3>2. CASE t = Task(w)
      <4>1. ~ (ReportExecuting(w) \/ Report(w))
        BY <3>2 DEF ReportExecuting, Report, At, HandlerBase, PlaceInv, Place
      <4> QED BY <1>3, <4>1 DEF HandlerStep, Checkout, LoadArtifact, BuildAndPush, ResolveDigest,
             SaveArtifact, Bind, BindDeployment, CheckDeployment, Prepare, Remote, RunScript, Record,
             Complete, SetDeploymentStatus, storeVars, linkVars
    <3> QED BY <3>1, <3>2
  <2> QED BY <2>1, <2>2 DEF OpenInv
<1> QED BY <1>2, <1>3, HandlersSteps

\* A success that waits for its commit was one that counted before the step.
LEMMA VerdictCounts ==
  ASSUME HeldBase, [HandlersNext]_allVars, NEW w \in Workers, Mine(w)', box'[w] = box[w],
         box[w] # None, pc[w] = "finishing", pc'[w] = "finishing"
  PROVE  Mine(w)
<1>1. HandlerBase /\ TypeOK
  BY DEF HeldBase, HandlerBase
<1>2. outlived \subseteq outlived'
  <2>1. ASSUME NEW v \in Workers, HandlerStep(v) PROVE outlived' = outlived
    BY <2>1, HandlerIsQuiet DEF runnerVars
  <2> QED BY <2>1, OutlivedGrows, HandlersSteps
<1>3. /\ Task(w) \notin outlived /\ version'[Task(w)] = box[w].version
  BY <1>2 DEF Mine, Task
<1>4. Task(w) \in Tasks /\ box[w].version \in Nat /\ monitor[w] # "renewed"
  BY <1>1, TokenHeld DEF HandlerBase, RunnerTypeOK, Task
<1>5. version'[Task(w)] >= version[Task(w)] /\ version[Task(w)] \in Nat
  BY <1>1, <1>4, HandlersStepIsNext, VersionGuardsAttempts DEF TypeOK
<1>6. box[w].version <= version[Task(w)]
  BY <1>4 DEF HeldBase, TokenInv, Known, Task
<1> QED BY <1>3, <1>4, <1>5, <1>6 DEF Mine

\* Only the return of a handler and its engine make a verdict of success.
LEMMA VerdictPlace ==
  ASSUME HandlerBase, [HandlersNext]_allVars, NEW w \in Workers,
         verdict[w] = "succeeded" => pc[w] = "finishing", verdict'[w] = "succeeded"
  PROVE  pc'[w] = "finishing"
<1>1. CASE Return(w)
  BY <1>1 DEF Return, HandlerReturns, HandlerBase, RunnerTypeOK
<1>2. CASE ~ Return(w)
  BY <1>2, VerdictStays
<1> QED BY <1>1, <1>2

LEMMA SuccessInvStep ==
  ASSUME HeldBase, SuccessInv, [HandlersNext]_allVars
  PROVE  SuccessInv'
<1>0. HandlerBase
  BY DEF HeldBase
<1>1. OpenInv' /\ \A w \in Workers : verdict'[w] = "succeeded" => pc'[w] = "finishing"
  BY <1>0, OpenInvStep, VerdictPlace DEF SuccessInv
<1>2. ASSUME NEW w \in Workers, HandlerStep(w), Mine(w)' PROVE Promise(w)'
  <2>1. hpc[w] # "idle" /\ Task(w)' = Task(w)
    BY <1>2, HandlerRuns, HandlerIsQuiet DEF runnerVars, Task
  <2>2. Mine(w) /\ Task(w) \in Tasks
    BY <1>0, <1>2, <2>1, MineBefore, Busy
  <2> QED BY <1>2, <2>2, OwnPromise
<1>3. ASSUME NEW w \in Workers, ~ HandlerStep(w), Mine(w)' PROVE Promise(w)'
  <2>1. ASSUME NEW t \in Tasks, Task(w) = t, Task(w)' = t, Mine(w), ~ Start(w), ~ Commit(w)
        PROVE  /\ Achieved(Task(w))' <=> Achieved(Task(w))
               /\ Reported(Task(w))' <=> Reported(Task(w))
    <3>1. depStatus'[t] = depStatus[t] /\ opState'[t] = opState[t] /\ ran'[t] = ran[t]
      BY <1>3, <2>1, Undisturbed
    <3> QED BY <2>1, <3>1 DEF Achieved, Reported, Goal
  <2>2. CASE Return(w)
    <3>1. /\ hpc[w] = "done" /\ hpc'[w] = "idle" /\ box' = box /\ pc'[w] = "finishing"
          /\ verdict'[w] = "succeeded" => outcome[w] = "succeeded"
      BY <1>0, <2>2 DEF Return, Reset, HandlerReturns, HandlerBase, HandlerTypeOK, RunnerTypeOK
    <3>2. /\ Task(w)' = Task(w) /\ Task(w) \in Tasks /\ pc[w] \in {"executing", "stopping"}
          /\ Mine(w)
      <4>1. Task(w)' = Task(w)
        BY <3>1 DEF Task
      <4> QED BY <1>0, <1>3, <3>1, <4>1, Busy, MineBefore
    <3>3. ~ Start(w) /\ ~ Commit(w)
      BY <3>2 DEF Start, StartHandler, Commit
    <3>4. /\ Achieved(Task(w))' <=> Achieved(Task(w))
          /\ Reported(Task(w))' <=> Reported(Task(w))
      BY <2>1, <3>2, <3>3
    <3> QED BY <3>1, <3>2, <3>4 DEF SuccessInv, Promise
  <2>3. CASE ~ Return(w)
    <3>1. ASSUME verdict'[w] = "succeeded"
          PROVE  Achieved(Task(w))' /\ Reported(Task(w))'
      <4>1. verdict[w] = "succeeded" => pc[w] = "finishing"
        BY DEF SuccessInv
      <4>2. /\ verdict[w] = "succeeded" /\ pc'[w] = pc[w] /\ box'[w] = box[w]
            /\ box[w] # None /\ ~ Start(w) /\ ~ Commit(w)
        BY <1>0, <2>3, <3>1, <4>1, VerdictStays
      <4>3. Task(w) \in Tasks /\ Task(w)' = Task(w)
        BY <1>0, <4>1, <4>2, TokenHeld DEF HandlerBase, Task
      <4>4. Mine(w)
        BY <1>3, <4>1, <4>2, VerdictCounts
      <4>5. /\ Achieved(Task(w))' <=> Achieved(Task(w))
            /\ Reported(Task(w))' <=> Reported(Task(w))
        BY <2>1, <4>2, <4>3, <4>4
      <4> QED BY <4>2, <4>4, <4>5 DEF SuccessInv, Promise
    <3>2. ASSUME hpc'[w] \in {"report", "done", "complete"}
          PROVE  /\ hpc'[w] \in {"report", "done"} /\ outcome'[w] = "succeeded" => Achieved(Task(w))'
                 /\ hpc'[w] = "complete" => Achieved(Task(w))' /\ Reported(Task(w))'
                 /\ hpc'[w] = "done" /\ outcome'[w] = "succeeded" => Reported(Task(w))'
      <4>1. ~ Start(w)
        BY <1>0, <3>2 DEF Start, Goto, HandlerBase, HandlerTypeOK
      <4>2. /\ hpc[w] # "idle" /\ hpc'[w] = hpc[w] /\ outcome'[w] = outcome[w]
            /\ Task(w)' = Task(w)
        BY <1>0, <1>3, <3>2, <4>1, HandlerStays
      <4>3. Mine(w) /\ Task(w) \in Tasks /\ ~ Commit(w)
        BY <1>0, <1>3, <4>2, MineBefore, Busy DEF Commit
      <4>4. /\ Achieved(Task(w))' <=> Achieved(Task(w))
            /\ Reported(Task(w))' <=> Reported(Task(w))
        BY <2>1, <4>1, <4>2, <4>3
      <4> QED BY <3>2, <4>2, <4>3, <4>4 DEF SuccessInv, Promise
    <3> QED BY <3>1, <3>2 DEF Promise
  <2> QED BY <2>2, <2>3
<1> QED BY <1>1, <1>2, <1>3 DEF SuccessInv

\* The worker that commits a success has it to show, and finish closes the
\* operation.
LEMMA CommitAgrees ==
  ASSUME HandlerBase, SuccessInv, DeploymentInv, NEW w \in Workers, NEW t \in Tasks \ outlived,
         Commit(w), verdict[w] = "succeeded", box[w].task = t
  PROVE  /\ opState'[t] \notin OpenOp /\ depStatus'[t] \notin OpenDep
         /\ t \in OpTasks => opState'[t] = "succeeded"
         /\ t \in Server => depStatus'[t] = Goal(t)
         /\ t \notin Server => ran[t] # 0
<1>1. PICK d \in Delays : Finish(w, t, box[w].version, d, "succeeded")
  BY DEF Commit
<1>2. Mine(w)
  <2>1. pc[w] = "finishing" /\ version[t] = box[w].version
    BY <1>1 DEF Commit, Finish, Owns
  <2> QED BY <2>1 DEF Mine, Task, HandlerBase, RunnerTypeOK
<1>3. Achieved(t) /\ Reported(t)
  BY <1>2 DEF SuccessInv, Promise, Task
<1>4. /\ opState'[t] = (IF opState[t] \in OpenOp THEN "succeeded" ELSE opState[t])
      /\ depStatus'[t] = depStatus[t]
  BY <1>1 DEF Finish, HandlerBase, TypeOK
<1>5. t \notin Server => depStatus[t] = "absent"
  BY DEF DeploymentInv
<1> QED BY <1>3, <1>4, <1>5 DEF Achieved, Reported, Goal, OpenOp, OpenDep

EndInv == \A t \in Tasks \ outlived : LinksClosed(t) /\ SuccessIsComplete(t)

LEMMA AgreeStep ==
  ASSUME HeldBase, DeploymentInv, SuccessInv, EndInv, [HandlersNext]_allVars
  PROVE  EndInv'
<1> DEFINE Agrees(t) ==
      /\ opState'[t] \notin OpenOp /\ depStatus'[t] \notin OpenDep
      /\ state'[t] = "succeeded" =>
           /\ t \in OpTasks => opState'[t] = "succeeded"
           /\ t \in RunTasks \cup DepTasks => depStatus'[t] = Goal(t)
           /\ t \notin RunTasks \cup DepTasks => ran'[t] # 0
<1>0. HandlerBase /\ outlived \subseteq outlived'
  <2>1. ASSUME NEW v \in Workers, HandlerStep(v) PROVE outlived' = outlived
    BY <2>1, HandlerIsQuiet DEF runnerVars
  <2> QED BY <2>1, OutlivedGrows, HandlersSteps DEF HeldBase
<1>1. ASSUME NEW t \in Tasks \ outlived, state[t] \in {"succeeded", "failed"}, state'[t] = state[t],
             opState'[t] = opState[t], depStatus'[t] = depStatus[t], ran'[t] = ran[t]
      PROVE  Agrees(t)
  BY <1>1 DEF EndInv, LinksClosed, SuccessIsComplete, Goal
<1>2. ASSUME NEW t \in Tasks \ outlived, state'[t] \in {"succeeded", "failed"}, [EngineNext]_vars,
             ran' = ran
      PROVE  Agrees(t)
  <2>1. LinkStep(t)
    BY <1>0, <1>2, EngineLinkStep DEF HandlerBase
  <2>2. CASE state[t] \in TerminalTask
    <3>1. state'[t] = state[t]
      BY <1>0, <2>2, <1>2, EngineStepIsNext, StaysOverStep DEF StaysOver, HandlerBase
    <3> QED BY <1>1, <1>2, <2>1, <2>2, <3>1 DEF LinkStep
  <2>3. CASE state[t] \notin TerminalTask /\ state'[t] = "failed"
    BY <2>1, <2>3 DEF LinkStep, TerminalTask
  <2>4. CASE state[t] \notin TerminalTask /\ state'[t] = "succeeded"
    <3>1. PICK w \in Workers : Commit(w) /\ verdict[w] = "succeeded" /\ box[w].task = t
      BY <1>0, <1>2, <2>4, OnlyCommitSucceeds DEF HandlerBase, TerminalTask
    <3>2. /\ opState'[t] \notin OpenOp /\ depStatus'[t] \notin OpenDep
          /\ t \in OpTasks => opState'[t] = "succeeded"
          /\ t \in Server => depStatus'[t] = Goal(t)
          /\ t \notin Server => ran[t] # 0
      BY <1>0, <1>2, <3>1, CommitAgrees
    <3> QED BY <1>2, <3>2 DEF Server
  <2> QED BY <1>2, <2>2, <2>3, <2>4
<1>3. ASSUME NEW t \in Tasks \ outlived, state'[t] \in {"succeeded", "failed"}, NEW w \in Workers,
             HandlerStep(w)
      PROVE  Agrees(t)
  <2>1. hpc[w] # "idle"
    BY <1>3, HandlerRuns
  <2>2. state' = state
    BY <1>3, HandlerIsQuiet DEF taskVars
  <2>3. ASSUME t = Task(w) PROVE FALSE
    <3>1. Mine(w)
      BY <1>0, <2>1, <2>3, Busy
    <3> QED BY <1>3, <2>2, <2>3, <3>1, MineHolds
  <2> QED BY <1>0, <1>1, <1>3, <2>2, <2>3, HandlerWrites
<1>4. ASSUME NEW t \in Tasks \ outlived', state'[t] \in {"succeeded", "failed"} PROVE Agrees(t)
  <2>0. t \in Tasks \ outlived
    BY <1>0
  <2>1. CASE \E w \in Workers : HandlerStep(w)
    BY <1>3, <1>4, <2>0, <2>1
  <2>2. CASE ~ \E w \in Workers : HandlerStep(w)
    <3>1. [EngineNext]_vars
      BY <2>2, HandlersSteps
    <3>2. ran' = ran
      BY <1>0, <2>2, ImagesStep DEF HandlerStep, imageVars
    <3> QED BY <1>2, <1>4, <2>0, <3>1, <3>2
  <2> QED BY <2>1, <2>2
<1> QED BY <1>4 DEF EndInv, LinksClosed, SuccessIsComplete, Goal

LEMMA HandlersAgree == HandlersSpec => [](EndInv /\ \A t \in Tasks : ran[t] <= MaxAttempts[t])
<1> DEFINE Bounded == \A t \in Tasks : ran[t] <= MaxAttempts[t]
<1>1. HandlersInit => StartsInv /\ ScriptInv /\ SuccessInv /\ EndInv
  <2> SUFFICES ASSUME HandlersInit
               PROVE  StartsInv /\ ScriptInv /\ SuccessInv /\ EndInv
    OBVIOUS
  <2>1. /\ \A w \in Workers : hpc[w] = "idle" /\ verdict[w] = None /\ box[w] = None
        /\ \A t \in Tasks : state[t] = "absent" /\ starts[t] = 0 /\ attempts[t] = 0 /\ ran[t] = 0
    BY DEF HandlersInit, EngineInit, Init, RunnerInit
  <2>2. None # "succeeded"
    BY RunnerAssumption DEF Reason, TerminalTask
  <2>3. SuccessInv
    BY <2>1, <2>2, StoreAssumption DEF SuccessInv, Mine, OpenInv
  <2>4. ASSUME NEW t \in Tasks PROVE ScriptSound(t)
    <3>1. Scripts(t) = {}
      BY <2>1 DEF Scripts
    <3>2. IsFiniteSet(Scripts(t)) /\ Cardinality(Scripts(t)) = 0
      BY <3>1, FS_EmptySet
    <3> QED BY <2>1, <3>2 DEF ScriptSound
  <2> QED BY <2>1, <2>3, <2>4 DEF StartsInv, ScriptInv, EndInv, LinksClosed, SuccessIsComplete
<1>2. /\ HandlerBase /\ [HandlersNext]_allVars /\ StartsInv => StartsInv'
      /\ HandlerBase /\ [HandlersNext]_allVars /\ ScriptInv => ScriptInv'
      /\ HeldBase /\ [HandlersNext]_allVars /\ SuccessInv => SuccessInv'
  BY HandlersStartsStep, ScriptInvStep, SuccessInvStep
<1>3. HandlerBase /\ StartsInv /\ AttemptsBounded /\ ScriptInv => Bounded
  BY ScriptsBounded
<1>4. HeldBase /\ DeploymentInv /\ SuccessInv /\ EndInv /\ [HandlersNext]_allVars => EndInv'
  BY AgreeStep
<1>5. HandlersSpec => []AttemptsBounded
  BY HandlersImplementStore, AttemptsAreBounded, PTL
<1> HIDE DEF Bounded
<1>6. HandlersSpec => [](EndInv /\ Bounded)
  BY <1>1, <1>2, <1>3, <1>4, <1>5, HandlersDeployments, HandlersBase, PTL DEF HandlersSpec
<1> QED BY <1>6 DEF Bounded

\* The rows of a task agree at its end: nothing stays open, and a success is
\* one of the operation, of the deployment or the script, and of the handler,
\* for every task whose lease was not passed on under a running handler
\* (store.py finish and recover_expired, handlers.py); and no script, whoever
\* outlives what, runs more often than its task has attempts.
THEOREM EndsAgree == HandlersSpec => []LinksAgree
<1>1. EndInv /\ (\A t \in Tasks : ran[t] <= MaxAttempts[t]) => LinksAgree
  BY DEF EndInv, LinksAgree
<1> QED BY <1>1, HandlersAgree, PTL
=============================================================================
