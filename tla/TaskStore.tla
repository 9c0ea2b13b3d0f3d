----------------------------- MODULE TaskStore -----------------------------
(***************************************************************************)
(* The persistent task queue of ForgeDeck: the rows that the API process   *)
(* and the Runner processes share through the database, and the            *)
(* transactions on them.  One action is one committed transaction of       *)
(* runner/store.py (SQLAlchemyRunnerTaskStore), of                         *)
(* RunnerTaskRepository.lease_next, or of the API routes that write the    *)
(* same rows.  The callers are arbitrary: any worker may present any lease *)
(* (task, version) at any time; LeaseRunner says which ones really do.     *)
(*                                                                         *)
(* Time.  lease_expires_at is kept relative to the current time: ttl[t] is *)
(* the number of ticks the lease of t still has, and Tick lowers it.  A    *)
(* transaction compares expiry with a `now` that was read d ticks before   *)
(* its UPDATE took effect (utcnow() is called before the session waits for *)
(* the database, busy_timeout = 30 s), d \in 0..MaxDelay, so               *)
(* "lease_expires_at > now" reads ttl[t] + d > 0.                          *)
(***************************************************************************)
EXTENDS Integers, FiniteSets

CONSTANTS
  Tasks,        \* the rows of runner_tasks
  Workers,      \* the worker_id of every LeaseRunner
  None,         \* SQL NULL
  Resource,     \* resource_key of each task
  MaxAttempts,  \* max_attempts of each task
  RunTasks,     \* tasks with a run_id (kind PIPELINE)
  OpTasks,      \* tasks with an operation_id (created by an approval)
  DepTasks,     \* tasks created with a deployment_id (kind DEPLOYMENT)
  RollbackTasks,\* those whose action is to roll a healthy deployment back
  CanClaim,     \* the <<worker, task>> pairs allowed by the `kinds` filter
  Lease,        \* lease_seconds, in ticks
  MaxDelay,     \* bound: ticks between utcnow() and the UPDATE that uses it
  MaxVersion,   \* bound: no heartbeat once a row's version has reached it
  Batches       \* bound: the sets of tasks that a behaviour may submit

ASSUME StoreAssumption ==
  /\ None \notin Workers
  /\ MaxAttempts \in [Tasks -> Nat \ {0}]
  /\ RunTasks \subseteq Tasks
  /\ OpTasks \subseteq Tasks
  /\ DepTasks \subseteq Tasks \ RunTasks
  /\ RollbackTasks \subseteq DepTasks
  /\ Lease \in Nat \ {0}
  /\ MaxDelay \in Nat
  /\ MaxDelay < Lease
  /\ MaxVersion \in Nat
  /\ Batches \subseteq SUBSET Tasks

VARIABLES
  state,            \* RunnerTask.state
  leasedBy,         \* RunnerTask.leased_by
  ttl,              \* RunnerTask.lease_expires_at, relative to now
  attempts,         \* RunnerTask.attempts
  version,          \* RunnerTask.version, the CAS token
  runStatus,        \* PipelineRun.status of the task's run
  runLeasedBy,      \* PipelineRun.leased_by
  cancelRequested,  \* PipelineRun.cancel_requested
  opState,          \* OperationRequest.state of the task's operation
  depStatus,        \* Deployment.status of the deployment the task is bound to
  candidate,        \* per worker: the row lease_next selected and not yet updated
  cancelView,       \* per task: the run status a cancel request has read
  revived           \* history: tasks whose lease a late heartbeat brought back

taskVars == <<state, leasedBy, ttl, attempts, version, revived>>
linkVars == <<runStatus, runLeasedBy, cancelRequested, opState, depStatus>>
storeVars == <<taskVars, linkVars, candidate, cancelView>>

TerminalTask == {"succeeded", "failed", "cancelled"}
TaskState == {"absent", "pending", "leased", "running"} \cup TerminalTask
OpenRun == {"queued", "running"}
RunStatus == {"absent"} \cup OpenRun \cup TerminalTask
OpenOp == {"approved", "executing"}
OpState == {"absent", "succeeded", "failed"} \cup OpenOp
OpenDep == {"pending", "deploying"}
DepStatus == {"absent", "healthy", "failed", "rolled_back"} \cup OpenDep

Delays == 0..MaxDelay
Candidate == [task : Tasks, version : Nat, age : Delays]

\* The type invariant of the rows: no claim about the code's behaviour beyond
\* the columns' ranges; a lease never lasts longer than lease_seconds.
TypeOK ==
  /\ state \in [Tasks -> TaskState]
  /\ leasedBy \in [Tasks -> Workers \cup {None}]
  /\ ttl \in [Tasks -> (-(MaxDelay + 1))..Lease]
  /\ attempts \in [Tasks -> Nat]
  /\ version \in [Tasks -> Nat]
  /\ runStatus \in [Tasks -> RunStatus]
  /\ runLeasedBy \in [Tasks -> Workers \cup {None}]
  /\ cancelRequested \in [Tasks -> BOOLEAN]
  /\ opState \in [Tasks -> OpState]
  /\ depStatus \in [Tasks -> DepStatus]
  /\ candidate \in [Workers -> Candidate \cup {None}]
  /\ cancelView \in [Tasks -> OpenRun \cup {None}]
  /\ revived \subseteq Tasks

-----------------------------------------------------------------------------
(* Predicates of the WHERE clauses; d is the age of the `now` they use.    *)

Held(t) == state[t] \in {"leased", "running"}

\* lease_expires_at > now
LeaseLive(t, d) == ttl[t] + d > 0

\* A task that excludes the other tasks of its resource_key.
Active(t, d) == Held(t) /\ LeaseLive(t, d)

\* lease_next's `runnable`: pending, or leased with lease_expires_at < now.
\* (available_at only delays a pending row; a claim may come at any time.)
Runnable(t, d) ==
  \/ state[t] = "pending"
  \/ Held(t) /\ ttl[t] + d < 0

\* The task has an attempt left.
Retryable(t) == attempts[t] < MaxAttempts[t]

\* Another task of the same resource_key has a live lease.
ResourceBusy(t, d) ==
  \E u \in Tasks \ {t} : Resource[u] = Resource[t] /\ Active(u, d)

\* Mutants of Owns: an owner operation that does not look at the expiry, and
\* one that looks at nothing else.
OwnsExpired(w, t, v, d) == version[t] = v /\ leasedBy[t] = w
OwnsUnfenced(w, t, v, d) == LeaseLive(t, d)

\* The compare-and-swap every owner operation starts with.  The `now` it uses
\* was read after the one that granted the lease: d <= Lease - ttl[t].
Owns(w, t, v, d) ==
  /\ version[t] = v
  /\ leasedBy[t] = w
  /\ LeaseLive(t, d)
  /\ d <= Lease - ttl[t]

-----------------------------------------------------------------------------
(* Submitting and claiming.                                                *)

Init ==
  /\ state = [t \in Tasks |-> "absent"]
  /\ leasedBy = [t \in Tasks |-> None]
  /\ ttl = [t \in Tasks |-> 0]
  /\ attempts = [t \in Tasks |-> 0]
  /\ version = [t \in Tasks |-> 0]
  /\ runStatus = [t \in Tasks |-> "absent"]
  /\ runLeasedBy = [t \in Tasks |-> None]
  /\ cancelRequested = [t \in Tasks |-> FALSE]
  /\ opState = [t \in Tasks |-> "absent"]
  /\ depStatus = [t \in Tasks |-> "absent"]
  /\ candidate = [w \in Workers |-> None]
  /\ cancelView = [t \in Tasks |-> None]
  /\ revived = {}

\* enqueue_pipeline, or the approval of an operation: the task and the rows
\* it is linked to are committed together.  A deployment task comes with a new
\* deployment, or with the healthy one that it rolls back.
Enqueue(t) ==
  /\ state[t] = "absent"
  /\ \E B \in Batches : {u \in Tasks : state[u] # "absent"} \cup {t} \subseteq B
  /\ state' = [state EXCEPT ![t] = "pending"]
  /\ runStatus' = [runStatus EXCEPT ![t] = IF t \in RunTasks THEN "queued" ELSE @]
  /\ opState' = [opState EXCEPT ![t] = IF t \in OpTasks THEN "approved" ELSE @]
  /\ depStatus' = [depStatus EXCEPT ![t] = IF t \in RollbackTasks THEN "healthy"
                                           ELSE IF t \in DepTasks THEN "pending"
                                           ELSE @]
  /\ UNCHANGED <<leasedBy, ttl, attempts, version, revived, runLeasedBy,
                 cancelRequested, candidate, cancelView>>

\* Mutant of SelectCandidate: max_attempts is not looked at.
SelectExhausted(w, t) ==
  /\ candidate[w] = None
  /\ <<w, t>> \in CanClaim
  /\ Runnable(t, 0)
  /\ candidate' = [candidate EXCEPT ![w] =
                     [task |-> t, version |-> version[t], age |-> 0]]
  /\ UNCHANGED <<taskVars, linkVars, cancelView>>

\* The SELECT of lease_next.  Which of the runnable rows comes first
\* (priority, created_at, LIMIT 20) is left open, and so is how many of them
\* the loop passes over before it reaches t with an unchanged version.
SelectCandidate(w, t) ==
  /\ candidate[w] = None
  /\ <<w, t>> \in CanClaim
  /\ Runnable(t, 0)
  /\ Retryable(t)
  /\ candidate' = [candidate EXCEPT ![w] =
                     [task |-> t, version |-> version[t], age |-> 0]]
  /\ UNCHANGED <<taskVars, linkVars, cancelView>>

\* Mutant of Claimable: the resource is not looked at.
ClaimableBusy(c) == version[c.task] = c.version /\ Runnable(c.task, c.age)

\* The WHERE clause of the claiming UPDATE, evaluated when it runs.
Claimable(c) ==
  /\ version[c.task] = c.version
  /\ Runnable(c.task, c.age)
  /\ ~ResourceBusy(c.task, c.age)

\* The claiming UPDATE, when it matches the row.  The run, the operation and
\* the deployment of a task that is reclaimed after its lease expired are not
\* touched.
ClaimCandidate(w) ==
  LET c == candidate[w]
      t == candidate[w].task
  IN /\ candidate[w] # None
     /\ Claimable(c)
     /\ state' = [state EXCEPT ![t] = "leased"]
     /\ leasedBy' = [leasedBy EXCEPT ![t] = w]
     /\ ttl' = [ttl EXCEPT ![t] = Lease - c.age]
     /\ attempts' = [attempts EXCEPT ![t] = @ + 1]
     /\ version' = [version EXCEPT ![t] = @ + 1]
     /\ candidate' = [candidate EXCEPT ![w] = None]
     /\ revived' = revived \ {t}
     /\ UNCHANGED <<linkVars, cancelView>>

\* The claiming UPDATE, when it matches no row: the loop goes on to another
\* candidate or returns None.
SkipCandidate(w) ==
  /\ candidate[w] # None
  /\ ~Claimable(candidate[w])
  /\ candidate' = [candidate EXCEPT ![w] = None]
  /\ UNCHANGED <<taskVars, linkVars, cancelView>>

\* The claiming transaction is rolled back: a database error, or the process
\* died.
AbortClaim(w) ==
  /\ candidate[w] # None
  /\ candidate' = [candidate EXCEPT ![w] = None]
  /\ UNCHANGED <<taskVars, linkVars, cancelView>>

-----------------------------------------------------------------------------
(* The operations of a lease's owner.                                      *)

MarkRunning(w, t, v, d) ==
  /\ Owns(w, t, v, d)
  /\ state[t] = "leased"
  /\ state' = [state EXCEPT ![t] = "running"]
  /\ version' = [version EXCEPT ![t] = @ + 1]
  /\ LET runOpen == runStatus[t] \in OpenRun
     IN /\ runStatus' = [runStatus EXCEPT ![t] = IF runOpen THEN "running" ELSE @]
        /\ runLeasedBy' = [runLeasedBy EXCEPT ![t] = IF runOpen THEN w ELSE @]
  /\ opState' = [opState EXCEPT ![t] = IF @ \in OpenOp THEN "executing" ELSE @]
  /\ UNCHANGED <<leasedBy, ttl, attempts, revived, cancelRequested, depStatus,
                 candidate, cancelView>>

\* Mutant of Heartbeat: the lease is extended from its old end.
HeartbeatAdds(w, t, v, d) ==
  /\ Owns(w, t, v, d)
  /\ Held(t)
  /\ version[t] < MaxVersion
  /\ ttl' = [ttl EXCEPT ![t] = @ + Lease]
  /\ revived' = IF d > 0 /\ ~LeaseLive(t, 0) THEN revived \cup {t} ELSE revived
  /\ version' = [version EXCEPT ![t] = @ + 1]
  /\ UNCHANGED <<state, leasedBy, attempts, linkVars, candidate, cancelView>>

\* The new lease_expires_at counts from the `now` the caller read; with a
\* `now` from before its end, a lease that is over is held again.
Heartbeat(w, t, v, d) ==
  /\ Owns(w, t, v, d)
  /\ Held(t)
  /\ version[t] < MaxVersion
  /\ ttl' = [ttl EXCEPT ![t] = Lease - d]
  /\ revived' = IF d > 0 /\ ~LeaseLive(t, 0) THEN revived \cup {t} ELSE revived
  /\ version' = [version EXCEPT ![t] = @ + 1]
  /\ UNCHANGED <<state, leasedBy, attempts, linkVars, candidate, cancelView>>

Finish(w, t, v, d, s) ==
  /\ s \in TerminalTask
  /\ Owns(w, t, v, d)
  /\ Held(t)
  /\ state' = [state EXCEPT ![t] = s]
  /\ leasedBy' = [leasedBy EXCEPT ![t] = None]
  /\ ttl' = [ttl EXCEPT ![t] = 0]
  /\ version' = [version EXCEPT ![t] = @ + 1]
  /\ LET runMine == runLeasedBy[t] = w /\ runStatus[t] \in OpenRun
     IN /\ runStatus' = [runStatus EXCEPT ![t] = IF runMine THEN s ELSE @]
        /\ runLeasedBy' = [runLeasedBy EXCEPT ![t] = IF runMine THEN None ELSE @]
  /\ opState' = [opState EXCEPT ![t] =
                   IF @ \in OpenOp
                   THEN IF s = "succeeded" THEN "succeeded" ELSE "failed"
                   ELSE @]
  /\ depStatus' = [depStatus EXCEPT ![t] =
                     IF s # "succeeded" /\ @ \in OpenDep THEN "failed" ELSE @]
  /\ UNCHANGED <<attempts, revived, cancelRequested, candidate, cancelView>>

\* A retryable failure gives the task back; the operation and the deployment
\* keep the state the failed attempt left them in.
Retry(w, t, v, d) ==
  /\ Owns(w, t, v, d)
  /\ Held(t)
  /\ Retryable(t)
  /\ state' = [state EXCEPT ![t] = "pending"]
  /\ leasedBy' = [leasedBy EXCEPT ![t] = None]
  /\ ttl' = [ttl EXCEPT ![t] = 0]
  /\ version' = [version EXCEPT ![t] = @ + 1]
  /\ LET runMine == runLeasedBy[t] = w /\ runStatus[t] = "running"
     IN /\ runStatus' = [runStatus EXCEPT ![t] = IF runMine THEN "queued" ELSE @]
        /\ runLeasedBy' = [runLeasedBy EXCEPT ![t] = IF runMine THEN None ELSE @]
  /\ UNCHANGED <<attempts, revived, cancelRequested, opState, depStatus, candidate,
                 cancelView>>

-----------------------------------------------------------------------------
(* What the handlers write to the linked rows.                             *)

\* Mutant of BindDeployment: a deployment that is over is opened again.
BindReopens(w, t, a, d) ==
  /\ t \in RunTasks
  /\ leasedBy[t] = w
  /\ attempts[t] = a
  /\ Active(t, d)
  /\ depStatus' = [depStatus EXCEPT ![t] = "deploying"]
  /\ UNCHANGED <<taskVars, runStatus, runLeasedBy, cancelRequested, opState,
                 candidate, cancelView>>

\* _create_pipeline_deployment: the deployment of a pipeline is created (or
\* reopened) and bound to the task in one transaction, fenced by the owner and
\* the attempt (a) but not by the version, which heartbeats move.
BindDeployment(w, t, a, d) ==
  /\ t \in RunTasks
  /\ leasedBy[t] = w
  /\ attempts[t] = a
  /\ Active(t, d)
  /\ depStatus[t] \in {"absent"} \cup OpenDep
  /\ depStatus' = [depStatus EXCEPT ![t] = "deploying"]
  /\ UNCHANGED <<taskVars, runStatus, runLeasedBy, cancelRequested, opState,
                 candidate, cancelView>>

\* _set_operation_state: by id alone, whatever the state and the owner are.
SetOperationState(t, s) ==
  /\ t \in OpTasks
  /\ state[t] # "absent"
  /\ opState' = [opState EXCEPT ![t] = s]
  /\ UNCHANGED <<taskVars, runStatus, runLeasedBy, cancelRequested, depStatus,
                 candidate, cancelView>>

\* _update_deployment and _finish_deployment: by id alone.
SetDeploymentStatus(t, s) ==
  /\ depStatus[t] # "absent"
  /\ depStatus' = [depStatus EXCEPT ![t] = s]
  /\ UNCHANGED <<taskVars, runStatus, runLeasedBy, cancelRequested, opState,
                 candidate, cancelView>>

-----------------------------------------------------------------------------
(* Recovery of expired leases: one transaction over all of them.           *)

\* Mutant of Expired: a worker that died before mark_running is forgotten.
ExpiredRunning(d) == {t \in Tasks : state[t] = "running" /\ ttl[t] + d <= 0}

\* lease_expires_at <= now
Expired(d) == {t \in Tasks : Held(t) /\ ttl[t] + d <= 0}

\* Mutant of RecoveredRun: the run of an exhausted task is queued again.
RecoveredRunQueued(t) == IF runStatus[t] \in OpenRun THEN "queued" ELSE runStatus[t]

\* What the recovery makes of the rows linked to an expired task: a rewind if
\* the task is tried again, a failure if it is not, and a row that is already
\* over keeps its state.
RecoveredRun(t) ==
  IF runStatus[t] \notin OpenRun THEN runStatus[t]
  ELSE IF Retryable(t) THEN "queued" ELSE "failed"

RecoveredOp(t) ==
  IF Retryable(t) /\ opState[t] = "executing" THEN "approved"
  ELSE IF ~Retryable(t) /\ opState[t] \in OpenOp THEN "failed"
  ELSE opState[t]

RecoveredDep(t) ==
  IF depStatus[t] \notin OpenDep THEN depStatus[t]
  ELSE IF Retryable(t) THEN "pending" ELSE "failed"

RecoverExpired(d) ==
  LET E == Expired(d)
  IN /\ E # {}
     /\ state' = [t \in Tasks |-> IF t \notin E THEN state[t]
                                  ELSE IF Retryable(t) THEN "pending" ELSE "failed"]
     /\ leasedBy' = [t \in Tasks |-> IF t \in E THEN None ELSE leasedBy[t]]
     /\ ttl' = [t \in Tasks |-> IF t \in E THEN 0 ELSE ttl[t]]
     /\ version' = [t \in Tasks |-> IF t \in E THEN version[t] + 1 ELSE version[t]]
     /\ runStatus' = [t \in Tasks |-> IF t \in E THEN RecoveredRun(t) ELSE runStatus[t]]
     /\ runLeasedBy' = [t \in Tasks |-> IF t \in E /\ runStatus[t] \in OpenRun
                                        THEN None ELSE runLeasedBy[t]]
     /\ opState' = [t \in Tasks |-> IF t \in E THEN RecoveredOp(t) ELSE opState[t]]
     /\ depStatus' = [t \in Tasks |-> IF t \in E THEN RecoveredDep(t) ELSE depStatus[t]]
     /\ UNCHANGED <<attempts, revived, cancelRequested, candidate, cancelView>>

-----------------------------------------------------------------------------
(* POST /runs/{id}/cancel: the run is read first, the writes are one later *)
(* transaction that does not look at the run's status again.               *)

CancelRead(t) ==
  /\ t \in RunTasks
  /\ cancelView[t] = None
  /\ runStatus[t] \in OpenRun
  /\ cancelView' = [cancelView EXCEPT ![t] = runStatus[t]]
  /\ UNCHANGED <<taskVars, linkVars, candidate>>

\* Mutant of CancelledTask: the task's own state is not looked at.
CancelledAnyTask(t) == cancelView[t] = "queued"

\* The UPDATE of runner_tasks: only a row that is still pending.
CancelledTask(t) == cancelView[t] = "queued" /\ state[t] = "pending"

CancelWrite(t) ==
  /\ cancelView[t] # None
  /\ cancelRequested' = [cancelRequested EXCEPT ![t] = TRUE]
  /\ runStatus' = [runStatus EXCEPT ![t] =
                     IF cancelView[t] = "queued" THEN "cancelled" ELSE @]
  /\ state' = [state EXCEPT ![t] = IF CancelledTask(t) THEN "cancelled" ELSE @]
  /\ version' = [version EXCEPT ![t] = IF CancelledTask(t) THEN @ + 1 ELSE @]
  /\ cancelView' = [cancelView EXCEPT ![t] = None]
  /\ UNCHANGED <<leasedBy, ttl, attempts, revived, runLeasedBy, opState, depStatus,
                 candidate>>

-----------------------------------------------------------------------------
(* Time.                                                                   *)

\* One tick of the clock the processes share.  A claim waits at most MaxDelay
\* ticks between its utcnow() and its UPDATE.
Tick ==
  /\ \E t \in Tasks : Held(t) /\ ttl[t] > -(MaxDelay + 1)
  /\ \A w \in Workers : candidate[w] # None => candidate[w].age < MaxDelay
  /\ ttl' = [t \in Tasks |-> IF Held(t) /\ ttl[t] > -(MaxDelay + 1)
                             THEN ttl[t] - 1 ELSE ttl[t]]
  /\ candidate' = [w \in Workers |->
                     IF candidate[w] = None THEN None
                     ELSE [candidate[w] EXCEPT !.age = @ + 1]]
  /\ UNCHANGED <<state, leasedBy, attempts, version, revived, linkVars, cancelView>>

\* What an owner, or a caller that once was the owner, may ask of the store.
OwnerStep(w, t, v, d) ==
  \/ MarkRunning(w, t, v, d)
  \/ Heartbeat(w, t, v, d)
  \/ \E s \in TerminalTask : Finish(w, t, v, d, s)
  \/ Retry(w, t, v, d)

\* What the handler of a task may write at any time, owner or not.
HandlerWrite(t) ==
  \/ \E w \in Workers, d \in Delays : BindDeployment(w, t, attempts[t], d)
  \/ \E s \in {"executing", "succeeded", "failed"} : SetOperationState(t, s)
  \/ \E s \in DepStatus \ {"absent", "pending"} : SetDeploymentStatus(t, s)

Next ==
  \/ \E t \in Tasks : Enqueue(t) \/ CancelRead(t) \/ CancelWrite(t)
  \/ \E t \in Tasks : HandlerWrite(t)
  \/ \E w \in Workers : \/ \E t \in Tasks : SelectCandidate(w, t)
                        \/ ClaimCandidate(w)
                        \/ SkipCandidate(w)
                        \/ AbortClaim(w)
  \/ \E w \in Workers, t \in Tasks, d \in Delays : OwnerStep(w, t, version[t], d)
  \/ \E d \in Delays : RecoverExpired(d)
  \/ Tick

Spec == Init /\ [][Next]_storeVars

-----------------------------------------------------------------------------
(* Properties.                                                             *)

\* The tasks with a live lease, but for those that a heartbeat with a `now`
\* from before the end of the lease brought back (store.py:301): what happens
\* to them in between is up to whoever claims the resource meanwhile.
Live == {t \in Tasks : Active(t, 0) /\ t \notin revived}

\* At most one task of a resource_key has a live lease (the comment at
\* repositories.py:72), unless one of them was revived: no interleaving of
\* SELECT, UPDATE, heartbeat, expiry and recovery, with clocks read before the
\* wait for the database, lets two workers own, say, two builds of one project.
ExclusiveLease == \A t, u \in Live : Resource[t] = Resource[u] => t = u

\* The queue implements a lock per resource (module ResourceLock): a resource
\* never passes from one task to another without having been free, a lease
\* that ran out counts again only after a claim, and a task that is over is
\* never leased again.
Over == {t \in Tasks : state[t] \in TerminalTask}
Lock == INSTANCE ResourceLock WITH live <- Live, grants <- attempts, over <- Over
LeaseIsLock == Lock!LockSpec

\* No task is claimed more than max_attempts times, although the UPDATE that
\* raises attempts does not look at max_attempts: the SELECT did, and the
\* version it read protects the answer.
AttemptsBounded == \A t \in Tasks : attempts[t] <= MaxAttempts[t]

\* A row that is over stays over: no stale owner, recovery or cancellation
\* changes the state, the owner or the version of a finished task.
TerminalIsFinal ==
  [][\A t \in Tasks :
       state[t] \in TerminalTask =>
         /\ state'[t] = state[t]
         /\ leasedBy'[t] = leasedBy[t]
         /\ version'[t] = version[t]]_storeVars
=============================================================================
