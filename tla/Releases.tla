------------------------------ MODULE Releases ------------------------------
(***************************************************************************)
(* The requests of one environment from their creation to the end of their *)
(* task (api/routes/approvals.py, api/routes/deployments.py), and the      *)
(* deployments they make one after the other (runner/handlers.py): who may *)
(* decide a request and when, which deployment a rollback goes back to,    *)
(* and what the server runs.  Of the queue this module uses what           *)
(* ResourceLock promises: the tasks of a resource run one at a time.       *)
(***************************************************************************)
EXTENDS Integers, SequencesExt

CONSTANTS
  Requests,    \* operation requests; a deployment is named by the request it is from
  Kind,        \* the OperationKind of each request
  MaxAttempts, \* max_attempts of the task of each request
  MayExpire,   \* bound: the requests whose decision may take too long
  MaxCrashes,  \* bound: how often a runner dies
  None

Kinds == {"deploy", "build", "rollback"}

ASSUME ReleasesAssumption ==
  /\ Kind \in [Requests -> Kinds]
  /\ MaxAttempts \in [Requests -> Nat \ {0}]
  /\ MayExpire \in SUBSET Requests
  /\ MaxCrashes \in Nat
  /\ None \notin Requests

VARIABLES
  request,   \* OperationRequest.state
  aim,       \* of a rollback: deployment_id and target_deployment_id
  overdue,   \* the requests whose expires_at has passed
  inTime,    \* overdue requests that an approval under way read in time
  expiring,  \* requests that an approval found overdue and is to mark so
  task,      \* RunnerTask.state, by the request of the task
  attempts,  \* RunnerTask.attempts
  queue,     \* the tasks, by created_at
  status,    \* Deployment.status
  previous,  \* Deployment.previous_deployment_id
  created,   \* the deployments, by created_at
  finished,  \* the deployments that have a finished_at
  earlier,   \* of each of them: those whose finished_at is before its own
  pc,        \* where the handler of the task is
  outcome,   \* how the handler, or its remote step, went
  live,      \* the deployment the server runs
  doubt,     \* an attempt ended without a report of what the server runs
  crashes

requestVars == <<request, aim, overdue, inTime, expiring>>
taskVars == <<task, attempts, queue>>
deploymentVars == <<status, previous, created, finished, earlier>>
handlerVars == <<pc, outcome>>
serverVars == <<live, doubt>>
vars == <<requestVars, taskVars, deploymentVars, handlerVars, serverVars, crashes>>

OpenRequest == {"approved", "executing"}
RequestState == {"absent", "pending", "rejected", "expired", "succeeded", "failed"}
                  \cup OpenRequest
OpenStatus == {"pending", "deploying"}
Status == {"absent", "healthy", "failed", "rolled_back"} \cup OpenStatus
Location == {"idle", "start", "check", "remote", "record", "report", "end"}
Outcome == {"none", "succeeded", "failed", "done", "restored", "broken"}

TypeOK ==
  /\ request \in [Requests -> RequestState]
  /\ aim \in [Requests -> [from : Requests, to : Requests] \cup {None}]
  /\ overdue \in SUBSET Requests
  /\ inTime \in SUBSET overdue
  /\ expiring \in SUBSET overdue
  /\ task \in [Requests -> {"absent", "queued", "running", "over"}]
  /\ attempts \in [Requests -> Nat]
  /\ queue \in Seq(Requests)
  /\ status \in [Requests -> Status]
  /\ previous \in [Requests -> Requests \cup {None}]
  /\ created \in Seq(Requests)
  /\ finished \in SUBSET Requests
  /\ earlier \in [Requests -> SUBSET finished]
  /\ pc \in [Requests -> Location]
  /\ outcome \in [Requests -> Outcome]
  /\ live \in Requests \cup {None}
  /\ doubt \in BOOLEAN
  /\ crashes \in 0..MaxCrashes
  /\ \A r \in Requests : pc[r] # "idle" <=> task[r] = "running"

Init ==
  /\ request = [r \in Requests |-> "absent"]
  /\ aim = [r \in Requests |-> None]
  /\ overdue = {} /\ inTime = {} /\ expiring = {}
  /\ task = [r \in Requests |-> "absent"]
  /\ attempts = [r \in Requests |-> 0]
  /\ queue = <<>>
  /\ status = [r \in Requests |-> "absent"]
  /\ previous = [r \in Requests |-> None]
  /\ created = <<>>
  /\ finished = {} /\ earlier = [r \in Requests |-> {}]
  /\ pc = [r \in Requests |-> "idle"]
  /\ outcome = [r \in Requests |-> "none"]
  /\ live = None /\ doubt = FALSE /\ crashes = 0

-----------------------------------------------------------------------------
(* The deployments of the environment.                                     *)

\* The healthy deployments.
Healthy == {d \in Requests : status[d] = "healthy"}

\* d is ranked before all the other deployments in S.
IsLatest(d, S) == d \in S /\ S \ {d} \subseteq earlier[d]

\* A row of deployments with its status; a row that exists keeps its created_at.
Insert(d, s) ==
  /\ status' = [status EXCEPT ![d] = s]
  /\ created' = IF status[d] = "absent" THEN Append(created, d) ELSE created

\* Mutant of LatestHealthy: the rows are sorted by created_at.
LatestCreated(d) ==
  LET others == SelectSeq(created, LAMBDA e : status[e] = "healthy" /\ e # d)
  IN IF others = <<>> THEN None ELSE Last(others)

\* _latest_healthy_deployment, without d.
LatestHealthy(d) ==
  LET others == Healthy \ {d}
  IN IF others = {} THEN None ELSE CHOOSE e \in others : IsLatest(e, others)

\* Mutant of RollbackFits: that the deployment is still the latest is not
\* looked at.
RollbackFitsAny(d, t) ==
  /\ status[d] = "healthy"
  /\ status[t] = "healthy"
  /\ previous[d] = t

\* What request_rollback, approve and _rollback each check anew: d is the
\* latest healthy deployment and goes back to t, healthy itself.  The fields of
\* t that are compared too are never written after its row is made.
RollbackFits(d, t) ==
  /\ status[d] = "healthy"
  /\ LatestHealthy(None) = d
  /\ status[t] = "healthy"
  /\ previous[d] = t

-----------------------------------------------------------------------------
(* Requests and their decisions.                                           *)

\* create_operation_request.
Submit(r) ==
  /\ request[r] = "absent"
  /\ request' = [request EXCEPT ![r] = "pending"]
  /\ UNCHANGED <<overdue, inTime, expiring, taskVars, deploymentVars, handlerVars,
                 serverVars, crashes>>

\* On the web and by MCP alike.
RequestDeployment(r) ==
  /\ Kind[r] = "deploy"
  /\ Submit(r)
  /\ UNCHANGED aim

\* request_pipeline of MCP.  (A pipeline submitted on the web or by a webhook
\* is queued at once, like an approved one.)
RequestBuild(r) ==
  /\ Kind[r] = "build"
  /\ Submit(r)
  /\ UNCHANGED aim

RequestRollback(r, d) ==
  /\ Kind[r] = "rollback"
  /\ previous[d] # None
  /\ RollbackFits(d, previous[d])
  /\ Submit(r)
  /\ aim' = [aim EXCEPT ![r] = [from |-> d, to |-> previous[d]]]

\* request_rollback of MCP refuses a target whose row is not the older one too.
RequestRollbackByTool(r, d) ==
  /\ \E i, j \in DOMAIN created : i < j /\ created[i] = previous[d] /\ created[j] = d
  /\ RequestRollback(r, d)

\* expires_at passes.  An approval that read its `now` before may still be on
\* its way to the UPDATE.
TimePasses(r) ==
  /\ r \in MayExpire \ overdue
  /\ request[r] = "pending"
  /\ overdue' = overdue \cup {r}
  /\ inTime' \in {inTime, inTime \cup {r}}
  /\ UNCHANGED <<request, aim, expiring, taskVars, deploymentVars, handlerVars,
                 serverVars, crashes>>

\* Mutant of Approvable: the state is not looked at.
ApprovableAnyState(r) ==
  request[r] # "absent" /\ (r \notin overdue \/ r \in inTime)

\* The WHERE clause of approve's UPDATE.
Approvable(r) == request[r] = "pending" /\ (r \notin overdue \/ r \in inTime)

\* approve: the decision, the checks of a rollback, and the rows of the
\* deployment (of a build only its handler makes one) and of the task are one
\* transaction.  When a check fails it is rolled back and the request stays
\* pending.
Approve(r) ==
  /\ Approvable(r)
  /\ Kind[r] = "rollback" => RollbackFits(aim[r].from, aim[r].to)
  /\ request' = [request EXCEPT ![r] = "approved"]
  /\ task' = [task EXCEPT ![r] = "queued"]
  /\ queue' = Append(queue, r)
  /\ IF Kind[r] = "deploy" THEN Insert(r, "pending") ELSE UNCHANGED <<status, created>>
  /\ UNCHANGED <<aim, overdue, inTime, expiring, attempts, previous, finished, earlier,
                 handlerVars, serverVars, crashes>>

\* approve, when its UPDATE found the request overdue: it is rolled back and
\* the request is read again, still pending.
ApproveTooLate(r) ==
  /\ request[r] = "pending"
  /\ r \in overdue
  /\ expiring' = expiring \cup {r}
  /\ UNCHANGED <<request, aim, overdue, inTime, taskVars, deploymentVars,
                 handlerVars, serverVars, crashes>>

\* What follows: a write by id, whatever was decided since the read.
MarkExpired(r) ==
  /\ r \in expiring
  /\ request' = [request EXCEPT ![r] = "expired"]
  /\ expiring' = expiring \ {r}
  /\ UNCHANGED <<aim, overdue, inTime, taskVars, deploymentVars, handlerVars,
                 serverVars, crashes>>

\* A request may be rejected after it expired.
Reject(r) ==
  /\ request[r] = "pending"
  /\ request' = [request EXCEPT ![r] = "rejected"]
  /\ UNCHANGED <<aim, overdue, inTime, expiring, taskVars, deploymentVars,
                 handlerVars, serverVars, crashes>>

-----------------------------------------------------------------------------
(* The task of an approved request.                                        *)

\* The deployment that the task is about.
Subject(r) == IF Kind[r] = "rollback" THEN aim[r].from ELSE r

\* The deployment that the server is to run after it.
Wanted(r) == IF Kind[r] = "rollback" THEN aim[r].to ELSE r

Goto(r, l) == pc' = [pc EXCEPT ![r] = l] /\ UNCHANGED outcome
GotoWith(r, l, o) ==
  /\ pc' = [pc EXCEPT ![r] = l]
  /\ outcome' = [outcome EXCEPT ![r] = o]

\* After its last transaction a pipeline returns; the other handlers report to
\* their request first.
Concludes(r, o) == GotoWith(r, IF Kind[r] = "build" THEN "end" ELSE "report", o)

\* Claim and mark_running.  All the tasks have one priority, so the oldest is
\* first; one that is tried again keeps its place.
Begin(r) ==
  /\ task[r] = "queued"
  /\ \E i \in DOMAIN queue :
       queue[i] = r /\ \A j \in 1..(i - 1) : task[queue[j]] # "queued"
  /\ \A s \in Requests : task[s] # "running"
  /\ task' = [task EXCEPT ![r] = "running"]
  /\ attempts' = [attempts EXCEPT ![r] = @ + 1]
  /\ request' = [request EXCEPT ![r] = IF @ \in OpenRequest THEN "executing" ELSE @]
  /\ Goto(r, IF Kind[r] = "build" THEN "check" ELSE "start")
  /\ UNCHANGED <<aim, overdue, inTime, expiring, queue, deploymentVars,
                 serverVars, crashes>>

\* _set_operation_state(EXECUTING), by id.
ReportExecuting(r) ==
  /\ pc[r] = "start"
  /\ request' = [request EXCEPT ![r] = "executing"]
  /\ Goto(r, "check")
  /\ UNCHANGED <<aim, overdue, inTime, expiring, taskVars, deploymentVars,
                 serverVars, crashes>>

\* _deploy and _create_pipeline_deployment: what a deployment replaces is
\* determined when it starts, not when it is requested.
StartDeployment(r) ==
  /\ pc[r] = "check"
  /\ Kind[r] \in {"deploy", "build"}
  /\ status[r] \in {"absent"} \cup OpenStatus
  /\ Insert(r, "deploying")
  /\ previous' = [previous EXCEPT ![r] = LatestHealthy(r)]
  /\ Goto(r, "remote")
  /\ UNCHANGED <<requestVars, taskVars, finished, earlier, serverVars, crashes>>

\* A deployment that an earlier attempt ended is not started again.
SkipDeployment(r) ==
  /\ pc[r] = "check"
  /\ Kind[r] \in {"deploy", "build"}
  /\ status[r] \notin {"absent"} \cup OpenStatus
  /\ Concludes(r, IF status[r] = "healthy" THEN "succeeded" ELSE "failed")
  /\ UNCHANGED <<requestVars, taskVars, deploymentVars, serverVars, crashes>>

\* Mutant of StartRollback: what was checked at the approval is not checked
\* again.
StartRollbackApproved(r) ==
  /\ pc[r] = "check"
  /\ Kind[r] = "rollback"
  /\ Goto(r, "remote")
  /\ UNCHANGED <<requestVars, taskVars, deploymentVars, serverVars, crashes>>

\* _rollback, when it goes on to the server.
StartRollback(r) ==
  /\ pc[r] = "check"
  /\ Kind[r] = "rollback"
  /\ RollbackFits(aim[r].from, aim[r].to)
  /\ Goto(r, "remote")
  /\ UNCHANGED <<requestVars, taskVars, deploymentVars, serverVars, crashes>>

\* _rollback, when it does not: it is done already, or no longer what was
\* approved.
SkipRollback(r) ==
  LET d == aim[r].from
      t == aim[r].to
      isDone == status[d] = "rolled_back" /\ status[t] = "healthy" /\ previous[d] = t
  IN /\ pc[r] = "check"
     /\ Kind[r] = "rollback"
     /\ ~RollbackFits(d, t)
     /\ Concludes(r, IF isDone THEN "succeeded" ELSE "failed")
     /\ UNCHANGED <<requestVars, taskVars, deploymentVars, serverVars, crashes>>

\* Any other failure before the server is reached: a build that fails, a
\* missing credential.  A deployment that has started stays open until End.
FailEarly(r) ==
  /\ pc[r] \in {"check", "remote"}
  /\ Concludes(r, "failed")
  /\ UNCHANGED <<requestVars, taskVars, deploymentVars, serverVars, crashes>>

\* ComposeDeployer.deploy (module ComposeDeployer): done, failed with the
\* server restored, or failed.  While there is doubt, live is only a guess.
Remote(r) ==
  /\ pc[r] = "remote"
  /\ \/ /\ live' = Wanted(r) /\ doubt' = FALSE
        /\ GotoWith(r, "record", "done")
     \/ /\ UNCHANGED serverVars
        /\ GotoWith(r, "record", "restored")
     \/ /\ live' \in {live, Wanted(r)} /\ doubt' = TRUE
        /\ GotoWith(r, "record", "broken")
  /\ UNCHANGED <<requestVars, taskVars, deploymentVars, crashes>>

\* Mutant of EndStatus: a rollback that failed ends the deployment whether or
\* not the server was restored.
EndStatusAlike(r) ==
  CASE outcome[r] = "done" -> IF Kind[r] = "rollback" THEN "rolled_back" ELSE "healthy"
    [] outcome[r] = "restored" -> "rolled_back"
    [] OTHER -> "failed"

\* The success_status, the restored_status, or FAILED.
EndStatus(r) ==
  CASE outcome[r] = "done" -> IF Kind[r] = "rollback" THEN "rolled_back" ELSE "healthy"
    [] outcome[r] = "restored" -> IF Kind[r] = "rollback" THEN "healthy" ELSE "rolled_back"
    [] OTHER -> "failed"

\* _update_deployment and _finish_deployment: finished_at moves too.
Record(r) ==
  LET d == Subject(r)
  IN /\ pc[r] = "record"
     /\ status' = [status EXCEPT ![d] = EndStatus(r)]
     /\ finished' = finished \cup {d}
     /\ earlier' = [e \in Requests |-> IF e = d THEN finished \ {d} ELSE earlier[e] \ {d}]
     /\ Concludes(r, IF outcome[r] = "done" THEN "succeeded" ELSE "failed")
     /\ UNCHANGED <<requestVars, taskVars, previous, created, serverVars, crashes>>

\* _set_operation_state with the result, by id.
Report(r) ==
  /\ pc[r] = "report"
  /\ request' = [request EXCEPT ![r] = outcome[r]]
  /\ Goto(r, "end")
  /\ UNCHANGED <<aim, overdue, inTime, expiring, taskVars, deploymentVars,
                 serverVars, crashes>>

\* The task is over: finish, or a recovery that finds no attempt left.
Close(r, o) ==
  /\ task' = [task EXCEPT ![r] = "over"]
  /\ request' = [request EXCEPT ![r] = IF @ \in OpenRequest THEN o ELSE @]
  /\ status' = [status EXCEPT ![Subject(r)] =
                  IF o = "failed" /\ @ \in OpenStatus THEN "failed" ELSE @]

End(r) ==
  /\ pc[r] = "end"
  /\ Close(r, outcome[r])
  /\ GotoWith(r, "idle", "none")
  /\ UNCHANGED <<aim, overdue, inTime, expiring, attempts, queue, previous,
                 created, finished, earlier, serverVars, crashes>>

\* Mutant of Rewind: the task is not given back.
RewindForgets(r) ==
  /\ attempts[r] < MaxAttempts[r]
  /\ task' = task
  /\ request' = [request EXCEPT ![r] = IF @ = "executing" THEN "approved" ELSE @]
  /\ status' = [status EXCEPT ![Subject(r)] = IF @ = "deploying" THEN "pending" ELSE @]

\* The recovery of a task that may be tried again.
Rewind(r) ==
  /\ attempts[r] < MaxAttempts[r]
  /\ task' = [task EXCEPT ![r] = "queued"]
  /\ request' = [request EXCEPT ![r] = IF @ = "executing" THEN "approved" ELSE @]
  /\ status' = [status EXCEPT ![Subject(r)] = IF @ = "deploying" THEN "pending" ELSE @]

\* A runner dies, its lease runs out and the task is recovered.  If it died in
\* the middle of the remote transaction, or before the result was recorded,
\* nobody knows what the server runs.
Crash(r) ==
  /\ pc[r] # "idle"
  /\ crashes < MaxCrashes
  /\ crashes' = crashes + 1
  /\ IF pc[r] = "remote"
     THEN live' \in {live, Wanted(r)}
     ELSE UNCHANGED live
  /\ doubt' = (doubt \/ pc[r] \in {"remote", "record"})
  /\ \/ Rewind(r)
     \/ attempts[r] >= MaxAttempts[r] /\ Close(r, "failed")
  /\ GotoWith(r, "idle", "none")
  /\ UNCHANGED <<aim, overdue, inTime, expiring, attempts, queue, previous, created,
                 finished, earlier>>

-----------------------------------------------------------------------------
Decide(r) ==
  \/ TimePasses(r) \/ Approve(r) \/ ApproveTooLate(r) \/ MarkExpired(r) \/ Reject(r)

Execute(r) ==
  \/ Begin(r) \/ ReportExecuting(r)
  \/ StartDeployment(r) \/ SkipDeployment(r)
  \/ StartRollback(r) \/ SkipRollback(r) \/ FailEarly(r)
  \/ Remote(r) \/ Record(r) \/ Report(r) \/ End(r)

Next ==
  \E r \in Requests :
    \/ RequestDeployment(r) \/ RequestBuild(r)
    \/ \E d \in Requests : RequestRollbackByTool(r, d) \/ RequestRollback(r, d)
    \/ Decide(r) \/ Execute(r) \/ Crash(r)

Spec == Init /\ [][Next]_vars

-----------------------------------------------------------------------------
(* Properties.                                                             *)

\* The healthy deployments are a stack (module ReleaseStack): whatever is
\* requested, approved, retried or lost in whichever order, only the newest is
\* ever rolled back and a failed rollback changes nothing.
Below(d) == earlier[d] \cap Healthy
Stack == INSTANCE ReleaseStack
           WITH Releases <- Requests, stack <- [d \in Healthy |-> Below(d)]
HealthyIsStack == Stack!StackSpec

\* previous_deployment_id of a healthy deployment is the healthy deployment
\* just below it, so a chain of rollbacks retraces the chain of deployments
\* (test_approvals.py:226).
PreviousIsBelow ==
  \A d \in Healthy :
    IF Below(d) = {} THEN previous[d] = None ELSE IsLatest(previous[d], Below(d))

\* Between two tasks the server runs the deployment that the database calls
\* the latest healthy one, unless an attempt broke off without restoring it.
LiveIsLatest ==
  (\A r \in Requests : task[r] # "running") /\ ~doubt
    => live = LatestHealthy(None)

\* A rollback that goes to the server finds there the deployment that it was
\* approved to replace, however long ago that was.
ReplacesWhatWasApproved ==
  \A r \in Requests :
    Kind[r] = "rollback" /\ pc[r] = "remote" /\ ~doubt => live = aim[r].from

\* However often a request is approved at once, it makes one task
\* (approvals.py:75), and a rejected request none.
OneTaskEach ==
  /\ IsInjective(queue)
  /\ \A r \in ToSet(queue) : request[r] # "rejected"
=============================================================================
