---------------------------- MODULE TaskHandlers ----------------------------
(***************************************************************************)
(* runner/handlers.py on top of the engine: what the pipeline, deployment  *)
(* and script handlers write to the rows of their task, step by step, so   *)
(* that a crash, a cancellation or a second attempt can come between any   *)
(* two of the transactions.  A pipeline always has an environment here;    *)
(* the remote transaction of ComposeDeployer is one step with three        *)
(* outcomes.                                                               *)
(***************************************************************************)
EXTENDS LeaseRunner

VARIABLES
  hpc,       \* per worker: where the handler is
  outcome,   \* per worker: how the handler, or its remote step, went
  image,     \* per worker: the digest the pipeline handler works with
  artifact,  \* per task: PipelineRun.image_digest, 0 is NULL
  deployed,  \* per task: Deployment.image_digest, 0 when there is no row yet
  pushes,    \* per task: images pushed to its tag; every push has a digest of its own
  ran        \* history, per task: how often its script has been started

localVars == <<hpc, outcome, image>>
imageVars == <<artifact, deployed, pushes, ran>>
handlerVars == <<localVars, imageVars>>
allVars == <<vars, handlerVars>>

HandlerLocation == {"idle", "start", "checkout", "load", "build", "resolve", "save", "bind",
                    "check", "prepare", "remote", "script", "record", "complete", "report",
                    "done"}
RemoteOutcome == {"done", "restored", "broken"}
Outcome == {"none", "succeeded", "failed", "cancelled"} \cup RemoteOutcome

HandlerTypeOK ==
  /\ hpc \in [Workers -> HandlerLocation]
  /\ outcome \in [Workers -> Outcome]
  /\ image \in [Workers -> Nat]
  /\ artifact \in [Tasks -> Nat]
  /\ deployed \in [Tasks -> Nat]
  /\ pushes \in [Tasks -> Nat]
  /\ ran \in [Tasks -> Nat]
  /\ \A t \in Tasks : artifact[t] <= pushes[t]
  /\ \A w \in Workers : hpc[w] # "idle" <=> pc[w] \in {"executing", "stopping"}

HandlersInit ==
  /\ EngineInit
  /\ hpc = [w \in Workers |-> "idle"]
  /\ outcome = [w \in Workers |-> "none"]
  /\ image = [w \in Workers |-> 0]
  /\ artifact = [t \in Tasks |-> 0]
  /\ deployed = [t \in Tasks |-> 0]
  /\ pushes = [t \in Tasks |-> 0]
  /\ ran = [t \in Tasks |-> 0]

Task(w) == box[w].task
IsPipeline(w) == Task(w) \in RunTasks
IsDeployment(w) == Task(w) \in DepTasks
IsRollback(w) == Task(w) \in RollbackTasks

At(w, l) == hpc[w] = l /\ UNCHANGED runnerVars
Goto(w, l) == hpc' = [hpc EXCEPT ![w] = l] /\ UNCHANGED <<outcome, image>>
GotoWith(w, l, o) ==
  /\ hpc' = [hpc EXCEPT ![w] = l]
  /\ outcome' = [outcome EXCEPT ![w] = o]
  /\ UNCHANGED image

\* Where an exception raised by the body of the handler is caught: the
\* deployment and script handlers report it to the operation first.
Fails(w) == GotoWith(w, IF IsPipeline(w) THEN "done" ELSE "report", "failed")

\* _set_operation_state, when the task has an operation.
SetOperation(t, s) ==
  IF t \in OpTasks THEN SetOperationState(t, s) ELSE UNCHANGED storeVars

-----------------------------------------------------------------------------
(* The pipeline handler.                                                   *)

\* Mutant of LoadArtifact: the checkpoint is not looked at.
LoadNothing(w) ==
  /\ At(w, "load")
  /\ UNCHANGED <<storeVars, imageVars>>
  /\ Goto(w, "build")

\* checkout of the pinned commit, which is verified.
Checkout(w) ==
  /\ At(w, "checkout")
  /\ UNCHANGED <<storeVars, imageVars>>
  /\ Fails(w) \/ Goto(w, "load")

\* Credentials, then _load_artifact.
LoadArtifact(w) ==
  /\ At(w, "load")
  /\ UNCHANGED <<storeVars, imageVars>>
  /\ \/ Fails(w)
     \/ /\ image' = [image EXCEPT ![w] = artifact[Task(w)]]
        /\ hpc' = [hpc EXCEPT ![w] = IF artifact[Task(w)] = 0 THEN "build" ELSE "bind"]
        /\ UNCHANGED outcome

\* Mutant of BuildAndPush: the digest is not saved before the deployment.
BuildUnsaved(w) ==
  /\ At(w, "build")
  /\ UNCHANGED <<storeVars, artifact, deployed, ran, outcome>>
  /\ pushes' = [pushes EXCEPT ![Task(w)] = @ + 1]
  /\ image' = [image EXCEPT ![w] = pushes[Task(w)] + 1]
  /\ hpc' = [hpc EXCEPT ![w] = "bind"]

\* build_and_push: the same commit does not give the same digest twice.  It can
\* fail after the push; the metadata file names the digest, or does not.
BuildAndPush(w) ==
  /\ At(w, "build")
  /\ UNCHANGED <<storeVars, artifact, deployed, ran>>
  /\ \/ Fails(w) /\ UNCHANGED pushes
     \/ /\ pushes' = [pushes EXCEPT ![Task(w)] = @ + 1]
        /\ \/ Fails(w)
           \/ Goto(w, "resolve")
           \/ /\ image' = [image EXCEPT ![w] = pushes[Task(w)] + 1]
              /\ hpc' = [hpc EXCEPT ![w] = "save"]
              /\ UNCHANGED outcome

\* resolve_registry_digest: by the tag, which is that of the last push.
ResolveDigest(w) ==
  /\ At(w, "resolve")
  /\ UNCHANGED <<storeVars, imageVars>>
  /\ \/ Fails(w)
     \/ /\ image' = [image EXCEPT ![w] = pushes[Task(w)]]
        /\ hpc' = [hpc EXCEPT ![w] = "save"]
        /\ UNCHANGED outcome

\* _save_artifact: by run id alone, whoever owns the task by now.
SaveArtifact(w) ==
  /\ At(w, "save")
  /\ artifact' = [artifact EXCEPT ![Task(w)] = image[w]]
  /\ Goto(w, "bind")
  /\ UNCHANGED <<storeVars, deployed, pushes, ran>>

\* The target server is loaded, or not, then _create_pipeline_deployment: an
\* existing row must have the same image; the task must still be leased to this
\* attempt; a row that is over decides the handler without touching the server.
Bind(w) ==
  LET t == Task(w)
  IN /\ At(w, "bind")
     /\ UNCHANGED <<artifact, pushes, ran>>
     /\ \/ Fails(w) /\ UNCHANGED <<storeVars, deployed>>
        \/ /\ deployed[t] \in {0, image[w]}
           /\ BindingLost(w)
           /\ GotoWith(w, "done", "cancelled")
           /\ UNCHANGED <<storeVars, deployed>>
        \/ /\ deployed[t] \in {0, image[w]}
           /\ BindDeployment(w, t, box[w].attempts, 0)
           /\ deployed' = [deployed EXCEPT ![t] = image[w]]
           /\ Goto(w, "prepare")
        \/ /\ deployed[t] = image[w]
           /\ ~BindingLost(w)
           /\ depStatus[t] = "healthy"
           /\ Goto(w, "complete")
           /\ UNCHANGED <<storeVars, deployed>>
        \/ /\ deployed[t] = image[w]
           /\ ~BindingLost(w)
           /\ depStatus[t] \in {"failed", "rolled_back"}
           /\ Fails(w)
           /\ UNCHANGED <<storeVars, deployed>>

-----------------------------------------------------------------------------
(* The deployment and script handlers.                                     *)

ReportExecuting(w) ==
  /\ At(w, "start")
  /\ SetOperation(Task(w), "executing")
  /\ Goto(w, IF IsDeployment(w) THEN "check" ELSE "script")
  /\ UNCHANGED imageVars

\* The status a task is to bring its deployment to, and those it starts from.
Goal(t) == IF t \in RollbackTasks THEN "rolled_back" ELSE "healthy"
From(t) == IF t \in RollbackTasks THEN {"healthy"} ELSE OpenDep

\* _deploy and _rollback up to the remote transaction.  A deployment that is
\* already where the task wants it is a success without remote effects.
CheckDeployment(w) ==
  LET t == Task(w)
  IN /\ At(w, "check")
     /\ UNCHANGED imageVars
     /\ \/ Fails(w) /\ UNCHANGED storeVars
        \/ /\ depStatus[t] = Goal(t)
           /\ GotoWith(w, "report", "succeeded")
           /\ UNCHANGED storeVars
        \/ /\ depStatus[t] \in From(t)
           /\ Goto(w, "prepare")
           /\ IF IsRollback(w) THEN UNCHANGED storeVars
              ELSE SetDeploymentStatus(t, "deploying")

-----------------------------------------------------------------------------
(* The remote step and what is written after it.                           *)

\* The registry context of the previous deployment and, for an approved task,
\* the server are loaded.  A failure here is the task's, and it leaves the
\* deployment as the check, or the binding, has written it.
Prepare(w) ==
  /\ At(w, "prepare")
  /\ UNCHANGED <<storeVars, imageVars>>
  /\ Fails(w) \/ Goto(w, "remote")

\* ComposeDeployer.deploy: done, or failed with the previous revision restored,
\* or failed without.  Its cancellation is one of the failures, not the end of
\* the handler.
Remote(w) ==
  /\ At(w, "remote")
  /\ UNCHANGED <<storeVars, imageVars>>
  /\ \E o \in RemoteOutcome : GotoWith(w, "record", o)

\* The approved script is loaded, written to the server, run and removed; the
\* failure of any of it is one of the script, also after it has run.
RunScript(w) ==
  /\ At(w, "script")
  /\ UNCHANGED <<storeVars, artifact, deployed, pushes>>
  /\ \/ GotoWith(w, "report", "failed") /\ UNCHANGED ran
     \/ /\ ran' = [ran EXCEPT ![Task(w)] = @ + 1]
        /\ \E o \in {"succeeded", "failed"} : GotoWith(w, "report", o)

\* What a failed deployment is when the server runs the previous one again.
Restored(t) == IF t \in RollbackTasks THEN "healthy" ELSE "rolled_back"

\* Mutant of Record: a restored server is taken for a success.
RecordRestored(w) ==
  /\ At(w, "record")
  /\ SetDeploymentStatus(Task(w), IF outcome[w] = "done" THEN Goal(Task(w))
                                  ELSE Restored(Task(w)))
  /\ GotoWith(w, IF IsPipeline(w) THEN "done" ELSE "report", "succeeded")
  /\ UNCHANGED imageVars

\* _finish_deployment and _update_deployment: by id alone.  A rollback that
\* failed but restored the server leaves the deployment healthy.
Record(w) ==
  LET status == CASE outcome[w] = "done" -> Goal(Task(w))
                  [] outcome[w] = "restored" -> Restored(Task(w))
                  [] OTHER -> "failed"
  IN /\ At(w, "record")
     /\ SetDeploymentStatus(Task(w), status)
     /\ IF outcome[w] = "done"
        THEN GotoWith(w, IF IsPipeline(w) THEN "complete" ELSE "report", "succeeded")
        ELSE Fails(w)
     /\ UNCHANGED imageVars

\* The last stage of a pipeline is written: its failure is one of the run, whose
\* deployment is healthy already.
Complete(w) ==
  /\ At(w, "complete")
  /\ UNCHANGED <<storeVars, imageVars>>
  /\ GotoWith(w, "done", "succeeded") \/ Fails(w)

Report(w) ==
  /\ At(w, "report")
  /\ SetOperation(Task(w), outcome[w])
  /\ Goto(w, "done")
  /\ UNCHANGED imageVars

HandlerStep(w) ==
  \/ Checkout(w) \/ LoadArtifact(w) \/ BuildAndPush(w) \/ ResolveDigest(w)
  \/ SaveArtifact(w) \/ Bind(w)
  \/ ReportExecuting(w) \/ CheckDeployment(w)
  \/ Prepare(w) \/ Remote(w) \/ RunScript(w) \/ Record(w) \/ Complete(w) \/ Report(w)

\* Mutant of Reset: a dead handler is not forgotten.
ResetNothing(w) == UNCHANGED handlerVars

-----------------------------------------------------------------------------
(* The engine's steps around the handler.                                  *)

Reset(w) ==
  /\ hpc' = [hpc EXCEPT ![w] = "idle"]
  /\ outcome' = [outcome EXCEPT ![w] = "none"]
  /\ image' = [image EXCEPT ![w] = 0]
  /\ UNCHANGED imageVars

Start(w) ==
  /\ StartHandler(w)
  /\ Goto(w, IF IsPipeline(w) THEN "checkout" ELSE "start")
  /\ UNCHANGED imageVars

Return(w) ==
  /\ hpc[w] = "done"
  /\ HandlerReturns(w, outcome[w])
  /\ Reset(w)

\* A handler that is asked to stop may go on to its end, or is interrupted at
\* an await.  A pipeline turns the interruption of the remote transaction into a
\* failed deployment (so may ComposeDeployer, once it is connected); anywhere
\* else the deployment stays as it is.
Stop(w) ==
  /\ HandlerStopped(w)
  /\ ~(hpc[w] = "remote" /\ IsPipeline(w))
  /\ Reset(w)

Around(w) ==
  \/ Claim(w) \/ StartLost(w) \/ Watch(w) \/ Settle(w) \/ Recover(w) \/ Restart(w)

HandlersNext ==
  \/ \E w \in Workers : HandlerStep(w) \/ Start(w) \/ Return(w) \/ Stop(w)
  \/ \E w \in Workers : Crash(w) /\ Reset(w)
  \/ \E w \in Workers : Around(w) /\ UNCHANGED handlerVars
  \/ (EngineTick \/ \E t \in Tasks : Api(t)) /\ UNCHANGED handlerVars

HandlersSpec == HandlersInit /\ [][HandlersNext]_allVars

-----------------------------------------------------------------------------
(* Properties.                                                             *)

\* The handlers write most rows by id alone.  A handler that goes on after the
\* lease of its task was passed on can spoil what the next attempt does, so the
\* properties below are about tasks of which no handler has: the task is not in
\* `outlived`.  Clocks, stalls, crashes and recoveries are free.

\* The digest of a run, once recorded, is never replaced (handlers.py:160): a
\* recovered attempt reuses it instead of building another image.
ArtifactKept ==
  [][\A t \in Tasks \ outlived : artifact[t] # 0 => artifact'[t] = artifact[t]]_allVars

\* What a pipeline has deployed, or is deploying, is the image its run
\* records, across crashes and attempts.
DeployedIsRecorded ==
  \A t \in RunTasks \ outlived : deployed[t] # 0 => deployed[t] = artifact[t]

\* A task that ran to its end leaves no operation and no deployment open,
\* whichever of the handler, the engine and the recovery closed them.
LinksClosed(t) ==
  state[t] \in {"succeeded", "failed"} =>
    opState[t] \notin OpenOp /\ depStatus[t] \notin OpenDep

\* A success is a success everywhere: the operation says so, and the
\* deployment is where the task was to bring it, or the script has run.
SuccessIsComplete(t) ==
  state[t] = "succeeded" =>
    /\ t \in OpTasks => opState[t] = "succeeded"
    /\ t \in RunTasks \cup DepTasks =>
         depStatus[t] = IF t \in RollbackTasks THEN "rolled_back" ELSE "healthy"
    /\ t \notin RunTasks \cup DepTasks => ran[t] # 0

\* The rows of a task agree at its end, as the two parts say, and a script
\* does not run more often than its task has attempts, that is once, whoever
\* outlives what (handlers.py, store.py finish and recover_expired).
LinksAgree ==
  /\ \A t \in Tasks \ outlived : LinksClosed(t) /\ SuccessIsComplete(t)
  /\ \A t \in Tasks : ran[t] <= MaxAttempts[t]

\* Once the database says how a deployment ended, no later attempt reopens
\* it, replays it on the server (handlers.py:248) or changes the answer; a
\* rollback may only change the healthy deployment it rolls back.
DecidedOnce ==
  [][\A t \in Tasks \ outlived :
       depStatus[t] \notin {"absent"} \cup OpenDep
         => \/ depStatus'[t] = depStatus[t]
            \/ t \in RollbackTasks /\ depStatus[t] = "healthy"]_allVars
=============================================================================
