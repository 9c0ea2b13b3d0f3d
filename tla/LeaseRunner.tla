---------------------------- MODULE LeaseRunner ----------------------------
(***************************************************************************)
(* runner/engine.py: the LeaseRunners, each of which claims a task, runs   *)
(* its handler next to a lease monitor, and commits the result.  They meet *)
(* the API and each other only in the rows of TaskStore.                   *)
(*                                                                         *)
(* The handler and the monitor are two asyncio tasks: an await of one lets *)
(* the other go on.  What lies between two awaits is one step here, and a  *)
(* transaction of the store takes effect in the step that awaits it.       *)
(*                                                                         *)
(* The handler is a black box that returns, raises or is stopped; what it  *)
(* writes to the linked rows is left to TaskHandlers.                      *)
(***************************************************************************)
EXTENDS TaskStore

CONSTANTS
  HandlerResults,  \* what a handler may end with by itself
  MaxCrashes       \* bound: process crashes in a behaviour

\* runner/contracts.py TaskLease, and what a worker may have to commit.
LeaseToken == [task : Tasks, version : Nat, attempts : Nat]
Reason == TerminalTask \cup {"retry", "lost"}

ASSUME RunnerAssumption ==
  /\ None \notin LeaseToken \cup Reason
  /\ HandlerResults \subseteq {"succeeded", "failed", "retry"}
  /\ MaxCrashes \in Nat

VARIABLES
  pc,          \* per worker: where _execute, or the loop around it, is
  box,         \* per worker: lease_box, the lease it believes it holds
  monitor,     \* per worker: where _monitor_lease is
  verdict,     \* per worker: what is to be done when the handler has ended
  crashes,     \* crashes so far
  starts,      \* history: how often the handler of each task was started
  returned,    \* history: the attempts whose handler returned normally
  outlived     \* history: tasks whose lease was passed on under a running handler

runnerVars == <<pc, box, monitor, verdict, crashes, starts, returned, outlived>>
vars == <<storeVars, runnerVars>>

Location == {"loop", "claimed", "executing", "stopping", "finishing", "down"}
MonitorState == {"off", "sleeping", "checked", "renewed"}

RunnerTypeOK ==
  /\ pc \in [Workers -> Location]
  /\ box \in [Workers -> LeaseToken \cup {None}]
  /\ monitor \in [Workers -> MonitorState]
  /\ verdict \in [Workers -> Reason \cup {None}]
  /\ crashes \in 0..MaxCrashes
  /\ starts \in [Tasks -> Nat]
  /\ returned \in [Tasks -> SUBSET Nat]
  /\ outlived \subseteq Tasks
  /\ \A w \in Workers :
       /\ box[w] = None <=> pc[w] \in {"loop", "down"}
       /\ monitor[w] = "off" <=> pc[w] # "executing"
       /\ verdict[w] = None <=> pc[w] \notin {"stopping", "finishing"}
       /\ candidate[w] # None => pc[w] = "loop"

\* The handler of a task is running in w: it is stopped, or has ended, before
\* the engine goes on.
Handling(w, t) == pc[w] \in {"executing", "stopping"} /\ box[w].task = t

\* The leases of the tasks T are taken back or passed on, and nobody asks a
\* handler that still runs: it goes on until its monitor finds out and its
\* grace period is over.
PassOn(T) ==
  outlived' = outlived \cup {t \in T : \E w \in Workers : Handling(w, t)}

\* The transaction the worker's token would be used in affects a row.
BoxOwns(w, d) == Owns(w, box[w].task, box[w].version, d)

\* Back to run_forever's loop, empty-handed.
Leave(w) ==
  /\ pc' = [pc EXCEPT ![w] = "loop"]
  /\ box' = [box EXCEPT ![w] = None]
  /\ monitor' = [monitor EXCEPT ![w] = "off"]
  /\ verdict' = [verdict EXCEPT ![w] = None]
  /\ UNCHANGED <<crashes, starts, returned, outlived>>

RunnerInit ==
  /\ pc = [w \in Workers |-> "loop"]
  /\ box = [w \in Workers |-> None]
  /\ monitor = [w \in Workers |-> "off"]
  /\ verdict = [w \in Workers |-> None]
  /\ crashes = 0
  /\ starts = [t \in Tasks |-> 0]
  /\ returned = [t \in Tasks |-> {}]
  /\ outlived = {}

-----------------------------------------------------------------------------
(* run_forever and run_once.                                               *)

\* _recover_if_due.  When it is due is left open.
Recover(w) ==
  /\ pc[w] = "loop"
  /\ candidate[w] = None
  /\ \E d \in Delays : RecoverExpired(d) /\ PassOn(Expired(d))
  /\ UNCHANGED <<pc, box, monitor, verdict, crashes, starts, returned>>

StartClaim(w, t) ==
  /\ pc[w] = "loop"
  /\ SelectCandidate(w, t)
  /\ UNCHANGED runnerVars

Claimed(w) ==
  /\ pc[w] = "loop"
  /\ ClaimCandidate(w)
  /\ pc' = [pc EXCEPT ![w] = "claimed"]
  /\ box' = [box EXCEPT ![w] =
               [task |-> candidate[w].task,
                version |-> version[candidate[w].task] + 1,
                attempts |-> attempts[candidate[w].task] + 1]]
  /\ PassOn({candidate[w].task})
  /\ UNCHANGED <<monitor, verdict, crashes, starts, returned>>

ClaimMissed(w) ==
  /\ pc[w] = "loop"
  /\ SkipCandidate(w)
  /\ UNCHANGED runnerVars

\* mark_running succeeded: the handler and its monitor are created.
StartHandler(w) ==
  LET t == box[w].task
  IN /\ pc[w] = "claimed"
     /\ \E d \in Delays : MarkRunning(w, t, box[w].version, d)
     /\ pc' = [pc EXCEPT ![w] = "executing"]
     /\ box' = [box EXCEPT ![w].version = @ + 1]
     /\ monitor' = [monitor EXCEPT ![w] = "sleeping"]
     /\ starts' = [starts EXCEPT ![t] = @ + 1]
     /\ UNCHANGED <<verdict, crashes, returned, outlived>>

\* mark_running returned None: run_once gives up the task without a word.
StartLost(w) ==
  /\ pc[w] = "claimed"
  /\ \E d \in Delays : ~(BoxOwns(w, d) /\ state[box[w].task] = "leased")
  /\ Leave(w)
  /\ UNCHANGED storeVars

-----------------------------------------------------------------------------
(* _monitor_lease: sleep, ask for cancellation, renew, remember.           *)

MonitorGoes(w, m) ==
  /\ monitor' = [monitor EXCEPT ![w] = m]
  /\ UNCHANGED <<pc, verdict, crashes, starts, returned, outlived>>

\* Mutant of MonitorEnds: the monitor's reason is not kept.
MonitorEndsSilently(w, why) ==
  /\ monitor' = [monitor EXCEPT ![w] = "off"]
  /\ pc' = [pc EXCEPT ![w] = "stopping"]
  /\ UNCHANGED <<verdict, box, crashes, starts, returned, outlived>>

\* The monitor ends first: cancel_event is set and the handler is asked to
\* stop, for up to cancel_grace_seconds, and no heartbeat is sent meanwhile.
MonitorEnds(w, why) ==
  /\ monitor' = [monitor EXCEPT ![w] = "off"]
  /\ pc' = [pc EXCEPT ![w] = "stopping"]
  /\ verdict' = [verdict EXCEPT ![w] = why]
  /\ UNCHANGED <<box, crashes, starts, returned, outlived>>

Asked(w) ==
  /\ pc[w] = "executing"
  /\ monitor[w] = "sleeping"

MonitorCheck(w) ==
  /\ Asked(w)
  /\ ~cancelRequested[box[w].task]
  /\ MonitorGoes(w, "checked")
  /\ UNCHANGED <<box, storeVars>>

MonitorSeesCancel(w) ==
  /\ Asked(w)
  /\ cancelRequested[box[w].task]
  /\ MonitorEnds(w, "cancelled")
  /\ UNCHANGED storeVars

MonitorHeartbeat(w) ==
  /\ pc[w] = "executing"
  /\ monitor[w] = "checked"
  /\ \E d \in Delays : Heartbeat(w, box[w].task, box[w].version, d)
  /\ MonitorGoes(w, "renewed")
  /\ UNCHANGED box

MonitorLost(w) ==
  /\ pc[w] = "executing"
  /\ monitor[w] = "checked"
  /\ \E d \in Delays : ~(BoxOwns(w, d) /\ Held(box[w].task))
  /\ MonitorEnds(w, "lost")
  /\ UNCHANGED storeVars

\* The awaited heartbeat resumes the monitor: lease_box[0] = renewed.
MonitorStore(w) ==
  /\ pc[w] = "executing"
  /\ monitor[w] = "renewed"
  /\ box' = [box EXCEPT ![w].version = @ + 1]
  /\ MonitorGoes(w, "sleeping")
  /\ UNCHANGED storeVars

-----------------------------------------------------------------------------
(* The end of the handler, and of the task.                                *)

\* _create_pipeline_deployment found that another attempt owns the task.
BindingLost(w) ==
  LET t == box[w].task
  IN /\ t \in RunTasks
     /\ ~(leasedBy[t] = w /\ attempts[t] = box[w].attempts /\ Active(t, 0))

\* The handler ends before the monitor, which is cancelled wherever it is: a
\* heartbeat it has committed but not stored leaves lease_box behind the row.
HandlerReturns(w, r) ==
  LET t == box[w].task
  IN /\ pc[w] = "executing"
     /\ r \in HandlerResults \/ (r = "cancelled" /\ BindingLost(w))
     /\ pc' = [pc EXCEPT ![w] = "finishing"]
     /\ monitor' = [monitor EXCEPT ![w] = "off"]
     /\ verdict' = [verdict EXCEPT ![w] =
                      IF r = "retry" /\ box[w].attempts >= MaxAttempts[t]
                      THEN "failed" ELSE r]
     /\ returned' = [returned EXCEPT ![t] =
                       IF r = "succeeded" THEN @ \cup {box[w].attempts} ELSE @]
     /\ UNCHANGED <<box, crashes, starts, outlived, storeVars>>

\* _stop_handler: however the handler ended, the monitor's reason decides.
HandlerStopped(w) ==
  /\ pc[w] = "stopping"
  /\ IF verdict[w] = "lost"
     THEN Leave(w)
     ELSE /\ pc' = [pc EXCEPT ![w] = "finishing"]
          /\ UNCHANGED <<box, monitor, verdict, crashes, starts, returned, outlived>>
  /\ UNCHANGED storeVars

Commit(w) ==
  /\ pc[w] = "finishing"
  /\ \E d \in Delays :
       IF verdict[w] = "retry"
       THEN Retry(w, box[w].task, box[w].version, d)
       ELSE Finish(w, box[w].task, box[w].version, d, verdict[w])
  /\ Leave(w)

\* finish or retry affected no row; its result is not looked at.
CommitLost(w) ==
  /\ pc[w] = "finishing"
  /\ \E d \in Delays : ~(BoxOwns(w, d) /\ Held(box[w].task))
  /\ Leave(w)
  /\ UNCHANGED storeVars

-----------------------------------------------------------------------------
(* Crashes.                                                                *)

\* The process dies, at any point: SIGKILL, or a database error that the
\* engine does not catch.  A transaction in progress is rolled back.
Crash(w) ==
  /\ pc[w] # "down"
  /\ crashes < MaxCrashes
  /\ crashes' = crashes + 1
  /\ pc' = [pc EXCEPT ![w] = "down"]
  /\ box' = [box EXCEPT ![w] = None]
  /\ monitor' = [monitor EXCEPT ![w] = "off"]
  /\ verdict' = [verdict EXCEPT ![w] = None]
  /\ UNCHANGED <<starts, returned, outlived>>
  /\ IF candidate[w] = None THEN UNCHANGED storeVars ELSE AbortClaim(w)

\* The container is restarted and startup() recovers the expired leases.
Restart(w) ==
  /\ pc[w] = "down"
  /\ pc' = [pc EXCEPT ![w] = "loop"]
  /\ IF Expired(0) = {} THEN UNCHANGED storeVars ELSE RecoverExpired(0)
  /\ PassOn(Expired(0))
  /\ UNCHANGED <<box, monitor, verdict, crashes, starts, returned>>

-----------------------------------------------------------------------------
EngineInit == Init /\ RunnerInit

Api(t) ==
  /\ Enqueue(t) \/ CancelRead(t) \/ CancelWrite(t)
  /\ UNCHANGED runnerVars

Claim(w) == (\E t \in Tasks : StartClaim(w, t)) \/ Claimed(w) \/ ClaimMissed(w)
Begin(w) == StartHandler(w) \/ StartLost(w)
Watch(w) == \/ MonitorCheck(w) \/ MonitorSeesCancel(w) \/ MonitorHeartbeat(w)
            \/ MonitorLost(w) \/ MonitorStore(w)
End(w) == (\E r \in HandlerResults \cup {"cancelled"} : HandlerReturns(w, r))
          \/ HandlerStopped(w)
Settle(w) == Commit(w) \/ CommitLost(w)

Work(w) == Claim(w) \/ Begin(w) \/ Watch(w) \/ End(w) \/ Settle(w)

\* Time passes for all, whoever is stalled meanwhile: the event loop may be
\* blocked, the database busy, a handler slow to stop.
EngineTick == Tick /\ UNCHANGED runnerVars

EngineNext ==
  \/ \E t \in Tasks : Api(t)
  \/ \E w \in Workers : Work(w) \/ Recover(w) \/ Crash(w) \/ Restart(w)
  \/ EngineTick

EngineSpec == EngineInit /\ [][EngineNext]_vars

\* Every awaited step is resumed by the event loop, a handler ends by itself or
\* when it is stopped (its commands have timeouts), time passes, and a crashed
\* container is restarted.  Recovery needs strong fairness: it is due every
\* recovery_seconds, but only between two tasks of a worker.
Fairness ==
  /\ WF_vars(EngineTick)
  /\ \A w \in Workers :
       /\ WF_vars(Claim(w))
       /\ WF_vars(Begin(w))
       /\ WF_vars(Watch(w))
       /\ WF_vars(End(w))
       /\ WF_vars(Settle(w))
       /\ WF_vars(Restart(w))
       /\ SF_vars(Recover(w))

FairEngineSpec == EngineSpec /\ Fairness

-----------------------------------------------------------------------------
(* Properties.                                                             *)

\* A handler is started at most once per attempt, so a script, which has one
\* attempt, runs at most once whatever crashes (approvals.py:217).
StartsBounded ==
  \A t \in Tasks : starts[t] <= attempts[t] /\ attempts[t] <= MaxAttempts[t]

\* A task is reported as succeeded only if the handler of its last attempt,
\* not one of an earlier owner, returned normally.
SuccessFromCurrentAttempt ==
  \A t \in Tasks : state[t] = "succeeded" => attempts[t] \in returned[t]

\* A finished task leaves no run open, and a run never says that it succeeded
\* or failed unless its task did: the recovery, a direct reclaim and the
\* compare-and-swap of finish keep the two rows together, whoever dies when.
RunFollowsTask ==
  \A t \in RunTasks :
    /\ state[t] \in TerminalTask => runStatus[t] \in {state[t], "cancelled"}
    /\ runStatus[t] \in {"succeeded", "failed"} => state[t] = runStatus[t]

\* Whatever crashes, stalls or is cancelled, a submitted task ends, and so
\* does its run.
EventuallySettled ==
  \A t \in Tasks :
    state[t] \notin TerminalTask \cup {"absent"}
      ~> state[t] \in TerminalTask /\ runStatus[t] \notin OpenRun

\* engine.py:3: a handler has effects only while it holds the lease, and stops
\* at once when the lease is lost.  The code stops it when its monitor next
\* asks, and then waits up to cancel_grace_seconds for it: by then the row may
\* be somebody else's.
HandlersHoldLease ==
  \A w \in Workers, t \in Tasks :
    Handling(w, t) => leasedBy[t] = w /\ Held(t)
=============================================================================
