# Formal verification of ForgeDeck

ForgeDeck builds Docker images from Git commits and deploys them to servers over SSH.
Its correctness rests on a task queue in a database: an API process inserts tasks,
Runner processes claim them under leases, run handlers that change remote servers, and
commit the results. This directory holds TLA+ models of that core, their TLC
configurations, and theorems about them checked by TLAPS. Paths below are relative to
`backend/src/devops/` unless they say otherwise.

## 1. Inventory

| Component | State | Operations | Hard part |
|---|---|---|---|
| Task queue: `runner/store.py`, `db/repositories.py` | `runner_tasks` and the linked `pipeline_runs`, `operation_requests`, `deployments` | claim, mark_running, heartbeat, finish, retry, recover_expired | optimistic compare-and-swap between processes, expiry, one recovery over four tables |
| Lease engine: `runner/engine.py`, `runner/main.py` | the loop's position, `lease_box`, handler and monitor tasks | run_once, _execute, _monitor_lease, _stop_handler | two asyncio tasks that share a lease; crash and restart |
| Handlers: `runner/handlers.py` | run artifact, deployment status, operation state | pipeline, deploy, rollback, script, metrics | several transactions per task, writes that are not fenced by the lease |
| Remote deployment: `runner/deploy.py`, `runner/ssh.py`, `runner/docker.py` | four control files, containers and `pending.json` on a server | deploy, reconcile, recover, roll back | an undo log over a connection that may break at every command |
| Pipelines API: `api/routes/pipelines.py`, `services.py` | the same rows | submit, cancel, logs, event stream | read, then write in the same session without a guard |
| Approvals and requests: `api/routes/approvals.py`, `api/routes/deployments.py`, `integrations/mcp.py` | `operation_requests`, new `deployments` and tasks | request, approve, reject, expire | decision races, staleness of what was approved |
| Webhooks: `api/routes/webhooks.py` | `webhook_deliveries`, `pipeline_runs` | post, dedupe, trigger, redeliver | a redelivery while the first is handled, a crash between two commits |
| Run logs: `runner/logs.py`, `runner/store.py:541` | `run_logs`, a JSONL file, what a redactor holds back | append, redact, bound, stream | sequence numbers from several processes, secrets across chunks, resuming a stream |
| Command execution: `runner/process.py` | a process group, two pipes, the captured tail | run with output limit, timeout, cancel | exit, timeout, cancellation and a failing log race |
| Metrics and scheduling: `runner/scheduler.py`, `runner/metrics.py` | metrics tasks | periodic insert, sample | check, then insert; twenty candidates at most |
| Internal API: `runner/internal_api.py`, `api/routes/runner_proxy.py` | tickets, websockets, audit rows; containers of a server | terminals, Docker and Compose actions | two relay tasks per hop, timeouts between processes, use of an object while it is removed |
| Notifications, resources, auth, credentials, configuration, frontend | rows of their own | CRUD and I/O | little that interleaves |

The API and the Runners meet only in database rows. The handlers meet the server only
through `ComposeDeployer` and, for scripts, one SSH command. The engine calls the
store; the handlers write rows on their own, outside of the lease's compare-and-swap.
Commands, logs and their readers meet in `LogWriter` and `run_logs`. Users reach a
server past the queue through the internal API, which takes no lease. `PROJECT.json`
lists every hazard with its line.

What makes the components correct:

* queue: one live lease per resource; a lease that ran out counts again only after a
  claim; no more attempts than allowed; a finished row is final; linked rows agree with
  their task;
* engine: one start per attempt; success only from the attempt that owns the task; every
  task ends;
* handlers: what is deployed is what the run records; a decided deployment stays
  decided; nothing stays open behind a finished task;
* approvals: one task per approved request; the healthy deployments of an environment
  are a stack that rollbacks retrace, and a rollback replaces what it was approved to
  replace;
* remote deployment: without `pending.json` the server is whole, with it the undo leads
  back to something whole, and the answer is true of the server;
* webhooks: one run per delivery, whatever is repeated; a push is built;
* logs: a reader has the log from its start without gap or repetition; no secret is
  stored; the limit is kept, with one notice;
* commands: only an undisturbed exit is a success; the call returns;
* metrics: tasks do not pile up; a reachable server is sampled again and again;
* internal API: one connection per ticket; shells are audited; neither end of a relay
  outlives the other; "ok" is said only of what was done.

## 2. Modules

| Module | Models |
|---|---|
| `ResourceLock` | what the queue promises: a lock per resource with a grant counter |
| `TaskStore` | the rows and every transaction on them; any caller, any time |
| `LeaseRunner` | EXTENDS `TaskStore`: the engine, who may be anywhere when it crashes |
| `TaskHandlers` | EXTENDS `LeaseRunner`: the handlers, one transaction at a time |
| `ComposeDeployer` | the remote transaction of one environment; stands alone |
| `ReleaseStack` | what deployments and rollbacks promise: a stack, as a function from its members to those beneath |
| `Releases` | requests, approvals and the deployments of one environment, one after the other |
| `FollowedLog` | what a run's log promises: append-only, followed in order |
| `RunLogs` | `run_logs` of one run: its writers, cancel requests and event streams |
| `Redaction` | the redactors as functions on sequences of bytes |
| `LogWriter` | EXTENDS `Redaction`: the bounded log of a task and its lock |
| `CommandRunner` | EXTENDS `LogWriter`: a process group, its pipes and the coroutine that waits |
| `WebhookDeliveries` | deliveries, manual runs, and edits of the project |
| `MetricsQueue` | schedulers, the window of candidates, samples |
| `InternalUse` | the API and the Runner as processes that stop, and the bounds of their use |
| `TerminalRelay` | EXTENDS `InternalUse`: tickets and terminals |
| `DockerRelay` | EXTENDS `InternalUse`: Docker and Compose actions |
| `InternalApi` | composes the two: a stop of a process hits both |
| `MC...` | small instances for TLC |
| `QueueProofs` | theorems about `TaskStore`, `LeaseRunner` and `TaskHandlers` |
| `ComposeDeployerProofs`, `ReleasesProofs`, `RunLogsProofs`, `CommandRunnerProofs`, `WebhookProofs`, `MetricsProofs`, `InternalApiProofs` | theorems about the module of that name, `CommandRunnerProofs` also about `LogWriter` and `Redaction` |

**TaskStore.** A variable per column that the code's guards read. One action is one
committed transaction, with two exceptions that the code makes observable:
`lease_next` is a SELECT (`SelectCandidate`) and a later UPDATE (`ClaimCandidate`, or
`SkipCandidate` when its WHERE matches nothing), because the candidate's version is
from the first and the WHERE clause is evaluated in the second; `cancel_run` is a read
(`CancelRead`) and a blind write (`CancelWrite`). Owner operations take the caller's
worker and version as arguments, and `Next` lets any worker present any version that
is current, so what is shown of `TaskStore` needs no good behaviour of callers. Time
is relative: `ttl[t]` is what is left of a lease, `Tick` lowers it, and a transaction
uses a `now` that is up to `MaxDelay` ticks old, because `utcnow()` is read before the
session waits for the database. A heartbeat with such a `now` may bring back a lease
that is over; the history variable `revived` remembers the task until its next claim.
`Batches` bounds which tasks a behaviour may submit.

**LeaseRunner.** `pc` is where `run_forever`, `run_once` or `_execute` stands, `box`
is `lease_box`, `monitor` where `_monitor_lease` stands, `verdict` what is to be
committed. A step is what runs between two awaits. A committed heartbeat
(`MonitorHeartbeat`) and its assignment to `lease_box` (`MonitorStore`) are two steps,
since the handler may end in between and cancel the monitor. Nothing makes a worker
punctual: time passes for all (`EngineTick`), so a lease may run out under a running
handler. When the recovery or a claim then takes the task, the history variable
`outlived` remembers it (`PassOn`).

**TaskHandlers.** `hpc` walks through the transactions of the pipeline, deployment and
script handlers; the store's unfenced writes (`SetOperationState`,
`SetDeploymentStatus`) are used as they are, by id alone. The remote transaction is
one step with three outcomes; what may fail between the DEPLOYING commit and the `try`
around it is `Prepare`, and the last stage of a pipeline, which may fail after its
deployment is healthy, is `Complete`. Checkout, build, push and the digest, read from the
metadata file or else from the registry by tag, fail one by one. Every push has a
digest of its own: rebuilding a commit does not reproduce an image.

**ComposeDeployer.** A file's content is named by the deployment it was written for.
Each command may fail before or after its effect; cancellation is a failure
(deploy.py:308); a crash leaves the server as it is. Any revision may be deployed next,
the interrupted one too, as the queue's retries do. Three history variables serve the
properties: `prior` is the files when the deployment began to change them, `torn` says
that an undo of the current `pending.json` broke off, `mixed` that such a transaction
was then taken for complete.

**Releases.** The life of several requests of one environment, which the other modules
do not see because they fix what is deployed. It stands on two promises shown elsewhere:
tasks of a resource run one at a time (`ResourceLock`; every task of a project has the
resource `project:<id>`), so a queue by `created_at` replaces leases, and the remote
transaction is done, restored or broken (`ComposeDeployer`). A crash and the recovery
that follows are one step. `created` is the rows by `created_at`, `finished` those with
a `finished_at`, and `earlier` says of each of these which have an earlier one;
`_latest_healthy_deployment` is `LatestHealthy`. `live` is what the server runs and
`doubt` says that an attempt broke off and `live` is a guess. An approval that read its
`now` before the request expired may still succeed (`inTime`), and one that read the
request as pending writes EXPIRED by id after others have decided (`expiring`,
`MarkExpired`). A rollback may be requested through the web or through MCP, which
refuses more (`RequestRollbackByTool`). A deployment is named by its request.
`MayExpire` bounds which requests may become overdue.

**RunLogs.** `append` is three steps, the SELECT of the number, the INSERT and the
file, and tries at most three numbers (`tries`, `foreign` counts what others have
stored meanwhile). A handler whose lease is lost may go on logging; `Finish` ends the
run only between two lines of its owner. A cancel request remembers whether it found
the run queued or running (`CancelBegin`); a queued run becomes terminal in the commit
that adds the line (`CancelWrite`), while its handler, if the task was leased already,
starts and logs nevertheless. A stream polls rows and then the status
(`PollRows`, `PollStatus`); a connection may break after any part of a batch, and the
client resumes from the last id it has.

**Redaction, LogWriter, CommandRunner.** Bytes are model values, and a text is a
sequence of them. `Redact` is the replacement of all secrets, `Feed` what the
streaming redactor emits and keeps, so that `LogIsSound` compares the stored log with
the redaction of the whole output. A client of the writer holds its lock from the
redaction of a chunk to the last append. `CommandRunner` adds the two processes of a
group, the pipes with their capacity, one reader each, and the coroutine that waits
for exit, timeout or cancellation, sends SIGTERM, then SIGKILL, and waits for the
readers. What a process does with SIGTERM, whether and when it exits, and whether it
closes or redirects its outputs before (`holding`, `Redirect`) is chosen; the end of a
pipe is read when nobody holds it.

**WebhookDeliveries.** A post reads the project, inserts the delivery (and waits on
the unique constraint while another transaction holds its key), commits, starts a run
in the transactions of `trigger_run`, and records it. The API may crash between any
two of them, the answer may be lost, the provider posts again until it has a final
answer. Six kinds of delivery stand for what signature and payload decide. The
project is edited and deleted meanwhile; an insert for a deleted project fails with the
same IntegrityError as that of a second row, and is answered like one (`misled`).

**MetricsQueue.** The queue is the sequence of metrics tasks by age, `Window` the
twenty candidates of a claim. A tick reads the servers without an active task and
inserts one task each in a later step. The engine's races are not repeated here.

**TerminalRelay, DockerRelay, InternalApi.** Both hops of a terminal are relayed by
two tasks, the first of which to end cancels the other; input and output are counted.
A ticket is looked up and removed in one step of the event loop. A Docker action goes
API, Runner, server; the API gives up after twenty seconds and the Runner goes on. One
Compose service with its container, and the volume, image and network it uses, are
enough for the checks of use. The two relays share the processes, which may stop, and
a budget of uses (`InternalUse`), so that `InternalApi` can compose them.

## 3. Runs

| Run | Instance | Shows |
|---|---|---|
| `task_store` | 2 workers, and two deployments of one project (1 and 2 attempts) or an approved build with its run, `MaxDelay = 1` | `TypeOK`, `ExclusiveLease`, `TerminalIsFinal`, and `LeaseIsLock`: the queue implements `ResourceLock` |
| `engine` | 2 workers, one build, stalls, a crash, cancel | `StartsBounded`, `SuccessFromCurrentAttempt`, `RunFollowsTask`, `EventuallySettled` |
| `handlers` | 2 workers that stall and crash, and one of an approved build, a deployment, a rollback and a script | `DeployedIsRecorded`, `ArtifactKept`, `LinksAgree`, `DecidedOnce` |
| `outlived` | the engine's, without crashes | violated: `HandlersHoldLease`; a handler goes on after its task has another owner |
| `deployer` | 3 deployments of 2 revisions, up to 5 calls | `QuietIsWhole`, `UndoIsWhole`, `AnswerIsTrue` |
| `deployer_retry` | the same | violated: `PendingTells`; a retry takes a transaction whose undo broke off for complete |
| `releases` | 2 deployments, a build, 2 rollbacks of one environment, a late decision, a crash | `PreviousIsBelow`, `LiveIsLatest`, `ReplacesWhatWasApproved`, `OneTaskEach`, and `HealthyIsStack`: the healthy deployments implement `ReleaseStack` |
| `command` | secrets `abc` and `b` printed in pieces to two pipes, a secret `*` in a line of the handler, a log of 6 bytes | `LogIsSound`, `ResultIsTrue`, `CommandEnds` |
| `run_logs` | the owner (2 lines), a Runner without its lease (1 line), a cancel request, a client and a broken connection | `StreamIsSound`, `EveryLineArrives`, and `IsFollowedLog`: the log implements `FollowedLog` |
| `webhooks` | two posts at a time of one delivery of any kind, a manual run, edits and deletion of the project, crashes | `DeliveryCountsOnce`, `PushIsBuilt` |
| `metrics` | 2 Runners, a server that never answers and one that does, a window of one | `SamplesAreBounded`, `KeepsBeingSampled` |
| `internal` | one ticket, two browsers, two servers, or one Docker action; a stop | `TerminalsAreSound`, `OkIsTrue`, `BothEndsGo` |

Every property of a passing run has a mutant, a broken version of one definition
defined just before it, under which TLC finds the property violated.

**Violations.** `outlived`: the docstring at `runner/engine.py:3` lets a handler have
effects only while it holds the lease and demands that it stop at once when the lease
is lost. The engine learns of the loss at its next heartbeat and then waits
`cancel_grace_seconds` for the handler (`engine.py:218`); by then the recovery may have
given the task to another worker, whose handler runs beside the first. What the other
runs claim of handlers is therefore about tasks outside `outlived`, to which this has
not happened; inside, an old handler may undo what the new one did, since its writes go
by id (`handlers.py:356`, `:949`). `deployer_retry`: the comment at `deploy.py:412`
makes `pending.json` the mark of an unfinished transaction. A deployment of another
revision begins to undo an interrupted transaction and breaks off; the next deployment
of the interrupted revision, which is what a retry is, finds its containers healthy,
calls the transaction complete and removes the mark (`deploy.py:355-374`) over files of
two revisions. `mixed` is exactly this case, and the properties of `deployer` say that
it is the only one; it lasts until a later transaction is completed.

**Bounds.** Two workers are enough for every race in the code: no statement involves
more than an owner and a challenger. Two attempts give a first, a recovered and an
exhausted one. `Lease` is one or two ticks, so a lease can be fresh, about to expire,
just expired (recoverable, not yet reclaimable by `lease_next`, which asks for
strictly less) and overdue. `MaxVersion` only limits heartbeats, the one action that
could go on for ever; `handlers` has none, and its leases run out under every step of a
handler. `handlers` submits one task in a behaviour (`Batches`), as its properties
relate the rows of one task. `task_store` submits two tasks of one resource, which race
for leases, or one task with a run and an operation: a statement reads and writes those
rows for its own task alone, and no lease depends on them. `MaxDelay` is one with leases
of two ticks, so that every transaction may see a lease that is over as live.
`MaxCrashes` is one, or two in `metrics`; an attempt is also lost by a stall, an
interruption or a commit that comes too late, so that the crashed attempt can be the
first of two lost ones or the last. In
`releases` the tasks of the build and of one rollback have a single attempt and the
others two, so that one crash ends some tasks and repeats others; `max_attempts` is
three in the code, and two attempts already separate the first from the last. Two
rollbacks after three deployments reach a stack that grows, shrinks twice and may grow
again. Five calls of `deploy()` allow an installation, an interrupted one, an
interrupted recovery, another and a success. In `command` both secrets can be split
between two reads, one is part of the other, and the limit can fall within a
replacement; a pipe holds two bytes, so a reader that stops blocks the group. In
`run_logs` three writers can make one of them lose all three numbers, a batch of two
is shorter than the log, and a connection breaks within a batch. One delivery with two
posts at a time has the race of two inserts and, since posts are repeated, any number
of redeliveries; deliveries share nothing but the project. A window of one, with a
server that never answers, is the case in which busy candidates hide the others;
twenty is the code's value. In `internal` two browsers race for a ticket; a Docker
action counts for both uses (`ActionUses`), so a behaviour has terminals or an action:
the two share nothing but stops. Deadlock is not checked: when all tasks are over and
the bounds are used up, nothing is left to do.

**Fairness.** `LeaseRunner`: awaited steps are resumed by the event loop; handlers end
because their commands have timeouts or are cancelled after `cancel_grace_seconds`;
`docker-compose.yml` restarts the Runner container (`restart: unless-stopped`). Recovery
is due every `recovery_seconds`, but only between two tasks of a worker, so it is
enabled again and again rather than always: strong fairness. No fairness is assumed of
the API, of heartbeats being in time, or of crashes. `CommandRunner`: the steps of the
coroutine, of the readers and of the log are taken by the event loop, the kernel reaps a
dead child; the timeout does happen. A process need not exit, by itself or by SIGTERM. A
member of the group that outlives the leader and holds a pipe is killed by nobody, so
`CommandEnds` says that the call ends or that such a process holds its pipe for ever
(`Leftover`). `RunLogs`: an append goes on, streams are polled, and clients connect
again; the frontend does so only five times in a row without an event and not when it
knows that the run is over (`RunDetailView.vue:248`). `WebhookDeliveries`: posts are
handled, and providers redeliver until they have a final answer, which is theirs to do
and not the code's. `MetricsQueue`: ticks and claims go on; the insert of a tick and a
sample of a server that answers are repeated until they succeed (strong fairness: a
crash may interrupt each); recovery and expiry happen. `InternalApi`: the tasks of both
hops are taken by their event loops; nobody need type, print or leave.

## 4. Proofs

| Theorem | Statement |
|---|---|
| `QueueProofs!TypeCorrect` | `Spec => []TypeOK` |
| `QueueProofs!AttemptsAreBounded` | `Spec => []AttemptsBounded` |
| `QueueProofs!FinishedTasksAreFinal` | `Spec => TerminalIsFinal` |
| `QueueProofs!LeasesAreExclusive` | `Spec => []ExclusiveLease` |
| `QueueProofs!QueueImplementsLock` | `Spec => LeaseIsLock` |
| `QueueProofs!RunnerTypeCorrect` | `EngineSpec => [](TypeOK /\ RunnerTypeOK)` |
| `QueueProofs!EngineImplementsStore` | `EngineSpec => Spec` |
| `QueueProofs!EngineLeasesAreExclusive` | `EngineSpec => []ExclusiveLease` |
| `QueueProofs!StartsAreBounded` | `EngineSpec => []StartsBounded` |
| `QueueProofs!SuccessIsEarned` | `EngineSpec => []SuccessFromCurrentAttempt` |
| `QueueProofs!RunsFollowTasks` | `EngineSpec => []RunFollowsTask` |
| `QueueProofs!HandlerTypeCorrect` | `HandlersSpec => []HandlerTypeOK` |
| `QueueProofs!HandlersImplementStore` | `HandlersSpec => Spec` |
| `QueueProofs!DeployedImagesAreRecorded` | `HandlersSpec => []DeployedIsRecorded` |
| `QueueProofs!ArtifactsAreKept` | `HandlersSpec => ArtifactKept` |
| `QueueProofs!DeploymentsAreDecidedOnce` | `HandlersSpec => DecidedOnce` |
| `QueueProofs!EndsAgree` | `HandlersSpec => []LinksAgree` |
| `ComposeDeployerProofs!DeployerTypeCorrect` | `DeployerSpec => []DeployerTypeOK` |
| `ComposeDeployerProofs!ServerIsWhole` | `DeployerSpec => []QuietIsWhole` |
| `ComposeDeployerProofs!UndoLogIsWhole` | `DeployerSpec => []UndoIsWhole` |
| `ComposeDeployerProofs!AnswersAreTrue` | `DeployerSpec => []AnswerIsTrue` |
| `ReleasesProofs!ReleaseTypesCorrect` | `Spec => []TypeOK` |
| `ReleasesProofs!OneTaskPerRequest` | `Spec => []OneTaskEach` |
| `ReleasesProofs!PreviousRetracesStack` | `Spec => []PreviousIsBelow` |
| `ReleasesProofs!DatabaseKnowsServer` | `Spec => []LiveIsLatest` |
| `ReleasesProofs!RollbackMeetsApproval` | `Spec => []ReplacesWhatWasApproved` |
| `ReleasesProofs!HealthyImplementsStack` | `Spec => HealthyIsStack` |
| `WebhookProofs!DeliveriesCountOnce` | `Spec => []DeliveryCountsOnce` |
| `RunLogsProofs!StreamStaysSound` | `Spec => []StreamIsSound` |
| `RunLogsProofs!RowsImplementLog` | `Spec => IsFollowedLog` |
| `CommandRunnerProofs!CommandResultIsTrue` | `CommandSpec => []ResultIsTrue` |
| `CommandRunnerProofs!LogStaysSound` | `CommandSpec => []LogIsSound` |
| `MetricsProofs!SamplesStayBounded` | `Spec => []SamplesAreBounded` |
| `InternalApiProofs!TerminalsStaySound` | `InternalSpec => []TerminalsAreSound` |
| `InternalApiProofs!OkStaysTrue` | `InternalSpec => []OkIsTrue` |

They hold for every value of the constants: any set of tasks, workers, requests,
browsers, servers and deliveries, any number of attempts, lines, bytes, crashes and
stops, any batch and lease length. The assumptions are the named ones of the modules
(`StoreAssumption`, `RunnerAssumption`, `DeployerAssumption`, `ReleasesAssumption`,
`WebhookAssumption`, `LogsAssumption`, `RedactionAssumption`, `WriterAssumption`,
`CommandAssumption`, `MetricsAssumption`, `TerminalAssumption`, `UseAssumption`), which
TLC evaluates in the runs, and there are no others: clocks are as old as
`MaxDelay < Lease` allows, workers stall and crash anywhere, any revision is deployed
after any. What the code does not ensure is in the statements, as the histories
`revived`, `outlived`, `mixed` and `misled`, each of which records that one particular
thing has happened and is shown to be the only exception.

`MaxDelay < Lease` is not a promise of punctuality but of the database: a session gives
up after `busy_timeout`, 30 seconds, and a lease lasts 60 by default. A configuration
with shorter leases is not excluded by the code, and is excluded here.

*Attempts.* `AttemptsBounded` is not inductive: the claiming UPDATE raises `attempts`
without looking at `max_attempts`. `CandidateInv` adds that a candidate whose version
is still the row's has an attempt left; it is kept because every change of `attempts`
changes `version` (`VersionGuardsAttempts`).

*Leases.* `Live` is the tasks with a live lease that were not revived. Every step but a
claim keeps or shrinks it (`StepShrinks`): a heartbeat whose `now` is older than the end
of its lease puts the task in `revived`. A claim adds one task of a resource that had no
live lease when it committed: its `now` is older than the commit, so what it takes for
over is over (`ClaimGrants`). Both the invariant and the refinement follow from these
two facts.

*Engine.* Each engine action is a store transaction with a worker's own token or
leaves the rows alone (`EngineImplementsStore`), so the store's theorems carry over.
`StartsInv` counts: a start consumes the `leased` state that only a claim, which
raises `attempts`, produces. `TokenInv` is what a token is worth: its version is never
ahead of the row's, and while it is the row's, worker, attempt and state are those the
worker believes in. As `finish` succeeds only with the row's version, a success is
that of the last attempt (`VerdictInv`). `RunInv` says what task and run may be side
by side; that an open run of a running task carries the task's owner makes `finish`, which
compares the run's owner and not a version, end the run together with the task.
`HeldInv` says of a handler whose task is not in `outlived` that its worker owns the
task, which runs, in the attempt the handler was started for: while a handler runs,
ownership only ends through a recovery or a claim, and these are the steps that fill
`outlived`. It holds however long leases are overdue.

*Handlers.* `PlaceInv` ties the handler's location to the kind of its task,
`ImageInv` what it remembers of an image to what its run records, `DeploymentInv` says
that a handler on its way to the server works on an open deployment, and `SuccessInv`
what must have been reported at each location for a success to agree everywhere when
the engine commits it. These three speak of the workers that count (`Mine`): their
task is not in `outlived`, and their handler runs or, when they are about to commit,
their version is the row's. By `HeldInv` no two workers that count have the same task
(`Alone`), so that what one has read stays true until it writes; and nobody else's write
reaches a row of a task that is not in `outlived` (`Undisturbed`). `ScriptInv` needs no
such condition: the runs of a script and the handlers that have yet to run it, a set
whose `Cardinality` is counted, are together no more than the starts.

*Deployment.* The server is described by what its files, its containers and
`pending.json` belong to. While an installation is written, the files that are still to
be written are those of the snapshot and the others are the new ones (`BodyInv`); an
undo has restored all but those still to be restored, from the base it read (`UndoInv`),
which for a rollback is the files of before (`prior`); and what a reader of the files
has found is still there when it acts on it (`ReadInv`). An interrupted transaction of
the same revision is whole when it is completed unless it is `torn`, and then the step
that removes its mark sets `mixed`; under `mixed` the invariant still says what runs,
which is what an answer of success rests on. `DownIsPossible` says that while something
runs, the undo of a first installation still has the files it needs to stop it.

*Requests.* `OneTaskEach` needs that a request with a task has left "pending" for good
(`QueueInv`), although expiry, reports and recovery write its state by id; what they
write is never an undecided state. The stack follows from three facts (`OrderInv`):
`earlier` is asymmetric, some healthy deployment is ranked before all the others, and
the previous one of each is the healthy one right below it. The last gives, when the
top is taken away, the next top, so no induction over the length of the stack is
needed. `CheckedInv` says that between the check and the record of a handler nobody
changes what was checked, since only the handler of the running task writes
deployments and only one runs (`SingleInv`); `ServerInv` relates `live` to the top,
before and after the record. Lemmas `Pushed`, `Popped` and `Kept` say what each kind of
write does to the order, and the refinement of `ReleaseStack` is read off them.

*Webhooks.* A second run could only come from a second row. `KeyInv` says that the key
of a delivery is held by one open transaction, and only while the delivery has no row,
so that a row is written once; `RowInv` that only an accepted row names a run;
`AnswerInv` that an answer repeats what the row says, which then stays true because
the row does not change, or that it is the answer "duplicate" of a post that met a
deleted project.

*Logs.* `StreamInv` strengthens `StreamIsSound` by what makes it inductive: the stored
numbers are `1 .. Size`, and a number that was read is not above `Size + 1`
(`NumberInv`), so an insert either extends the log by one or collides; the line being
appended is newer than all that its writer has stored or given up (`LinesInv`); a
writer has seen at least as many rows of others as it has tries, and more when its
next insert is going to fail (`TriesInv`); and what a stream has read follows what its
client has (`BatchInv`). Lemmas on `Cardinality` turn `ORDER BY ... LIMIT` into
intervals of sequence numbers. For the refinement of `FollowedLog` an insert is shown
to append one line, and the delivery of an event to extend what a reader has by the
line that the log has next.

*Commands.* A result is `exit` only while nobody has been told to end (`StopInv`); a
reader that has met the end of its pipe has taken everything, and nobody holds a pipe
to print more, unless the handler's task was cancelled and the call is to raise
(`DrainInv`); and what is captured is the end of what was taken, starting at its
beginning unless `truncated` is set (`CaptureInv`), which `TailedIsTail` shows of
`_TailBuffer.append` for buffers and chunks of any length, those of the limit and above
included.

*Log of a command.* `LogIsSound` follows from `LogInv`, `CommandInv` and `StateInv`.
`LockInv` says that one client appends at a time and what each stage of a call still
holds, `LimitInv` that the notice is decided on once, with the limit reached and
nothing awaited, so that nothing can follow it, and `CleanInv` that the texts which wait
for their append show no secret either. That the log is a prefix of the redacted output
is not inductive: a chunk that arrives may complete a secret whose first bytes are kept
back. `KeptInv` says what is: for an open stream and *every* continuation of its output,
the redaction of the whole is what was said so far, followed by the redaction of what is
kept back and the continuation (`Open`); for a flushed stream, or the handler, what was
said is the whole redaction (`Closed`); in both, save what was left out after the
notice. A client whose append failed is exempt, as the code stops writing for it.
`PathInv` connects this to the readers, so that nothing is left in a pipe or a redactor
when the call returns.

The lemmas under it are about `Redaction` for any text and any set of secrets. `Scan` is
defined position by position from the end, and that it exists, is unique and has
sequences for values is shown by `DownInduction`, which like every induction of this
module is a minimum principle for a set of numbers (`NatMin`), since the library's
induction theorems cannot be instantiated here. `FeedIs` says that cutting a text where
`feed` does changes nothing: a match that begins in the part that is consumed cannot
reach beyond the bytes kept back (`Retains`), and one that begins later is found again.
`RedactedShows` says that a redacted text shows no secret that can be masked: every
position of it is either a star, which such a secret does not contain, or a byte that
was copied, and a run of copied bytes that formed a secret would have been replaced
where it begins. A secret that contains an asterisk, which the code accepts, may be
shown by the replacement itself (`**` by `***`); so `LogIsRedacted` claims that no event
shows a secret for the others (`Maskable`) only. All of them are replaced, and they may
contain each other, overlap and repeat in any way. `PieceShows`
carries this to the pieces in which the byte limits cut a text, and `FlattenGrows` to the
log, which is the concatenation of the events of a client.

*Metrics.* That tasks do not pile up is not inductive, since a tick inserts without
looking again. `PlaceInv` counts a scheduler that is about to insert a task for a
server as if the task were there: tasks and such schedulers together are no more than
the Runners. A tick that finds no task may raise the second number to all of them,
since the first is zero; an insert moves one from the second to the first; everything
else lowers them. `HeldInv` follows from the NOT EXISTS of a claim, `BusyInv` ties
workers to their tasks. `Ranks` and `OnlyKeeps` say that the tasks that are left after
others have ended are the same tasks, one position each.

*Internal API.* `TerminalInv` and `DockerInv` are separate, since the relays share
nothing but the stops. A ticket that is still in the table has admitted nobody
(`TicketInv`); how far the Runner has come with a connection determines what it has
recorded (`ShellInv`); and while nobody types or leaves after the shell has ended,
only the end of its output can end the chain (`QuietInv`). A Docker action is done
before the Runner replies, and the reply is what "ok" rests on (`DockerInv`).

Every invariant, action property and refinement of the passing runs is stated by a theorem.
Only model-checked: the liveness properties (`EventuallySettled`, `CommandEnds`,
`EveryLineArrives`, `PushIsBuilt`, `KeepsBeingSampled`, `BothEndsGo`), which depend on
fairness, and fairness on ENABLED, which the prover does not reason about.

## 5. What is not modelled

* Priorities: a claim of `TaskStore` picks any runnable task. The window of twenty
  candidates is in `MetricsQueue`, where all tasks have one priority, so starvation by
  priority is not excluded.
* PostgreSQL. SQLite runs one writing transaction at a time, so the claiming UPDATE
  and its NOT EXISTS see one state; under READ COMMITTED two claims of two tasks of
  one resource could both pass.
* Pipelines without an environment, notifications, credential loading, contents of
  snapshots, files and samples, text of commands.
* In `Redaction`: the decoding of UTF-8; in `RunLogs`: the content of the JSONL file
  and its removal.
* In the internal API: host-key scans, health and the read-only listings, which write
  nothing; Docker actions beside a deployment in progress, of which `ComposeDeployer`
  promises nothing.
* `rollback_on_failure = False`, which no caller sets.
* In `Releases`: scripts, which deploy nothing (`TaskHandlers` has them), pipelines
  that need no approval (an approved one is queued like them), cancellation of a
  queued run, immutable snapshot fields and whether the server is ready, and more than
  one environment of a project (their tasks only wait for each other).
* In `LeaseRunner` a handler that is not stopped ends by itself, which `Fairness` takes
  from the timeouts of its commands; `CommandRunner` shows with what exception a command
  ends.
* In `CommandRunner`: secrets that are added to the redactor while a command runs.
* In `InternalApi`: how long the closing of an SSH session takes
  (`wait_closed`, `runner/ssh.py:200`, has no bound); it is one step.
* Database errors inside a handler's own report.
* The components with status `not_modelled` in `PROJECT.json`.

Seen while modelling, without a run.

*Handlers and queue.* A cancel request that read a queued run makes it CANCELLED by id,
also when the run was claimed and has succeeded in between
(`api/routes/pipelines.py:165` to `:175`, although `:167` refuses a terminal run); this
is why `RunFollowsTask` lets a run be cancelled whatever its task is. The handler of a
lease that was passed on (`outlived`) may replace the recorded digest
(`runner/handlers.py:356`), reopen the deployment that another attempt has decided, or
report a failure over its success. A crash between the last report and finish leaves a
FAILED task with a SUCCEEDED operation (`runner/handlers.py:949`). A digest asked of the
registry by tag may be that of another push (`runner/build.py:145`);
`DeployedIsRecorded` compares the deployment with the record and would not notice. An
approved build whose queued run is cancelled through the API leaves its operation
APPROVED for ever, and a recovered one leaves its deployment PENDING (`LinksClosed`
speaks of success and failure only); `lease_next` takes an expired running row straight
back to leased, a transition that the table of `runner/state.py` does not have; a
rollback that crashes on its last attempt leaves its deployment HEALTHY over a server in
the middle of a transaction; if `pending.json` cannot be removed after the revision was
written, the deployment is reported as failed and the next other one undoes it; a
rollback that cannot even connect marks the deployment FAILED that goes on running
(`doubt` in `Releases`); an approval that is about to mark a request EXPIRED may
overwrite a decision made in the meantime (`MarkExpired`), whose task runs on; a
deployment of the running revision with a changed environment is answered by
`_reconcile` without touching the server; a database error in the monitor leaves
`_execute` without stopping the handler, until the process exits.

*Deployments.* A deployment approved during a build replaces the build's younger row;
the web route lets it be rolled back, MCP refuses (`runner/handlers.py:449`,
`integrations/mcp.py:844`).

*Commands and logs.* A member of the group that ignores SIGTERM survives when the
leader exits within the grace period, and any member survives a leader that exits by
itself: `_terminate_process_group` returns when the leader is gone (`runner/process.py:241`
and `:251`), although the docstring at `:240` speaks of the whole group. If it holds a
pipe, `run()` waits for the readers without a bound (`:186`), also past the timeout. The
stream of a run sends "end" on a status that it reads after the rows
(`api/routes/pipelines.py:222` to `:247`). A line that is committed between the two
SELECTs of a poll that found no rows is not sent if the run has ended by the second: not
even the owner's own last line, when `finish` follows it at once, and any line of a
handler that still logs after its run was cancelled or its lease lost. A client that
keeps its cursor finds it in the log endpoint. Removal of old lines makes the numbers of
a run start anew.

*Webhooks and internal API.* A post whose project is deleted between its SELECT and its
INSERT fails on the foreign key, and is answered "duplicate" with no run
(`api/routes/webhooks.py:171`), as is any IntegrityError. A delivery that was recorded
as `invalid_server` is never built, however often it is redelivered after the project
was repaired. When the user types at the moment the shell exits, the task that relays
the last output may be the one that is cancelled. A user is told "unavailable" after
twenty seconds of an action that is performed nevertheless.

## 6. Plan

1. Done: all modules of section 2, the runs of section 3, the proofs of section 4.
2. `cancel_run` beside `finish` as a run of its own.
3. The claim under READ COMMITTED; priorities.

## 7. Running

    tlc -workers 2 -config TaskStore.cfg MCTaskStore.tla
    tlapm QueueProofs.tla

`PROJECT.json` names the module of every configuration. The runs take between a second
and about three minutes on two workers, the proofs between a few seconds and several
minutes.
