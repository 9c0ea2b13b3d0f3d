------------------------- MODULE WebhookDeliveries -------------------------
(***************************************************************************)
(* Webhook deliveries (api/routes/webhooks.py) and manual runs             *)
(* (api/routes/pipelines.py trigger_run).  A provider, or a person, posts  *)
(* a delivery again while earlier posts of it are handled, answers get     *)
(* lost, the API crashes, and the project is edited meanwhile.  What keeps *)
(* the runs apart is the unique constraint of webhook_deliveries, on which *)
(* an insert waits for the transaction that holds the key.                 *)
(***************************************************************************)
EXTENDS Naturals, Sequences, SequencesExt

CONSTANTS
  Deliveries,  \* deliveries, each with an id of its own
  Copies,      \* posts of one delivery that are handled at a time
  MaxTriggers, \* bound: manual runs
  MaxChanges,  \* bound: edits of the project
  MaxFaults    \* bound: crashes of the API and lost answers

ASSUME WebhookAssumption ==
  /\ "manual" \notin Deliveries
  /\ MaxTriggers \in Nat /\ MaxChanges \in Nat /\ MaxFaults \in Nat

Posts == Deliveries \X Copies
Of(q) == q[1]

\* What a payload is: a push of a commit to the default branch, or not.
Kinds == {"push", "no_repository", "other_event", "malformed", "no_commit", "branch"}
NoRow == [status |-> "none", run |-> 0]
Answers == [code : {"none", "accepted", "duplicate", "ignored", "refused", "error"}, run : Nat]
NoAnswer == [code |-> "none", run |-> 0]

VARIABLES
  kind,        \* per delivery: what it is
  project,     \* the project of the deliveries
  environment, \* its default environment
  rows,        \* webhook_deliveries, committed
  runs,        \* pipeline_runs: what started each
  key,         \* per delivery: the posts whose open transaction holds its key
  at,          \* per post: where its handler is
  verdict,     \* per post: the status it is about to commit
  answer,      \* per post: its answer
  told,        \* per delivery: the first final answer the provider has got
  misled,      \* history: deliveries that were taken for duplicates and have no row
  triggers, changes, faults

setup == <<kind, project, environment>>
bounds == <<triggers, changes, faults>>
heard == <<told, misled>>
vars == <<setup, rows, runs, key, at, verdict, answer, heard, bounds>>

\* The answers a provider takes as final are the successes.
Final(a) == a.code \in {"accepted", "duplicate", "ignored"}

TypeOK ==
  /\ kind \in [Deliveries -> Kinds]
  /\ project \in {"ok", "missing", "no_image", "no_secret"}
  /\ environment \in {"none", "foreign", "unready", "ready"}
  /\ DOMAIN rows = Deliveries
  /\ runs \in Seq(Deliveries \cup {"manual"})
  /\ \A d \in Deliveries :
       key[d] = {q \in Posts : Of(q) = d /\ at[q] \in {"decide", "commit"}}
  /\ at \in [Posts -> {"idle", "lookup", "project", "insert", "orphaned", "conflict",
                       "decide", "commit", "answered"}]
  /\ \A q \in Posts : answer[q] \in Answers /\ (at[q] = "answered" <=> answer[q] # NoAnswer)
  /\ told \in [Deliveries -> Answers] /\ misled \subseteq Deliveries

Init ==
  /\ kind \in [Deliveries -> Kinds]
  /\ project = "ok"
  /\ environment \in {"none", "ready"}
  /\ rows = [d \in Deliveries |-> NoRow]
  /\ runs = <<>>
  /\ key = [d \in Deliveries |-> {}]
  /\ at = [q \in Posts |-> "idle"]
  /\ verdict = [q \in Posts |-> "none"]
  /\ answer = [q \in Posts |-> NoAnswer]
  /\ told = [d \in Deliveries |-> NoAnswer] /\ misled = {}
  /\ triggers = 0 /\ changes = 0 /\ faults = 0

-----------------------------------------------------------------------------
(* Answers.                                                                *)

Answer(q, code, run) ==
  /\ at' = [at EXCEPT ![q] = "answered"]
  /\ answer' = [answer EXCEPT ![q] = [code |-> code, run |-> run]]
  /\ verdict' = [verdict EXCEPT ![q] = "none"]

GoTo(q, step) ==
  /\ at' = [at EXCEPT ![q] = step]
  /\ UNCHANGED <<verdict, answer>>

RunOfRow(d) == rows[d].run

-----------------------------------------------------------------------------
(* The handler.                                                            *)

\* A post arrives, or the provider's redelivery of it.
Post(q) ==
  /\ at[q] = "idle"
  /\ GoTo(q, "lookup")
  /\ UNCHANGED <<setup, rows, runs, key, heard, bounds>>

\* The payload is checked, and the delivery looked up.
Lookup(q) ==
  /\ at[q] = "lookup"
  /\ IF kind[Of(q)] = "no_repository" THEN Answer(q, "refused", 0)
     ELSE IF rows[Of(q)] # NoRow THEN Answer(q, "duplicate", RunOfRow(Of(q)))
     ELSE GoTo(q, "project")
  /\ UNCHANGED <<setup, rows, runs, key, heard, bounds>>

\* The project is found by the repository, and the signature verified.
FindProject(q) ==
  /\ at[q] = "project"
  /\ IF project = "ok" THEN GoTo(q, "insert") ELSE Answer(q, "refused", 0)
  /\ UNCHANGED <<setup, rows, runs, key, heard, bounds>>

\* Mutant of Insert: without the unique constraint.
InsertAnother(q) ==
  /\ at[q] = "insert"
  /\ key' = [key EXCEPT ![Of(q)] = @ \cup {q}]
  /\ GoTo(q, "decide")
  /\ UNCHANGED <<setup, rows, runs, heard, bounds>>

\* Mutant of Insert: the row is committed before its run.
InsertCommitted(q) ==
  /\ at[q] = "insert"
  /\ key[Of(q)] = {}
  /\ IF rows[Of(q)] # NoRow
       THEN GoTo(q, "conflict") /\ UNCHANGED <<rows, key>>
       ELSE /\ GoTo(q, "decide")
            /\ key' = [key EXCEPT ![Of(q)] = {q}]
            /\ rows' = [rows EXCEPT ![Of(q)] = [status |-> "received", run |-> 0]]
  /\ UNCHANGED <<setup, runs, heard, bounds>>

\* The row is inserted when no open transaction holds its key.  An
\* IntegrityError says that there is one, or that the project is not there
\* any more.
Insert(q) ==
  /\ at[q] \in {"insert", "orphaned"}
  /\ key[Of(q)] = {}
  /\ IF rows[Of(q)] # NoRow \/ at[q] = "orphaned"
       THEN GoTo(q, "conflict") /\ UNCHANGED key
       ELSE GoTo(q, "decide") /\ key' = [key EXCEPT ![Of(q)] = {q}]
  /\ UNCHANGED <<setup, rows, runs, heard, bounds>>

\* The wait for the other transaction takes too long.
InsertTimesOut(q) ==
  /\ at[q] \in {"insert", "orphaned"}
  /\ key[Of(q)] # {}
  /\ Answer(q, "error", 0)
  /\ UNCHANGED <<setup, rows, runs, key, heard, bounds>>

\* After the IntegrityError the delivery's row is read, if it has one.
Conflict(q) ==
  /\ at[q] = "conflict"
  /\ Answer(q, "duplicate", RunOfRow(Of(q)))
  /\ misled' = IF rows[Of(q)] = NoRow THEN misled \cup {Of(q)} ELSE misled
  /\ UNCHANGED <<setup, rows, runs, key, told, bounds>>

\* What becomes of a delivery: the filters in their order, then the
\* environment as it is now.
Verdict(d) ==
  CASE kind[d] = "other_event" -> "ignored_event"
    [] kind[d] = "malformed" -> "invalid_payload"
    [] kind[d] = "no_commit" -> "ignored_commit"
    [] kind[d] = "branch" -> "ignored_branch"
    [] environment = "foreign" -> "invalid_environment"
    [] environment = "unready" -> "invalid_server"
    [] OTHER -> "accepted"

Decide(q) ==
  /\ at[q] = "decide"
  /\ verdict' = [verdict EXCEPT ![q] = Verdict(Of(q))]
  /\ at' = [at EXCEPT ![q] = "commit"]
  /\ UNCHANGED <<setup, rows, runs, key, answer, heard, bounds>>

Code(status) ==
  CASE status = "accepted" -> "accepted"
    [] status \in {"ignored_event", "ignored_commit", "ignored_branch"} -> "ignored"
    [] OTHER -> "refused"

\* The row's status and, for a push, the run, its task and its first log line
\* are committed together.
Commit(q) ==
  LET d == Of(q)
      run == IF verdict[q] = "accepted" THEN Len(runs) + 1 ELSE 0
  IN
  /\ at[q] = "commit"
  /\ runs' = IF run = 0 THEN runs ELSE Append(runs, d)
  /\ rows' = [rows EXCEPT ![d] = [status |-> verdict[q], run |-> run]]
  /\ key' = [key EXCEPT ![d] = @ \ {q}]
  /\ Answer(q, Code(verdict[q]), run)
  /\ UNCHANGED <<setup, heard, bounds>>

-----------------------------------------------------------------------------
(* Manual runs, edits and faults.                                          *)

\* trigger_run: with an environment or without.
TriggerRun ==
  /\ triggers < MaxTriggers
  /\ project \notin {"missing", "no_image"}
  /\ environment \in {"none", "ready"}
  /\ runs' = Append(runs, "manual")
  /\ triggers' = triggers + 1
  /\ UNCHANGED <<setup, rows, key, at, verdict, answer, heard, changes, faults>>

Change ==
  /\ changes < MaxChanges
  /\ changes' = changes + 1
  /\ \/ project' \in {"ok", "missing", "no_image", "no_secret"} /\ UNCHANGED environment
     \/ environment' \in {"none", "foreign", "unready", "ready"} /\ UNCHANGED project
  /\ UNCHANGED <<kind, rows, runs, key, at, verdict, answer, heard, triggers, faults>>

\* delete_project: foreign keys allow it while nothing refers to the project.
\* Whether another one follows for the same repository is left to Change.
DeleteProject ==
  /\ changes < MaxChanges
  /\ runs = <<>> /\ \A d \in Deliveries : rows[d] = NoRow /\ key[d] = {}
  /\ project' = "missing"
  /\ at' = [q \in Posts |-> IF at[q] = "insert" THEN "orphaned" ELSE at[q]]
  /\ changes' = changes + 1
  /\ UNCHANGED <<kind, environment, rows, runs, key, verdict, answer, heard, triggers, faults>>

Forget(Q) ==
  /\ at' = [q \in Posts |-> IF q \in Q THEN "idle" ELSE at[q]]
  /\ answer' = [q \in Posts |-> IF q \in Q THEN NoAnswer ELSE answer[q]]
  /\ verdict' = [q \in Posts |-> IF q \in Q THEN "none" ELSE verdict[q]]

Receive(q) ==
  /\ at[q] = "answered"
  /\ Forget({q})
  /\ told' = [told EXCEPT ![Of(q)] =
                IF Final(answer[q]) /\ ~Final(@) THEN answer[q] ELSE @]
  /\ UNCHANGED <<setup, rows, runs, key, misled, bounds>>

Lose(q) ==
  /\ at[q] = "answered"
  /\ faults < MaxFaults
  /\ faults' = faults + 1
  /\ Forget({q})
  /\ UNCHANGED <<setup, rows, runs, key, heard, triggers, changes>>

\* The API is killed and started again: open transactions are rolled back.
Crash ==
  /\ faults < MaxFaults
  /\ faults' = faults + 1
  /\ Forget(Posts)
  /\ key' = [d \in Deliveries |-> {}]
  /\ UNCHANGED <<setup, rows, runs, heard, triggers, changes>>

-----------------------------------------------------------------------------
Handle(q) ==
  Lookup(q) \/ FindProject(q) \/ Insert(q) \/ Conflict(q) \/ Decide(q) \/ Commit(q)

Next ==
  \/ \E q \in Posts : Post(q) \/ Handle(q) \/ InsertTimesOut(q) \/ Receive(q) \/ Lose(q)
  \/ TriggerRun \/ Change \/ DeleteProject \/ Crash

Spec == Init /\ [][Next]_vars

\* A provider posts a delivery again until an answer is final, and handlers run.
Fairness ==
  /\ \A d \in Deliveries :
       WF_vars(~Final(told[d]) /\ \E q \in Posts : Of(q) = d /\ Post(q))
  /\ \A q \in Posts : WF_vars(Handle(q) \/ Receive(q))

FairSpec == Spec /\ Fairness

-----------------------------------------------------------------------------
\* A delivery never starts two runs, however often and closely it is posted;
\* it has a run if and only if it is recorded as accepted, and then it is the
\* run of its row, whatever crashes (webhooks.py _handle).
OneRunEach ==
  \A d \in Deliveries :
    /\ \A m, n \in DOMAIN runs : runs[m] = d /\ runs[n] = d => m = n
    /\ \A n \in DOMAIN runs : runs[n] = d => rows[d] = [status |-> "accepted", run |-> n]
    /\ rows[d].status = "accepted" => rows[d].run \in DOMAIN runs /\ runs[rows[d].run] = d

\* The run that an answer names is there and is of that delivery, also for the
\* loser of two posts, and no answer goes without but that of a refused or
\* ignored delivery or its duplicate, and of one that was inserted for a project
\* just deleted (webhooks.py 127-134, 171-181).
AnswersHold ==
  \A d \in Deliveries :
    \A a \in {told[d]} \cup {answer[q] : q \in {p \in Posts : Of(p) = d}} :
      /\ a.run # 0 => a.run \in DOMAIN runs /\ runs[a.run] = d
      /\ a.code \in {"accepted", "duplicate"} /\ a.run = 0 =>
           rows[d].status # "accepted" \/ (a.code = "duplicate" /\ d \in misled)
      /\ a.code = "ignored" => d \notin ToSet(runs)

\* Repeated and simultaneous posts of a delivery start one run and are told of
\* it (webhooks.py _handle).
DeliveryCountsOnce ==
  /\ TypeOK
  /\ OneRunEach
  /\ AnswersHold

\* A delivery that its provider repeats gets a final answer once the project
\* stays configured, and a push to a project that is configured all the time
\* is built, in spite of crashes and lost answers.
PushIsBuilt ==
  \A d \in Deliveries :
    /\ kind[d] # "no_repository" /\ <>[](project = "ok") => <>Final(told[d])
    /\ kind[d] = "push" /\ [](project = "ok" /\ environment \in {"none", "ready"})
         => <>(told[d].run # 0)
=============================================================================
