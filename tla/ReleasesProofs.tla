--------------------------- MODULE ReleasesProofs ---------------------------
(***************************************************************************)
(* Proofs about Releases, for any set of requests of one environment, any  *)
(* number of attempts, crashes and late decisions.                         *)
(***************************************************************************)
EXTENDS Releases, TLAPS

-----------------------------------------------------------------------------
(* The invariant, one part per concern.                                    *)

\* A request that was never approved.
Undecided == {"absent", "pending", "rejected"}

\* OneTaskEach is not inductive: that a request with a task cannot be approved
\* once more needs the stronger fact that its state has left Undecided for good.
QueueInv ==
  /\ IsInjective(queue)
  /\ \A i \in DOMAIN queue : request[queue[i]] \notin Undecided

\* Nothing exists of a request before its approval, and a request for a
\* rollback says what it goes back to.
RequestInv ==
  /\ \A r \in Requests : request[r] \in Undecided => task[r] = "absent" /\ status[r] = "absent"
  /\ \A r \in Requests :
       Kind[r] = "rollback" /\ request[r] # "absent" =>
         aim[r] \in [from : Requests, to : Requests]
  /\ \A r \in expiring : request[r] # "absent"

\* The tasks run one at a time.
SingleInv == \A r, s \in Requests : pc[r] # "idle" /\ pc[s] # "idle" => r = s

\* What the remote step and the handler say of themselves.
OutcomeInv ==
  \A r \in Requests :
    /\ pc[r] = "record" => outcome[r] \in {"done", "restored", "broken"}
    /\ pc[r] \in {"report", "end"} => outcome[r] \in {"succeeded", "failed"}

\* finished_at orders the healthy deployments, there is a latest one, and each
\* points to the one below.
OrderInv ==
  /\ Healthy \subseteq finished
  /\ \A d, e \in Requests : d \in earlier[e] => e \notin earlier[d]
  /\ Healthy # {} => \E d \in Healthy : IsLatest(d, Healthy)
  /\ PreviousIsBelow

\* What was checked before the remote step still holds when its result is
\* recorded.
CheckedInv ==
  \A r \in Requests :
    pc[r] \in {"remote", "record"} =>
      IF Kind[r] = "rollback"
      THEN RollbackFits(aim[r].from, aim[r].to)
      ELSE status[r] = "deploying" /\ previous[r] = LatestHealthy(None)

\* The server runs the latest healthy deployment, but for the moment between
\* the remote step and its record.
Delivered(r) == pc[r] = "record" /\ outcome[r] = "done"
ServerInv ==
  /\ ~doubt /\ (\A r \in Requests : ~Delivered(r)) => live = LatestHealthy(None)
  /\ \A r \in Requests : Delivered(r) => live = Wanted(r)
  /\ \A r \in Requests : pc[r] = "record" /\ outcome[r] = "broken" => doubt

ReleasesInv ==
  /\ TypeOK /\ QueueInv /\ RequestInv /\ SingleInv
  /\ OutcomeInv /\ OrderInv /\ CheckedInv /\ ServerInv

-----------------------------------------------------------------------------
(* The steps.                                                              *)

\* A request is made.
Asks(r) ==
  \/ RequestDeployment(r) \/ RequestBuild(r)
  \/ \E d \in Requests : RequestRollback(r, d)

\* A request is not approved, or not yet.
Waits(r) == TimePasses(r) \/ ApproveTooLate(r) \/ MarkExpired(r) \/ Reject(r)

\* The handler goes on without a change to the database.
Moves(r) ==
  \/ SkipDeployment(r) \/ StartRollback(r) \/ SkipRollback(r) \/ FailEarly(r)

Steps(r) ==
  \/ Asks(r) \/ Waits(r) \/ Approve(r)
  \/ Begin(r) \/ ReportExecuting(r) \/ StartDeployment(r) \/ Moves(r)
  \/ Remote(r) \/ Record(r) \/ Report(r) \/ End(r) \/ Crash(r)

\* Every step of the specification is one of these.
LEMMA NextIsSteps == Next => \E r \in Requests : Steps(r)
BY DEF Next, Steps, Asks, Waits, Moves, Decide, Execute, RequestRollbackByTool

\* What a request changes.
LEMMA AskEffect ==
  ASSUME NEW r \in Requests, Asks(r)
  PROVE  /\ request[r] = "absent"
         /\ request' = [request EXCEPT ![r] = "pending"]
         /\ \/ aim' = aim /\ Kind[r] # "rollback"
            \/ \E d \in Requests :
                 /\ previous[d] # None
                 /\ aim' = [aim EXCEPT ![r] = [from |-> d, to |-> previous[d]]]
         /\ UNCHANGED <<overdue, inTime, expiring, taskVars, deploymentVars, handlerVars,
                        serverVars, crashes>>
<1>1. CASE RequestDeployment(r) \/ RequestBuild(r)
  BY <1>1 DEF RequestDeployment, RequestBuild, Submit
<1>2. CASE \E d \in Requests : RequestRollback(r, d)
  BY <1>2 DEF RequestRollback, Submit
<1> QED BY <1>1, <1>2 DEF Asks

\* What a delay or a refusal changes.
LEMMA WaitEffect ==
  ASSUME NEW r \in Requests, Waits(r)
  PROVE  /\ \/ request' = request
            \/ request[r] = "pending" /\ request' = [request EXCEPT ![r] = "rejected"]
            \/ r \in expiring /\ request' = [request EXCEPT ![r] = "expired"]
         /\ \/ expiring' = expiring
            \/ expiring' = expiring \ {r}
            \/ request[r] = "pending" /\ request' = request /\ expiring' = expiring \cup {r}
         /\ UNCHANGED <<aim, taskVars, deploymentVars, handlerVars, serverVars, crashes>>
BY DEF Waits, TimePasses, ApproveTooLate, MarkExpired, Reject

\* What the handler changes where it only goes on.
LEMMA MoveEffect ==
  ASSUME NEW r \in Requests, Moves(r)
  PROVE  /\ pc[r] \in {"check", "remote"}
         /\ \/ pc' = [pc EXCEPT ![r] = "remote"] /\ outcome' = outcome
               /\ Kind[r] = "rollback" /\ RollbackFits(aim[r].from, aim[r].to)
            \/ \E l \in {"report", "end"}, o \in {"succeeded", "failed"} :
                 /\ pc' = [pc EXCEPT ![r] = l]
                 /\ outcome' = [outcome EXCEPT ![r] = o]
         /\ UNCHANGED <<requestVars, taskVars, deploymentVars, serverVars, crashes>>
<1>1. CASE StartRollback(r)
  BY <1>1 DEF StartRollback, Goto
<1>2. CASE SkipDeployment(r) \/ SkipRollback(r) \/ FailEarly(r)
  <2>1. /\ pc[r] \in {"check", "remote"}
        /\ Concludes(r, "succeeded") \/ Concludes(r, "failed")
        /\ UNCHANGED <<requestVars, taskVars, deploymentVars, serverVars, crashes>>
    BY <1>2 DEF SkipDeployment, SkipRollback, FailEarly
  <2> QED BY <2>1 DEF Concludes, GotoWith
<1> QED BY <1>1, <1>2 DEF Moves

-----------------------------------------------------------------------------
(* The latest deployment.                                                  *)

\* There is at most one latest, and LatestHealthy finds it.
LEMMA LatestIsUnique ==
  ASSUME OrderInv, NEW d, IsLatest(d, Healthy)
  PROVE  LatestHealthy(None) = d
<1>1. None \notin Healthy
  BY ReleasesAssumption DEF Healthy
<1>2. Healthy \ {None} = Healthy
  BY <1>1
<1>3. ASSUME NEW e \in Healthy, IsLatest(e, Healthy) PROVE e = d
  BY <1>3 DEF IsLatest, OrderInv, Healthy
<1>4. d \in Healthy
  BY DEF IsLatest
<1>5. d = CHOOSE e \in Healthy : IsLatest(e, Healthy)
  BY <1>3, <1>4
<1> QED BY <1>2, <1>4, <1>5 DEF LatestHealthy

\* The same of the next state.
LEMMA LatestIsUniqueNext ==
  ASSUME OrderInv', NEW d, IsLatest(d, Healthy)'
  PROVE  LatestHealthy(None)' = d
<1>1. None \notin Healthy'
  BY ReleasesAssumption DEF Healthy
<1>2. Healthy' \ {None} = Healthy'
  BY <1>1
<1>3. ASSUME NEW e \in Healthy', IsLatest(e, Healthy)' PROVE e = d
  BY <1>3 DEF IsLatest, OrderInv, Healthy
<1>4. d \in Healthy'
  BY DEF IsLatest
<1>5. d = CHOOSE e \in Healthy' : IsLatest(e, Healthy)'
  BY <1>3, <1>4
<1> QED BY <1>2, <1>4, <1>5 DEF LatestHealthy

\* LatestHealthy is the latest if there is a healthy deployment, and None if
\* there is not; a deployment that is not healthy need not be excluded.
LEMMA LatestIsLatest ==
  ASSUME OrderInv
  PROVE  /\ Healthy = {} => LatestHealthy(None) = None
         /\ Healthy # {} => IsLatest(LatestHealthy(None), Healthy)
         /\ \A d \in Requests \ Healthy : LatestHealthy(d) = LatestHealthy(None)
<1>1. None \notin Healthy
  BY ReleasesAssumption DEF Healthy
<1>2. Healthy \ {None} = Healthy
  BY <1>1
<1>3. Healthy = {} => LatestHealthy(None) = None
  BY <1>2 DEF LatestHealthy
<1>4. ASSUME Healthy # {} PROVE IsLatest(LatestHealthy(None), Healthy)
  <2>1. PICK d \in Healthy : IsLatest(d, Healthy)
    BY <1>4 DEF OrderInv
  <2> QED BY <2>1, LatestIsUnique
<1>5. ASSUME NEW d \in Requests \ Healthy PROVE LatestHealthy(d) = LatestHealthy(None)
  <2> DEFINE L(S) == IF S = {} THEN None ELSE CHOOSE e \in S : IsLatest(e, S)
  <2>1. LatestHealthy(d) = L(Healthy \ {d}) /\ LatestHealthy(None) = L(Healthy \ {None})
    BY DEF LatestHealthy
  <2>2. Healthy \ {d} = Healthy
    OBVIOUS
  <2> HIDE DEF L
  <2> QED BY <2>1, <2>2, <1>2
<1> QED BY <1>3, <1>4, <1>5

-----------------------------------------------------------------------------
(* Most steps leave the healthy deployments alone.                         *)

Calm ==
  /\ Healthy' = Healthy
  /\ earlier' = earlier
  /\ finished' = finished
  /\ \A d \in Healthy : previous'[d] = previous[d]

\* Whose deployment is which.
LEMMA SubjectIsRequest ==
  ASSUME RequestInv, NEW r \in Requests, request[r] # "absent"
  PROVE  Subject(r) \in Requests /\ Wanted(r) \in Requests
<1>1. CASE Kind[r] = "rollback"
  BY <1>1 DEF RequestInv, Subject, Wanted
<1>2. CASE Kind[r] # "rollback"
  BY <1>2 DEF Subject, Wanted
<1> QED BY <1>1, <1>2

\* A handler runs for a request that was approved.
LEMMA RunnersAreDecided ==
  ASSUME TypeOK, RequestInv, NEW r \in Requests, pc[r] # "idle"
  PROVE  task[r] = "running" /\ request[r] \notin Undecided
BY DEF TypeOK, RequestInv

\* Only Record makes a deployment healthy or ends it.
LEMMA CalmSteps ==
  ASSUME TypeOK, RequestInv, NEW r \in Requests, Steps(r), ~Record(r)
  PROVE  Calm
<1> USE DEF TypeOK, Calm, Healthy
<1>1. CASE Asks(r) \/ Waits(r) \/ Moves(r)
  BY <1>1, AskEffect, WaitEffect, MoveEffect DEF deploymentVars
<1>2. CASE Approve(r)
  <2>1. request[r] = "pending"
    BY <1>2 DEF Approve, Approvable
  <2>2. status[r] = "absent"
    BY <2>1 DEF RequestInv, Undecided
  <2> QED BY <1>2, <2>2 DEF Approve, Insert
<1>3. CASE Begin(r) \/ ReportExecuting(r) \/ Remote(r) \/ Report(r)
  BY <1>3 DEF Begin, ReportExecuting, Remote, Report, deploymentVars
<1>4. CASE StartDeployment(r)
  <2>1. status[r] # "healthy"
    BY <1>4 DEF StartDeployment, OpenStatus
  <2> QED BY <1>4, <2>1 DEF StartDeployment, Insert
<1>5. CASE End(r)
  BY <1>5 DEF End, Close, OpenStatus
<1>6. CASE Crash(r)
  BY <1>6 DEF Crash, Rewind, Close, OpenStatus
<1> QED BY <1>1, <1>2, <1>3, <1>4, <1>5, <1>6 DEF Steps

\* A calm step changes nothing that depends on the order.
LEMMA CalmKeepsOrder ==
  ASSUME OrderInv, Calm
  PROVE  /\ OrderInv'
         /\ \A d : LatestHealthy(d)' = LatestHealthy(d)
<1>1. \A d : Below(d)' = Below(d)
  BY DEF Calm, Below
<1>2. \A d, S : IsLatest(d, S)' = IsLatest(d, S)
  BY DEF Calm, IsLatest
<1>3. \A d : LatestHealthy(d)' = LatestHealthy(d)
  BY <1>2 DEF Calm, LatestHealthy, IsLatest
<1>4. PreviousIsBelow'
  <2> SUFFICES ASSUME NEW d \in Healthy
               PROVE  IF Below(d) = {} THEN previous'[d] = None
                                       ELSE IsLatest(previous[d], Below(d))'
    BY <1>1 DEF PreviousIsBelow, Calm, Below, IsLatest
  <2> QED BY <1>1, <1>2 DEF PreviousIsBelow, OrderInv, Calm
<1>5. OrderInv'
  BY <1>4 DEF OrderInv, Calm, IsLatest
<1> QED BY <1>3, <1>5

-----------------------------------------------------------------------------
(* Types.                                                                  *)

\* The first state.
LEMMA InitInv == Init => ReleasesInv
<1> SUFFICES ASSUME Init PROVE ReleasesInv
  OBVIOUS
<1>1. queue = <<>> /\ DOMAIN queue = {}
  BY DEF Init
<1>2. TypeOK
  <2>1. crashes \in 0..MaxCrashes
    BY ReleasesAssumption DEF Init
  <2>2. queue \in Seq(Requests) /\ created \in Seq(Requests)
    BY DEF Init
  <2>3. /\ finished \in SUBSET Requests /\ earlier \in [Requests -> SUBSET finished]
        /\ overdue \in SUBSET Requests /\ inTime \in SUBSET overdue
        /\ expiring \in SUBSET overdue
    BY DEF Init
  <2>4. /\ attempts \in [Requests -> Nat]
        /\ previous \in [Requests -> Requests \cup {None}]
        /\ aim \in [Requests -> [from : Requests, to : Requests] \cup {None}]
        /\ task \in [Requests -> {"absent", "queued", "running", "over"}]
    BY DEF Init
  <2> QED BY <2>1, <2>2, <2>3, <2>4
          DEF Init, TypeOK, RequestState, OpenRequest, Status, OpenStatus, Location, Outcome
<1>3. QueueInv /\ RequestInv /\ SingleInv /\ OutcomeInv
  BY <1>1 DEF Init, QueueInv, IsInjective, RequestInv, SingleInv, OutcomeInv
<1>4. Healthy = {} /\ LatestHealthy(None) = None
  BY DEF Init, Healthy, LatestHealthy
<1>5. OrderInv
  BY <1>4 DEF Init, OrderInv, PreviousIsBelow
<1>6. CheckedInv /\ ServerInv
  BY <1>4 DEF Init, CheckedInv, ServerInv, Delivered
<1> QED BY <1>2, <1>3, <1>5, <1>6 DEF ReleasesInv

\* Sequences stay sequences when the order of creation grows.
LEMMA InsertType ==
  ASSUME TypeOK, NEW d \in Requests, NEW s \in Status, Insert(d, s)
  PROVE  status' \in [Requests -> Status] /\ created' \in Seq(Requests)
BY DEF TypeOK, Insert

\* The end of an attempt keeps the ranges.
LEMMA AttemptEnds ==
  ASSUME TypeOK, NEW r \in Requests, NEW d \in Requests, d = Subject(r),
         NEW o \in {"succeeded", "failed"}, Close(r, o) \/ Rewind(r)
  PROVE  /\ task' \in [Requests -> {"absent", "queued", "running", "over"}]
         /\ \A s \in Requests : task'[s] = IF s = r THEN task'[r] ELSE task[s]
         /\ task'[r] # "running" /\ task'[r] # "absent"
         /\ request' \in [Requests -> RequestState]
         /\ status' \in [Requests -> Status]
         /\ \A s \in Requests :
              /\ request[s] \notin Undecided => request'[s] \notin Undecided
              /\ request[s] \in Undecided => request'[s] = request[s]
              /\ status[s] = "absent" <=> status'[s] = "absent"
<1>1. CASE Close(r, o)
  BY <1>1 DEF TypeOK, Close, RequestState, OpenRequest, Status, OpenStatus, Undecided
<1>2. CASE Rewind(r)
  BY <1>2 DEF TypeOK, Rewind, RequestState, OpenRequest, Status, OpenStatus, Undecided
<1> QED BY <1>1, <1>2

\* Every step keeps the types.
LEMMA StepType ==
  ASSUME TypeOK, RequestInv, OutcomeInv, OrderInv, NEW r \in Requests, Steps(r)
  PROVE  TypeOK'
<1> USE DEF TypeOK, RequestState, OpenRequest, Location, Outcome
<1>1. CASE Asks(r)
  <2>1. \A d \in Requests : previous[d] # None =>
          [from |-> d, to |-> previous[d]] \in [from : Requests, to : Requests]
    OBVIOUS
  <2>2. aim' \in [Requests -> [from : Requests, to : Requests] \cup {None}]
    BY <1>1, <2>1, AskEffect
  <2>3. request' = [request EXCEPT ![r] = "pending"]
    BY <1>1, AskEffect
  <2>4. UNCHANGED <<overdue, inTime, expiring, taskVars, deploymentVars, handlerVars,
                    serverVars, crashes>>
    BY <1>1, AskEffect
  <2> QED BY <2>2, <2>3, <2>4 DEF taskVars, deploymentVars, handlerVars, serverVars
<1>2. CASE Waits(r)
  <2>1. inTime' \in SUBSET overdue' /\ expiring' \in SUBSET overdue' /\ overdue' \in SUBSET Requests
    BY <1>2, ReleasesAssumption DEF Waits, TimePasses, ApproveTooLate, MarkExpired, Reject
  <2>2. request' \in [Requests -> RequestState]
    BY <1>2, WaitEffect
  <2> QED BY <1>2, <2>1, <2>2, WaitEffect
          DEF taskVars, deploymentVars, handlerVars, serverVars
<1>3. CASE Approve(r)
  <2>1. request[r] = "pending" /\ task[r] = "absent"
    BY <1>3 DEF Approve, Approvable, RequestInv, Undecided
  <2>2. status' \in [Requests -> Status] /\ created' \in Seq(Requests)
    BY <1>3, InsertType DEF Approve, Status, OpenStatus
  <2>3. queue' \in Seq(Requests)
    BY <1>3 DEF Approve
  <2>4. /\ request' \in [Requests -> RequestState]
        /\ task' \in [Requests -> {"absent", "queued", "running", "over"}]
        /\ \A s \in Requests : pc'[s] # "idle" <=> task'[s] = "running"
    BY <1>3, <2>1 DEF Approve, handlerVars
  <2> QED BY <1>3, <2>2, <2>3, <2>4 DEF Approve, handlerVars, serverVars
<1>4. CASE Begin(r)
  <2>1. /\ task' = [task EXCEPT ![r] = "running"]
        /\ attempts' = [attempts EXCEPT ![r] = @ + 1]
        /\ request' = [request EXCEPT ![r] = IF @ \in OpenRequest THEN "executing" ELSE @]
        /\ pc' = [pc EXCEPT ![r] = "check"] \/ pc' = [pc EXCEPT ![r] = "start"]
        /\ UNCHANGED <<outcome, aim, overdue, inTime, expiring, queue, deploymentVars,
                       serverVars, crashes>>
    BY <1>4 DEF Begin, Goto
  <2>2. task' \in [Requests -> {"absent", "queued", "running", "over"}]
    BY <2>1
  <2>3. attempts' \in [Requests -> Nat]
    BY <2>1
  <2>4. request' \in [Requests -> RequestState]
    BY <2>1
  <2>5. /\ pc' \in [Requests -> Location]
        /\ \A s \in Requests : pc'[s] # "idle" <=> task'[s] = "running"
    BY <2>1
  <2> QED BY <2>1, <2>2, <2>3, <2>4, <2>5 DEF deploymentVars, serverVars
<1>11. CASE ReportExecuting(r)
  <2>1. /\ pc[r] = "start"
        /\ request' = [request EXCEPT ![r] = "executing"]
        /\ pc' = [pc EXCEPT ![r] = "check"]
        /\ UNCHANGED <<outcome, aim, overdue, inTime, expiring, taskVars, deploymentVars,
                       serverVars, crashes>>
    BY <1>11 DEF ReportExecuting, Goto
  <2> QED BY <2>1 DEF deploymentVars, taskVars, serverVars
<1>5. CASE StartDeployment(r)
  <2>1. LatestHealthy(r) \in Requests \cup {None}
    <3>1. r \notin Healthy
      BY <1>5 DEF StartDeployment, Healthy, OpenStatus
    <3> QED BY <3>1, LatestIsLatest DEF Healthy, IsLatest
  <2>2. status' \in [Requests -> Status] /\ created' \in Seq(Requests)
    BY <1>5, InsertType DEF StartDeployment, Status, OpenStatus
  <2> QED BY <1>5, <2>1, <2>2 DEF StartDeployment, Goto, requestVars, taskVars, serverVars
<1>6. CASE Moves(r)
  <2>1. /\ pc[r] \in {"check", "remote"}
        /\ \E l \in {"remote", "report", "end"} : pc' = [pc EXCEPT ![r] = l]
        /\ \/ outcome' = outcome
           \/ \E o \in {"succeeded", "failed"} : outcome' = [outcome EXCEPT ![r] = o]
        /\ UNCHANGED <<requestVars, taskVars, deploymentVars, serverVars, crashes>>
    BY <1>6, MoveEffect
  <2>2. outcome' \in [Requests -> Outcome]
    BY <2>1
  <2>3. /\ pc' \in [Requests -> Location]
        /\ \A s \in Requests : pc'[s] # "idle" <=> task'[s] = "running"
    BY <2>1 DEF taskVars
  <2> QED BY <2>1, <2>2, <2>3 DEF requestVars, taskVars, deploymentVars, serverVars
<1>7. CASE Remote(r)
  <2>1. Wanted(r) \in Requests
    BY <1>7, RunnersAreDecided, SubjectIsRequest DEF Remote, Undecided
  <2>2. /\ pc[r] = "remote" /\ pc' = [pc EXCEPT ![r] = "record"]
        /\ \E o \in {"done", "restored", "broken"} : outcome' = [outcome EXCEPT ![r] = o]
        /\ UNCHANGED <<requestVars, taskVars, deploymentVars, crashes>>
    BY <1>7 DEF Remote, GotoWith
  <2>3. live' \in Requests \cup {None}
    BY <1>7, <2>1 DEF Remote, serverVars
  <2>4. doubt' \in BOOLEAN
    BY <1>7 DEF Remote, serverVars
  <2> QED BY <2>2, <2>3, <2>4 DEF requestVars, taskVars, deploymentVars
<1>8. CASE Record(r)
  <2>1. PICK d \in Requests : d = Subject(r)
    BY <1>8, RunnersAreDecided, SubjectIsRequest DEF Record, Undecided
  <2>2. EndStatus(r) \in Status
    BY DEF EndStatus, Status
  <2>3. status' \in [Requests -> Status]
    BY <1>8, <2>1, <2>2 DEF Record
  <2>4. finished' \in SUBSET Requests /\ earlier' \in [Requests -> SUBSET finished']
    BY <1>8, <2>1 DEF Record
  <2> QED BY <1>8, <2>3, <2>4
          DEF Record, Concludes, GotoWith, requestVars, taskVars, serverVars
<1>9. CASE Report(r)
  BY <1>9 DEF Report, Goto, OutcomeInv, taskVars, deploymentVars, serverVars
<1>10. CASE End(r) \/ Crash(r)
  <2>1. pc[r] # "idle"
    BY <1>10 DEF End, Crash
  <2>2. Wanted(r) \in Requests /\ Subject(r) \in Requests
    BY <2>1, RunnersAreDecided, SubjectIsRequest DEF Undecided
  <2>3. \E o \in {"succeeded", "failed"} : Close(r, o) \/ Rewind(r)
    BY <1>10 DEF End, Crash, OutcomeInv
  <2>4. /\ task' \in [Requests -> {"absent", "queued", "running", "over"}]
        /\ \A s \in Requests : task'[s] = IF s = r THEN task'[r] ELSE task[s]
        /\ task'[r] # "running"
        /\ request' \in [Requests -> RequestState]
        /\ status' \in [Requests -> Status]
    BY <2>2, <2>3, AttemptEnds
  <2>5. pc' = [pc EXCEPT ![r] = "idle"] /\ outcome' = [outcome EXCEPT ![r] = "none"]
    BY <1>10 DEF End, Crash, GotoWith
  <2>6. \A s \in Requests : pc'[s] # "idle" <=> task'[s] = "running"
    BY <2>4, <2>5
  <2>8. live' \in Requests \cup {None}
    BY <1>10, <2>2 DEF End, Crash, serverVars
  <2>9. doubt' \in BOOLEAN
    BY <1>10 DEF End, Crash, serverVars
  <2>10. crashes' \in 0..MaxCrashes
    BY <1>10, ReleasesAssumption DEF End, Crash
  <2>7. UNCHANGED <<aim, overdue, inTime, expiring, attempts, queue, previous, created,
                    finished, earlier>>
    BY <1>10 DEF End, Crash
  <2> QED BY <2>4, <2>5, <2>6, <2>7, <2>8, <2>9, <2>10
<1> QED BY <1>1, <1>2, <1>3, <1>4, <1>5, <1>6, <1>7, <1>8, <1>9, <1>10, <1>11 DEF Steps

-----------------------------------------------------------------------------
(* Requests and tasks.                                                     *)

\* What a step leaves of request s.
Respects(s) ==
  /\ request[s] \notin Undecided => request'[s] \notin Undecided
  /\ request'[s] \in Undecided =>
       task'[s] = task[s] /\ (status[s] = "absent" => status'[s] = "absent")
  /\ request[s] = "absent" <=> request'[s] = "absent"

\* A decision is never taken back, and work is done for approved requests only.
LEMMA StepRespects ==
  ASSUME TypeOK, RequestInv, OutcomeInv, CheckedInv, NEW r \in Requests, Steps(r), ~Asks(r),
         NEW s \in Requests
  PROVE  Respects(s)
<1> USE DEF Respects, Undecided
<1>0. request \in [Requests -> RequestState] /\ task \in [Requests -> {"absent", "queued", "running", "over"}]
      /\ status \in [Requests -> Status]
  BY DEF TypeOK
<1>1. CASE Waits(r)
  <2>1. r \in expiring => request[r] # "absent"
    BY DEF RequestInv
  <2> QED BY <1>0, <1>1, <2>1, WaitEffect DEF taskVars, deploymentVars
<1>2. CASE Approve(r)
  BY <1>0, <1>2 DEF Approve, Approvable, Insert
<1>3. CASE Begin(r)
  <2>1. task[r] = "queued" /\ request[r] \notin Undecided
    BY <1>3 DEF Begin, RequestInv
  <2> QED BY <1>0, <1>3, <2>1 DEF Begin, deploymentVars, OpenRequest
<1>4. CASE ReportExecuting(r)
  <2>1. request[r] \notin Undecided
    BY <1>4, RunnersAreDecided DEF ReportExecuting
  <2> QED BY <1>0, <1>4, <2>1 DEF ReportExecuting, taskVars, deploymentVars
<1>5. CASE StartDeployment(r)
  <2>1. request[r] \notin Undecided
    BY <1>5, RunnersAreDecided DEF StartDeployment
  <2> QED BY <1>0, <1>5, <2>1 DEF StartDeployment, Insert, requestVars, taskVars
<1>6. CASE Moves(r)
  BY <1>6, MoveEffect DEF requestVars, taskVars, deploymentVars
<1>7. CASE Remote(r)
  BY <1>7 DEF Remote, requestVars, taskVars, deploymentVars
<1>8. CASE Record(r)
  <2>1. status[Subject(r)] # "absent"
    BY <1>8 DEF Record, CheckedInv, RollbackFits, Subject
  <2>2. \E d : d = Subject(r) /\ status[d] # "absent" /\ status' = [status EXCEPT ![d] = EndStatus(r)]
    BY <1>8, <2>1 DEF Record
  <2>3. status[s] = "absent" => status'[s] = "absent"
    BY <1>0, <2>2
  <2> QED BY <1>8, <2>3 DEF Record, requestVars, taskVars
<1>9. CASE Report(r)
  <2>1. request[r] \notin Undecided
    BY <1>9, RunnersAreDecided DEF Report
  <2> QED BY <1>0, <1>9, <2>1 DEF Report, taskVars, deploymentVars, OutcomeInv
<1>10. CASE End(r) \/ Crash(r)
  <2>1. request[r] \notin Undecided
    BY <1>10, RunnersAreDecided DEF End, Crash
  <2>2. PICK d \in Requests : d = Subject(r)
    BY <2>1, SubjectIsRequest
  <2>3. PICK o \in {"succeeded", "failed"} : Close(r, o) \/ Rewind(r)
    BY <1>10 DEF End, Crash, OutcomeInv
  <2>4. /\ task'[s] = IF s = r THEN task'[r] ELSE task[s]
        /\ request[s] \notin Undecided => request'[s] \notin Undecided
        /\ request[s] \in Undecided => request'[s] = request[s]
        /\ status[s] = "absent" <=> status'[s] = "absent"
    BY <2>2, <2>3, AttemptEnds
  <2> QED BY <2>1, <2>4
<1> QED BY <1>1, <1>2, <1>3, <1>4, <1>5, <1>6, <1>7, <1>8, <1>9, <1>10 DEF Steps

\* Only a new request says what it goes back to.
LEMMA OnlyAsksAim ==
  ASSUME NEW r \in Requests, Steps(r), ~Asks(r)
  PROVE  aim' = aim /\ (expiring' \subseteq expiring \/ (Waits(r) /\ request' = request))
<1>1. CASE Waits(r)
  BY <1>1, WaitEffect
<1>2. CASE Approve(r) \/ Begin(r) \/ ReportExecuting(r) \/ StartDeployment(r) \/ Moves(r)
  BY <1>2, MoveEffect DEF Approve, Begin, ReportExecuting, StartDeployment, requestVars
<1>3. CASE Remote(r) \/ Record(r) \/ Report(r) \/ End(r) \/ Crash(r)
  BY <1>3 DEF Remote, Record, Report, End, Crash, requestVars
<1> QED BY <1>1, <1>2, <1>3 DEF Steps

\* Nothing is done for a request before its approval.
LEMMA StepRequests ==
  ASSUME TypeOK, RequestInv, OutcomeInv, CheckedInv, NEW r \in Requests, Steps(r)
  PROVE  RequestInv'
<1>1. CASE Asks(r)
  <2>0. request \in [Requests -> RequestState] /\ expiring \subseteq Requests
        /\ aim \in [Requests -> [from : Requests, to : Requests] \cup {None}]
        /\ previous \in [Requests -> Requests \cup {None}]
    BY DEF TypeOK
  <2>1. request' = [request EXCEPT ![r] = "pending"] /\ request[r] = "absent"
        /\ expiring' = expiring /\ task' = task /\ status' = status
    BY <1>1, AskEffect DEF taskVars, deploymentVars
  <2>2. ASSUME NEW s \in Requests, request'[s] \in Undecided
        PROVE  task'[s] = "absent" /\ status'[s] = "absent"
    BY <2>0, <2>1, <2>2 DEF RequestInv, Undecided
  <2>3. ASSUME NEW s \in Requests, Kind[s] = "rollback", request'[s] # "absent"
        PROVE  aim'[s] \in [from : Requests, to : Requests]
    <3>1. CASE aim' = aim /\ Kind[r] # "rollback"
      BY <2>0, <2>1, <2>3, <3>1 DEF RequestInv
    <3>2. CASE \E d \in Requests :
                 /\ previous[d] # None
                 /\ aim' = [aim EXCEPT ![r] = [from |-> d, to |-> previous[d]]]
      <4>1. PICK d \in Requests :
                 /\ previous[d] # None
                 /\ aim' = [aim EXCEPT ![r] = [from |-> d, to |-> previous[d]]]
        BY <3>2
      <4>2. [from |-> d, to |-> previous[d]] \in [from : Requests, to : Requests]
        BY <2>0, <4>1
      <4> QED BY <2>0, <2>1, <2>3, <4>1, <4>2 DEF RequestInv
    <3> QED BY <1>1, <3>1, <3>2, AskEffect
  <2>4. \A s \in expiring' : request'[s] # "absent"
    BY <2>0, <2>1 DEF RequestInv
  <2> QED BY <2>2, <2>3, <2>4 DEF RequestInv
<1>2. CASE ~Asks(r)
  <2>1. \A s \in Requests : Respects(s)
    BY <1>2, StepRespects
  <2>2. aim' = aim
    BY <1>2, OnlyAsksAim
  <2>3. ASSUME NEW s \in expiring' PROVE request'[s] # "absent"
    <3>1. CASE s \in expiring
      BY <3>1, <2>1 DEF Respects, RequestInv, TypeOK
    <3>2. CASE s \notin expiring
      <4>1. Waits(r) /\ request[r] = "pending" /\ s = r /\ request' = request
        BY <1>2, <3>2, OnlyAsksAim, WaitEffect
      <4> QED BY <4>1
    <3> QED BY <3>1, <3>2
  <2> QED BY <2>1, <2>2, <2>3 DEF RequestInv, Respects
<1> QED BY <1>1, <1>2

\* A queue stays injective when something new is appended.
LEMMA StaysInjective ==
  \A s \in Seq(Requests), x \in Requests :
    IsInjective(s) /\ (\A i \in DOMAIN s : s[i] # x) => IsInjective(Append(s, x))
BY DEF IsInjective

\* Only an approval makes a task.
LEMMA OnlyApproveQueues ==
  ASSUME NEW r \in Requests, Steps(r), ~Approve(r)
  PROVE  queue' = queue
<1>1. CASE Asks(r) \/ Waits(r) \/ Moves(r)
  BY <1>1, AskEffect, WaitEffect, MoveEffect DEF taskVars
<1>2. CASE Begin(r) \/ ReportExecuting(r) \/ StartDeployment(r) \/ Remote(r)
  BY <1>2 DEF Begin, ReportExecuting, StartDeployment, Remote, taskVars
<1>3. CASE Record(r) \/ Report(r) \/ End(r) \/ Crash(r)
  BY <1>3 DEF Record, Report, End, Crash, taskVars
<1> QED BY <1>1, <1>2, <1>3 DEF Steps

\* The queue and the decisions stay consistent.
LEMMA StepQueue ==
  ASSUME TypeOK, QueueInv, RequestInv, OutcomeInv, CheckedInv, NEW r \in Requests, Steps(r)
  PROVE  QueueInv'
<1>0. request \in [Requests -> RequestState] /\ queue \in Seq(Requests)
  BY DEF TypeOK
<1>1. CASE Approve(r)
  <2>1. /\ queue' = Append(queue, r)
        /\ request[r] = "pending"
        /\ request' = [request EXCEPT ![r] = "approved"]
    BY <1>1 DEF Approve, Approvable
  <2>2. \A i \in DOMAIN queue : queue[i] # r
    BY <2>1 DEF QueueInv, Undecided
  <2>3. IsInjective(Append(queue, r))
    BY <1>0, <2>2, StaysInjective DEF QueueInv
  <2>4. ASSUME NEW i \in DOMAIN queue' PROVE request'[queue'[i]] \notin Undecided
    BY <1>0, <2>1, <2>2 DEF QueueInv, Undecided
  <2> QED BY <2>1, <2>3, <2>4 DEF QueueInv
<1>2. CASE Asks(r)
  <2>1. queue' = queue /\ request' = [request EXCEPT ![r] = "pending"] /\ request[r] = "absent"
    BY <1>2, AskEffect DEF taskVars
  <2> QED BY <1>0, <2>1 DEF QueueInv, Undecided
<1>3. CASE ~Approve(r) /\ ~Asks(r)
  <2>1. queue' = queue
    BY <1>3, OnlyApproveQueues
  <2>2. \A s \in Requests : Respects(s)
    BY <1>3, StepRespects
  <2> QED BY <1>0, <2>1, <2>2 DEF QueueInv, Respects
<1> QED BY <1>1, <1>2, <1>3

-----------------------------------------------------------------------------
(* Handlers.                                                               *)

\* A step is of one handler at most.
LEMMA OthersWait ==
  ASSUME TypeOK, OutcomeInv, NEW r \in Requests, Steps(r)
  PROVE  /\ \A s \in Requests \ {r} : pc'[s] = pc[s] /\ outcome'[s] = outcome[s]
         /\ pc'[r] # "idle" /\ pc[r] = "idle" => Begin(r)
         /\ pc'[r] = "record" => Remote(r) \/ (pc[r] = "record" /\ outcome'[r] = outcome[r])
         /\ pc'[r] = "remote" =>
              \/ StartDeployment(r)
              \/ Moves(r) /\ Kind[r] = "rollback" /\ RollbackFits(aim[r].from, aim[r].to)
              \/ pc[r] = "remote"
         /\ OutcomeInv'
<1>0. pc \in [Requests -> Location] /\ outcome \in [Requests -> Outcome]
  BY DEF TypeOK
<1> USE DEF OutcomeInv
<1>1. CASE Asks(r) \/ Waits(r) \/ Approve(r)
  <2>1. pc' = pc /\ outcome' = outcome
    BY <1>1, AskEffect, WaitEffect DEF Approve, handlerVars
  <2> QED BY <2>1
<1>2. CASE Begin(r)
  <2>1. outcome' = outcome /\ (pc' = [pc EXCEPT ![r] = "check"] \/ pc' = [pc EXCEPT ![r] = "start"])
    BY <1>2 DEF Begin, Goto
  <2> QED BY <1>0, <1>2, <2>1
<1>3. CASE ReportExecuting(r)
  BY <1>0, <1>3 DEF ReportExecuting, Goto
<1>4. CASE StartDeployment(r)
  BY <1>0, <1>4 DEF StartDeployment, Goto
<1>5. CASE Moves(r)
  BY <1>0, <1>5, MoveEffect
<1>6. CASE Remote(r)
  BY <1>0, <1>6 DEF Remote, GotoWith
<1>7. CASE Record(r)
  BY <1>0, <1>7 DEF Record, Concludes, GotoWith
<1>8. CASE Report(r)
  BY <1>0, <1>8 DEF Report, Goto
<1>9. CASE End(r)
  BY <1>0, <1>9 DEF End, GotoWith
<1>10. CASE Crash(r)
  BY <1>0, <1>10 DEF Crash, GotoWith
<1> QED BY <1>1, <1>2, <1>3, <1>4, <1>5, <1>6, <1>7, <1>8, <1>9, <1>10 DEF Steps

\* The tasks go on one at a time.
LEMMA StepSingle ==
  ASSUME TypeOK, OutcomeInv, SingleInv, NEW r \in Requests, Steps(r)
  PROVE  SingleInv'
<1> SUFFICES ASSUME NEW s \in Requests, NEW t \in Requests, pc'[s] # "idle", pc'[t] # "idle",
                    s # t
             PROVE  FALSE
  BY DEF SingleInv
<1>1. PICK u \in Requests : u # r /\ u \in {s, t}
  OBVIOUS
<1>2. pc[u] # "idle"
  BY <1>1, OthersWait
<1>3. ~Begin(r)
  BY <1>1, <1>2 DEF Begin, TypeOK
<1>4. pc[s] # "idle" /\ pc[t] # "idle"
  BY <1>3, OthersWait
<1> QED BY <1>4 DEF SingleInv

-----------------------------------------------------------------------------
(* The record of a result.                                                 *)

\* The top of the stack, as it is checked before a step.
LEMMA FitIsLatest ==
  ASSUME TypeOK, OrderInv, NEW d \in Requests, NEW t \in Requests, RollbackFits(d, t)
  PROVE  /\ d \in Healthy /\ t \in Healthy /\ previous[d] = t /\ d # t
         /\ LatestHealthy(None) = d
         /\ IsLatest(d, Healthy)
         /\ IsLatest(t, Healthy \ {d})
<1>1. d \in Healthy /\ t \in Healthy /\ previous[d] = t /\ LatestHealthy(None) = d
  BY DEF RollbackFits, Healthy
<1>2. IsLatest(d, Healthy)
  BY <1>1, LatestIsLatest
<1>3. d \notin earlier[d]
  BY DEF OrderInv
<1>4. Below(d) = Healthy \ {d}
  BY <1>2, <1>3 DEF Below, IsLatest
<1>5. Below(d) # {}
  <2>1. t \in Requests /\ None \notin Requests
    BY ReleasesAssumption
  <2> QED BY <1>1, <2>1 DEF OrderInv, PreviousIsBelow
<1>6. IsLatest(t, Healthy \ {d})
  BY <1>1, <1>4, <1>5 DEF OrderInv, PreviousIsBelow
<1>7. d # t
  BY <1>6 DEF IsLatest
<1> QED BY <1>1, <1>2, <1>6, <1>7

\* What Record does to the order, d being what it is about.
Records(d) ==
  /\ finished' = finished \cup {d}
  /\ earlier' = [e \in Requests |-> IF e = d THEN finished \ {d} ELSE earlier[e] \ {d}]
  /\ previous' = previous

\* It never disturbs the order itself.
LEMMA RecordsOrder ==
  ASSUME TypeOK, OrderInv, NEW d \in Requests, Records(d)
  PROVE  /\ \A e \in Requests \ {d} : earlier'[e] = earlier[e] \ {d}
         /\ earlier'[d] = finished \ {d}
         /\ \A e, f \in Requests : e \in earlier'[f] => f \notin earlier'[e]
<1>1. \A e \in Requests : earlier'[e] = IF e = d THEN finished \ {d} ELSE earlier[e] \ {d}
  BY DEF Records, TypeOK
<1> QED BY <1>1 DEF OrderInv

\* It leaves alone what points below, of a deployment that is above d or
\* unrelated to it.
LEMMA StillBelow ==
  ASSUME TypeOK, OrderInv, NEW d \in Requests, Records(d),
         NEW e \in Healthy, d \notin Below(e), Below(e)' = Below(e)
  PROVE  IF Below(e)' = {} THEN previous'[e] = None ELSE IsLatest(previous[e], Below(e))'
<1>1. previous' = previous
  BY DEF Records
<1>2. ASSUME Below(e) # {} PROVE IsLatest(previous[e], Below(e))'
  <2>1. IsLatest(previous[e], Below(e))
    BY <1>2 DEF OrderInv, PreviousIsBelow
  <2>2. PICK p \in Requests : p = previous[e] /\ p # d
    BY <2>1 DEF IsLatest, Below, Healthy
  <2>3. earlier'[p] = earlier[p] \ {d}
    BY <2>2, RecordsOrder
  <2> QED BY <2>1, <2>2, <2>3, <1>1 DEF IsLatest
<1>3. Below(e) = {} => previous[e] = None
  BY DEF OrderInv, PreviousIsBelow
<1> QED BY <1>1, <1>2, <1>3

\* The stack as the refinement maps it.
Tower == [d \in Healthy |-> Below(d)]

\* A deployment that succeeds is put on top.
LEMMA Pushed ==
  ASSUME TypeOK, OrderInv, NEW d \in Requests, Records(d), d \notin Healthy,
         previous[d] = LatestHealthy(None), Healthy' = Healthy \cup {d}
  PROVE  OrderInv' /\ LatestHealthy(None)' = d /\ Stack!Push(d)
<1>1. /\ \A e \in Requests \ {d} : earlier'[e] = earlier[e] \ {d}
      /\ earlier'[d] = finished \ {d}
      /\ \A e, f \in Requests : e \in earlier'[f] => f \notin earlier'[e]
  BY RecordsOrder
<1>2. Healthy \subseteq Requests /\ Healthy \subseteq finished
  BY DEF Healthy, OrderInv
<1>3. \A e \in Healthy : Below(e)' = Below(e)
  BY <1>1, <1>2 DEF Below
<1>4. Below(d)' = Healthy
  BY <1>1, <1>2 DEF Below
<1>5. IsLatest(d, Healthy)'
  BY <1>1, <1>2 DEF IsLatest
<1>6. PreviousIsBelow'
  <2>1. ASSUME NEW e \in Healthy
        PROVE  IF Below(e)' = {} THEN previous'[e] = None ELSE IsLatest(previous[e], Below(e))'
    BY <1>3, StillBelow DEF Below
  <2>2. IF Below(d)' = {} THEN previous'[d] = None ELSE IsLatest(previous[d], Below(d))'
    <3>1. previous' = previous
      BY DEF Records
    <3>2. Healthy = {} => previous[d] = None
      BY LatestIsLatest
    <3>3. ASSUME Healthy # {} PROVE IsLatest(previous[d], Below(d))'
      <4>1. PICK p \in Healthy : p = previous[d] /\ Healthy \ {p} \subseteq earlier[p]
        BY <3>3, LatestIsLatest DEF IsLatest
      <4>2. earlier'[p] = earlier[p] \ {d}
        BY <4>1, <1>1, <1>2
      <4> QED BY <4>1, <4>2, <3>1, <1>4 DEF IsLatest
    <3> QED BY <3>1, <3>2, <3>3, <1>4
  <2> QED BY <2>1, <2>2 DEF PreviousIsBelow
<1>7. OrderInv'
  <2>1. Healthy' \subseteq finished'
    BY <1>2 DEF Records
  <2>2. d \in Healthy'
    OBVIOUS
  <2> QED BY <1>1, <1>5, <1>6, <2>1, <2>2 DEF OrderInv
<1>8. LatestHealthy(None)' = d
  BY <1>5, <1>7, LatestIsUniqueNext
<1>9. Stack!Push(d)
  <2>1. DOMAIN Tower = Healthy
    BY DEF Tower
  <2>2. Tower' = [e \in Healthy \cup {d} |-> IF e = d THEN Healthy ELSE Tower[e]]
    BY <1>3, <1>4 DEF Tower
  <2> QED BY <2>1, <2>2 DEF Stack!Push, Stack!Members, Tower
<1> QED BY <1>7, <1>8, <1>9

\* A rollback, or one that broke, takes the top away.
LEMMA Popped ==
  ASSUME TypeOK, OrderInv, NEW d \in Requests, NEW t \in Requests, Records(d),
         RollbackFits(d, t), Healthy' = Healthy \ {d}
  PROVE  OrderInv' /\ LatestHealthy(None)' = t /\ Stack!Pop(d)
<1>1. /\ \A e \in Requests \ {d} : earlier'[e] = earlier[e] \ {d}
      /\ \A e, f \in Requests : e \in earlier'[f] => f \notin earlier'[e]
  BY RecordsOrder
<1>2. Healthy \subseteq Requests /\ Healthy \subseteq finished
  BY DEF Healthy, OrderInv
<1>3. /\ d \in Healthy /\ t \in Healthy /\ d # t
      /\ IsLatest(d, Healthy) /\ IsLatest(t, Healthy \ {d})
  BY FitIsLatest
<1>4. \A e \in Healthy : d \notin earlier[e]
  BY <1>2, <1>3 DEF IsLatest, OrderInv
<1>5. \A e \in Healthy \ {d} : Below(e)' = Below(e)
  BY <1>1, <1>2, <1>4 DEF Below
<1>6. IsLatest(t, Healthy)'
  BY <1>1, <1>2, <1>3 DEF IsLatest
<1>7. PreviousIsBelow'
  <2>1. ASSUME NEW e \in Healthy \ {d}
        PROVE  IF Below(e)' = {} THEN previous'[e] = None ELSE IsLatest(previous[e], Below(e))'
    BY <1>4, <1>5, StillBelow DEF Below
  <2> QED BY <2>1 DEF PreviousIsBelow
<1>8. OrderInv'
  <2>1. Healthy' \subseteq finished'
    BY <1>2 DEF Records
  <2>2. t \in Healthy'
    BY <1>3
  <2> QED BY <1>1, <1>6, <1>7, <2>1, <2>2 DEF OrderInv
<1>9. LatestHealthy(None)' = t
  BY <1>6, <1>8, LatestIsUniqueNext
<1>10. Stack!Pop(d)
  <2>1. DOMAIN Tower = Healthy
    BY DEF Tower
  <2>2. Tower' = [e \in Healthy \ {d} |-> Tower[e]]
    BY <1>5 DEF Tower
  <2>3. Tower[d] = Healthy \ {d}
    <3>1. d \notin earlier[d] /\ Healthy \ {d} \subseteq earlier[d]
      BY <1>3, <1>4 DEF IsLatest
    <3> QED BY <1>3, <3>1 DEF Tower, Below
  <2> QED BY <1>3, <2>1, <2>2, <2>3 DEF Stack!Pop, Stack!Members, Tower
<1> QED BY <1>8, <1>9, <1>10

\* A result that leaves the healthy deployments as they were: of one that was
\* not among them, or of the top, whose rollback failed and was restored.
LEMMA Kept ==
  ASSUME TypeOK, OrderInv, NEW d \in Requests, Records(d), Healthy' = Healthy,
         d \in Healthy => IsLatest(d, Healthy)
  PROVE  OrderInv' /\ LatestHealthy(None)' = LatestHealthy(None) /\ Tower' = Tower
<1>1. /\ \A e \in Requests \ {d} : earlier'[e] = earlier[e] \ {d}
      /\ earlier'[d] = finished \ {d}
      /\ \A e, f \in Requests : e \in earlier'[f] => f \notin earlier'[e]
  BY RecordsOrder
<1>2. Healthy \subseteq Requests /\ Healthy \subseteq finished
  BY DEF Healthy, OrderInv
<1>3. \A e \in Healthy : d \notin Below(e)
  BY <1>2 DEF Below, IsLatest, OrderInv
<1>4. \A e \in Healthy : Below(e)' = Below(e)
  <2>1. ASSUME NEW e \in Healthy PROVE Below(e)' = Below(e)
    <3>1. CASE e # d
      BY <1>1, <1>2, <1>3, <3>1 DEF Below
    <3>2. CASE e = d
      BY <1>1, <1>2, <1>3, <3>2 DEF Below, IsLatest
    <3> QED BY <3>1, <3>2
  <2> QED BY <2>1
<1>5. \A e \in Healthy : IsLatest(e, Healthy) => IsLatest(e, Healthy)'
  <2>1. ASSUME NEW e \in Healthy, IsLatest(e, Healthy) PROVE Healthy \ {e} \subseteq Below(e)'
    BY <1>2, <1>4, <2>1 DEF Below, IsLatest
  <2> QED BY <2>1 DEF Below, IsLatest
<1>6. PreviousIsBelow'
  <2>1. ASSUME NEW e \in Healthy
        PROVE  IF Below(e)' = {} THEN previous'[e] = None ELSE IsLatest(previous[e], Below(e))'
    BY <1>3, <1>4, StillBelow
  <2> QED BY <2>1 DEF PreviousIsBelow
<1>7. OrderInv'
  <2>1. Healthy' \subseteq finished'
    BY <1>2 DEF Records
  <2>2. Healthy' # {} => \E e \in Healthy' : IsLatest(e, Healthy)'
    BY <1>5 DEF OrderInv
  <2> QED BY <1>1, <1>6, <2>1, <2>2 DEF OrderInv
<1>8. LatestHealthy(None)' = LatestHealthy(None)
  <2>1. None \notin Healthy
    BY ReleasesAssumption DEF Healthy
  <2>2. CASE Healthy = {}
    BY <2>2 DEF LatestHealthy
  <2>3. CASE Healthy # {}
    <3>1. PICK e \in Healthy : IsLatest(e, Healthy)
      BY <2>3 DEF OrderInv
    <3>2. LatestHealthy(None) = e
      BY <3>1, LatestIsUnique
    <3>3. LatestHealthy(None)' = e
      BY <1>5, <1>7, <3>1, LatestIsUniqueNext
    <3> QED BY <3>2, <3>3
  <2> QED BY <2>2, <2>3
<1>9. Tower' = Tower
  BY <1>4 DEF Tower
<1> QED BY <1>7, <1>8, <1>9

\* A result either ends as it was meant to, leaving Wanted(r) on top; or, the
\* server restored, it changes nothing; or it broke and takes at most the top
\* away.
LEMMA RecordStep ==
  ASSUME ReleasesInv, NEW r \in Requests, Record(r)
  PROVE  /\ OrderInv'
         /\ outcome[r] = "done" => LatestHealthy(None)' = Wanted(r)
         /\ outcome[r] = "restored" => LatestHealthy(None)' = LatestHealthy(None)
         /\ Stack!StackNext \/ Tower' = Tower
<1> USE DEF ReleasesInv
<1>1. pc[r] = "record" /\ outcome[r] \in {"done", "restored", "broken"}
  BY DEF Record, OutcomeInv
<1>2. PICK d \in Requests : d = Subject(r)
  BY <1>1, RunnersAreDecided, SubjectIsRequest DEF Undecided
<1>3. Records(d) /\ status' = [status EXCEPT ![d] = EndStatus(r)]
  BY <1>2 DEF Record, Records
<1>4. Healthy' = IF EndStatus(r) = "healthy" THEN Healthy \cup {d} ELSE Healthy \ {d}
  BY <1>3 DEF Healthy, TypeOK
<1>5. CASE Kind[r] = "rollback"
  <2>1. PICK t \in Requests : t = aim[r].to /\ d = aim[r].from
    BY <1>1, <1>2, <1>5, RunnersAreDecided DEF RequestInv, Undecided, Subject
  <2>2. RollbackFits(d, t) /\ Wanted(r) = t
    BY <1>1, <1>5, <2>1 DEF CheckedInv, Wanted
  <2>3. CASE outcome[r] = "restored"
    <3>1. EndStatus(r) = "healthy"
      BY <1>5, <2>3 DEF EndStatus
    <3>2. Healthy' = Healthy /\ IsLatest(d, Healthy)
      BY <1>4, <2>2, <3>1, FitIsLatest
    <3> QED BY <1>3, <2>3, <3>2, Kept
  <2>4. CASE outcome[r] # "restored"
    <3>1. EndStatus(r) \in {"rolled_back", "failed"}
      BY <1>1, <1>5, <2>4 DEF EndStatus
    <3>2. Healthy' = Healthy \ {d}
      BY <1>4, <3>1
    <3>3. OrderInv' /\ LatestHealthy(None)' = t /\ Stack!Pop(d)
      BY <1>3, <2>2, <3>2, Popped
    <3> QED BY <2>2, <2>4, <3>3 DEF Stack!StackNext
  <2> QED BY <2>3, <2>4
<1>6. CASE Kind[r] # "rollback"
  <2>1. d = r /\ Wanted(r) = r
    BY <1>2, <1>6 DEF Subject, Wanted
  <2>2. d \notin Healthy /\ previous[d] = LatestHealthy(None)
    BY <1>1, <1>6, <2>1 DEF CheckedInv, Healthy
  <2>3. CASE outcome[r] = "done"
    <3>1. EndStatus(r) = "healthy"
      BY <1>6, <2>3 DEF EndStatus
    <3>2. Healthy' = Healthy \cup {d}
      BY <1>4, <3>1
    <3>3. OrderInv' /\ LatestHealthy(None)' = d /\ Stack!Push(d)
      BY <1>3, <2>2, <3>2, Pushed
    <3> QED BY <2>1, <2>3, <3>3 DEF Stack!StackNext
  <2>4. CASE outcome[r] # "done"
    <3>1. EndStatus(r) \in {"rolled_back", "failed"}
      BY <1>1, <1>6, <2>4 DEF EndStatus
    <3>2. Healthy' = Healthy
      BY <1>4, <2>2, <3>1
    <3> QED BY <1>3, <2>2, <2>4, <3>2, Kept
  <2> QED BY <2>3, <2>4
<1> QED BY <1>5, <1>6

\* Every step keeps the order, and is a step of the stack or none.
LEMMA StepOrder ==
  ASSUME ReleasesInv, NEW r \in Requests, Steps(r)
  PROVE  OrderInv' /\ (Stack!StackNext \/ Tower' = Tower)
<1>1. CASE Record(r)
  BY <1>1, RecordStep
<1>2. CASE ~Record(r)
  <2>1. Calm
    BY <1>2, CalmSteps DEF ReleasesInv
  <2>2. Tower' = Tower
    BY <2>1 DEF Calm, Tower, Below
  <2> QED BY <2>1, <2>2, CalmKeepsOrder DEF ReleasesInv
<1> QED BY <1>1, <1>2

-----------------------------------------------------------------------------
(* What was checked, and what the server runs.                             *)

\* Nothing that is healthy loses its place to a step of another task.
LEMMA FitsStill ==
  ASSUME TypeOK, OrderInv, Calm, NEW d \in Requests, NEW t \in Requests,
         RollbackFits(d, t)
  PROVE  RollbackFits(d, t)'
<1>1. LatestHealthy(None)' = LatestHealthy(None)
  BY CalmKeepsOrder
<1>2. d \in Healthy /\ t \in Healthy
  BY DEF RollbackFits, Healthy
<1> QED BY <1>1, <1>2 DEF RollbackFits, Calm, Healthy

\* While a remote step runs or its result waits for its record, the other
\* steps leave alone what it is about.
LEMMA BusySteps ==
  ASSUME TypeOK, RequestInv, SingleInv, NEW s \in Requests, pc[s] \in {"remote", "record"},
         NEW r \in Requests, Steps(r), ~Record(r), ~Crash(r)
  PROVE  /\ aim'[s] = aim[s] /\ status'[s] = status[s] /\ previous'[s] = previous[s]
         /\ ~Remote(r) /\ pc[s] = "record" => pc'[s] = pc[s] /\ outcome'[s] = outcome[s]
<1>1. request[s] \notin Undecided
  BY RunnersAreDecided
<1>2. pc[r] # "idle" => r = s
  BY DEF SingleInv
<1>3. CASE Asks(r)
  <2>1. r # s /\ UNCHANGED <<deploymentVars, handlerVars>>
    BY <1>1, <1>3, AskEffect DEF Undecided
  <2>2. PICK x : aim' = aim \/ aim' = [aim EXCEPT ![r] = x]
    BY <1>3, AskEffect
  <2>3. aim'[s] = aim[s]
    BY <2>1, <2>2 DEF TypeOK
  <2> QED BY <2>1, <2>3 DEF deploymentVars, handlerVars
<1>4. CASE Waits(r)
  BY <1>4, WaitEffect DEF deploymentVars, handlerVars
<1>5. CASE Approve(r)
  BY <1>1, <1>5 DEF Approve, Approvable, Insert, handlerVars, Undecided, TypeOK
<1>6. CASE Begin(r)
  BY <1>6, RunnersAreDecided DEF Begin
<1>7. CASE ReportExecuting(r) \/ StartDeployment(r) \/ Report(r) \/ End(r)
  BY <1>2, <1>7 DEF ReportExecuting, StartDeployment, Report, End
<1>8. CASE Moves(r)
  <2>1. pc[r] \in {"check", "remote"} /\ UNCHANGED <<requestVars, deploymentVars>>
    BY <1>8, MoveEffect
  <2> QED BY <1>2, <2>1 DEF requestVars, deploymentVars
<1>9. CASE Remote(r)
  BY <1>9 DEF Remote, requestVars, deploymentVars
<1> QED BY <1>3, <1>4, <1>5, <1>6, <1>7, <1>8, <1>9 DEF Steps

\* What was checked before the remote step holds until its result is recorded.
LEMMA StepChecked ==
  ASSUME ReleasesInv, NEW r \in Requests, Steps(r)
  PROVE  CheckedInv'
<1> USE DEF ReleasesInv
<1> SUFFICES ASSUME NEW s \in Requests, pc'[s] \in {"remote", "record"}
             PROVE  (IF Kind[s] = "rollback"
                     THEN RollbackFits(aim[s].from, aim[s].to)
                     ELSE status[s] = "deploying" /\ previous[s] = LatestHealthy(None))'
  BY DEF CheckedInv
<1> DEFINE d == aim[s].from
           t == aim[s].to
<1>1. ~Record(r) /\ ~Crash(r)
  <2>1. ASSUME Record(r) \/ Crash(r) PROVE FALSE
    <3>1. pc[r] # "idle" /\ pc'[r] \notin {"remote", "record"}
      BY <2>1 DEF Record, Crash, Concludes, GotoWith, TypeOK
    <3>2. pc'[s] = pc[s]
      BY <3>1, OthersWait
    <3> QED BY <3>1, <3>2 DEF SingleInv
  <2> QED BY <2>1
<1>2. Calm /\ LatestHealthy(None)' = LatestHealthy(None)
  BY <1>1, CalmSteps, CalmKeepsOrder
<1>3. CASE pc[s] \in {"remote", "record"}
  <2>1. aim'[s] = aim[s] /\ status'[s] = status[s] /\ previous'[s] = previous[s]
    BY <1>1, <1>3, BusySteps
  <2>2. CASE Kind[s] = "rollback"
    <3>1. d \in Requests /\ t \in Requests
      BY <1>3, <2>2, RunnersAreDecided DEF RequestInv, Undecided
    <3>2. RollbackFits(d, t)
      BY <1>3, <2>2 DEF CheckedInv
    <3>3. \A x, y \in Requests : RollbackFits(x, y) => RollbackFits(x, y)'
      BY <1>2, FitsStill
    <3>4. PICK x, y \in Requests : x = d /\ y = t
      BY <3>1
    <3>5. aim'[s].from = x /\ aim'[s].to = y
      BY <2>1, <3>4
    <3> QED BY <2>2, <3>2, <3>3, <3>4, <3>5 DEF RollbackFits
  <2>3. CASE Kind[s] # "rollback"
    BY <1>2, <1>3, <2>1, <2>3 DEF CheckedInv
  <2> QED BY <2>2, <2>3
<1>4. CASE pc[s] \notin {"remote", "record"}
  <2>1. r = s
    BY <1>4, OthersWait
  <2>2. CASE StartDeployment(r)
    <3>1. r \notin Healthy
      BY <2>2 DEF StartDeployment, OpenStatus, Healthy
    <3>2. LatestHealthy(r) = LatestHealthy(None)
      BY <3>1, LatestIsLatest
    <3> QED BY <1>2, <2>1, <2>2, <3>2 DEF StartDeployment, Insert, TypeOK
  <2>3. CASE Moves(r) /\ Kind[r] = "rollback" /\ RollbackFits(aim[r].from, aim[r].to)
    <3>1. aim' = aim /\ deploymentVars' = deploymentVars
      BY <2>3, MoveEffect DEF requestVars
    <3> QED BY <1>2, <2>1, <2>3, <3>1 DEF RollbackFits, deploymentVars
  <2> QED BY <1>4, <2>1, <2>2, <2>3, OthersWait DEF Remote
<1> QED BY <1>3, <1>4

\* What the database calls the latest is what the server runs.
LEMMA StepServer ==
  ASSUME ReleasesInv, NEW r \in Requests, Steps(r)
  PROVE  ServerInv'
<1> USE DEF ReleasesInv
<1>0. pc \in [Requests -> Location] /\ outcome \in [Requests -> Outcome]
  BY DEF TypeOK
<1>1. \A s \in Requests \ {r} : pc'[s] = pc[s] /\ outcome'[s] = outcome[s]
  BY OthersWait
<1>2. ASSUME pc[r] # "idle", NEW s \in Requests, s # r PROVE pc[s] = "idle" /\ pc'[s] = "idle"
  BY <1>1, <1>2 DEF SingleInv
<1>3. CASE Record(r)
  <2>1. /\ pc[r] = "record" /\ pc'[r] \in {"report", "end"}
        /\ outcome[r] \in {"done", "restored", "broken"}
        /\ live' = live /\ doubt' = doubt
    BY <1>0, <1>3 DEF Record, Concludes, GotoWith, OutcomeInv, serverVars
  <2>2. \A s \in Requests : pc'[s] # "record"
    BY <1>2, <2>1
  <2>3. ASSUME ~doubt PROVE live = LatestHealthy(None)'
    <3>1. CASE outcome[r] = "done"
      BY <1>3, <2>1, <3>1, RecordStep DEF ServerInv, Delivered
    <3>2. CASE outcome[r] = "restored"
      <4>1. \A s \in Requests : ~Delivered(s)
        BY <1>2, <2>1, <3>2 DEF Delivered
      <4> QED BY <1>3, <2>3, <3>2, <4>1, RecordStep DEF ServerInv
    <3>3. CASE outcome[r] = "broken"
      BY <2>1, <2>3, <3>3 DEF ServerInv
    <3> QED BY <2>1, <3>1, <3>2, <3>3
  <2> QED BY <2>1, <2>2, <2>3 DEF ServerInv, Delivered
<1>4. CASE Remote(r)
  <2>1. ~Record(r)
    BY <1>4 DEF Remote, Record
  <2>2. LatestHealthy(None)' = LatestHealthy(None)
    BY <2>1, CalmSteps, CalmKeepsOrder
  <2>3. pc[r] = "remote" /\ pc' = [pc EXCEPT ![r] = "record"] /\ aim' = aim
    BY <1>4 DEF Remote, GotoWith, requestVars
  <2>4. \A s \in Requests : s # r => pc[s] # "record" /\ pc'[s] # "record"
    BY <1>2, <2>3
  <2>5. CASE live' = Wanted(r) /\ outcome' = [outcome EXCEPT ![r] = "done"]
    <3>1. Delivered(r)' /\ pc'[r] = "record" /\ outcome'[r] = "done"
      BY <1>0, <2>3, <2>5 DEF Delivered
    <3>2. Wanted(r)' = Wanted(r)
      BY <2>3 DEF Wanted
    <3> QED BY <2>4, <2>5, <3>1, <3>2 DEF ServerInv, Delivered
  <2>6. CASE live' = live /\ doubt' = doubt /\ outcome' = [outcome EXCEPT ![r] = "restored"]
    <3>1. outcome'[r] = "restored"
      BY <1>0, <2>6
    <3>2. \A s \in Requests : ~Delivered(s)
      BY <2>3, <2>4 DEF Delivered
    <3>3. ~doubt => live = LatestHealthy(None)
      BY <3>2 DEF ServerInv
    <3> QED BY <2>2, <2>4, <2>6, <3>1, <3>3 DEF ServerInv, Delivered
  <2>7. CASE doubt' = TRUE /\ outcome' = [outcome EXCEPT ![r] = "broken"]
    <3>1. outcome'[r] = "broken"
      BY <1>0, <2>7
    <3> QED BY <2>4, <2>7, <3>1 DEF ServerInv, Delivered
  <2> QED BY <1>4, <2>5, <2>6, <2>7 DEF Remote, GotoWith, serverVars
<1>5. CASE Crash(r)
  <2>1. ~Record(r)
    BY <1>5 DEF Crash, Record, Concludes, GotoWith, TypeOK
  <2>2. LatestHealthy(None)' = LatestHealthy(None)
    BY <2>1, CalmSteps, CalmKeepsOrder
  <2>3. pc[r] # "idle" /\ pc'[r] = "idle"
    BY <1>0, <1>5 DEF Crash, GotoWith
  <2>4. \A s \in Requests : pc'[s] # "record"
    BY <1>2, <2>3
  <2>5. ASSUME ~doubt' PROVE live' = LatestHealthy(None)
    <3>1. ~doubt /\ pc[r] \notin {"remote", "record"} /\ live' = live
      BY <1>5, <2>5 DEF Crash
    <3>2. \A s \in Requests : ~Delivered(s)
      BY <1>2, <2>3, <3>1 DEF Delivered
    <3> QED BY <3>1, <3>2 DEF ServerInv
  <2> QED BY <2>2, <2>4, <2>5 DEF ServerInv, Delivered
<1>6. CASE ~Record(r) /\ ~Remote(r) /\ ~Crash(r)
  <2>1. LatestHealthy(None)' = LatestHealthy(None)
    BY <1>6, CalmSteps, CalmKeepsOrder
  <2>2. live' = live /\ doubt' = doubt
    <3>1. CASE Asks(r) \/ Waits(r) \/ Moves(r)
      BY <3>1, AskEffect, WaitEffect, MoveEffect DEF serverVars
    <3>2. CASE Approve(r) \/ Begin(r) \/ ReportExecuting(r) \/ StartDeployment(r)
               \/ Report(r) \/ End(r)
      BY <3>2 DEF Approve, Begin, ReportExecuting, StartDeployment, Report, End, serverVars
    <3> QED BY <1>6, <3>1, <3>2 DEF Steps
  <2>3. ASSUME NEW s \in Requests
        PROVE  /\ pc[s] = "record" => /\ pc'[s] = "record" /\ outcome'[s] = outcome[s]
                                      /\ Wanted(s)' = Wanted(s)
               /\ pc'[s] = "record" => pc[s] = "record" /\ outcome'[s] = outcome[s]
    <3>1. ASSUME pc[s] = "record"
          PROVE  pc'[s] = "record" /\ outcome'[s] = outcome[s] /\ Wanted(s)' = Wanted(s)
      BY <1>6, <3>1, BusySteps DEF Wanted
    <3>2. ASSUME pc'[s] = "record" PROVE pc[s] = "record" /\ outcome'[s] = outcome[s]
      BY <1>6, <3>2, OthersWait
    <3> QED BY <3>1, <3>2
  <2>4. \A s \in Requests : Delivered(s)' <=> Delivered(s)
    BY <2>3 DEF Delivered
  <2>5. ~doubt' /\ (\A s \in Requests : ~Delivered(s)') => live' = LatestHealthy(None)'
    BY <2>1, <2>2, <2>4 DEF ServerInv
  <2>6. \A s \in Requests : Delivered(s)' => live' = Wanted(s)'
    BY <2>2, <2>3, <2>4 DEF ServerInv, Delivered
  <2>7. \A s \in Requests : pc'[s] = "record" /\ outcome'[s] = "broken" => doubt'
    BY <2>2, <2>3 DEF ServerInv
  <2> QED BY <2>5, <2>6, <2>7 DEF ServerInv
<1> QED BY <1>3, <1>4, <1>5, <1>6

-----------------------------------------------------------------------------
(* Theorems.                                                               *)

\* The invariant, all its parts together.
THEOREM ReleasesInvariant == Spec => []ReleasesInv
<1>1. Init => ReleasesInv
  BY InitInv
<1>2. ReleasesInv /\ [Next]_vars => ReleasesInv'
  <2> SUFFICES ASSUME ReleasesInv, [Next]_vars PROVE ReleasesInv'
    OBVIOUS
  <2>1. CASE Next
    <3>1. PICK r \in Requests : Steps(r)
      BY <2>1, NextIsSteps
    <3>2. TypeOK' /\ QueueInv' /\ RequestInv'
      BY <3>1, StepType, StepQueue, StepRequests DEF ReleasesInv
    <3>3. SingleInv' /\ OutcomeInv'
      BY <3>1, StepSingle, OthersWait DEF ReleasesInv
    <3>4. OrderInv' /\ CheckedInv' /\ ServerInv'
      BY <3>1, StepOrder, StepChecked, StepServer
    <3> QED BY <3>2, <3>3, <3>4 DEF ReleasesInv
  <2>2. CASE UNCHANGED vars
    <3> USE <2>2 DEF vars, requestVars, taskVars, deploymentVars, handlerVars, serverVars
    <3>1. Calm
      BY DEF Calm, Healthy
    <3>2. OrderInv' /\ LatestHealthy(None)' = LatestHealthy(None)
      BY <3>1, CalmKeepsOrder DEF ReleasesInv
    <3>3. TypeOK' /\ QueueInv' /\ RequestInv' /\ SingleInv' /\ OutcomeInv'
      BY DEF ReleasesInv, TypeOK, QueueInv, RequestInv, SingleInv, OutcomeInv
    <3>4. CheckedInv'
      BY <3>2 DEF ReleasesInv, CheckedInv, RollbackFits
    <3>5. ServerInv'
      BY <3>2 DEF ReleasesInv, ServerInv, Delivered, Wanted
    <3> QED BY <3>2, <3>3, <3>4, <3>5 DEF ReleasesInv
  <2> QED BY <2>1, <2>2
<1> QED BY <1>1, <1>2, PTL DEF Spec

\* Requests, tasks, deployments and handlers stay within their types, and a
\* handler runs exactly while its task does.
THEOREM ReleaseTypesCorrect == Spec => []TypeOK
<1>1. ReleasesInv => TypeOK
  BY DEF ReleasesInv
<1> QED BY <1>1, ReleasesInvariant, PTL

\* However many approvals, expiries and rejections race, an approved request
\* makes one task and a rejected one none (approvals.py:75).
THEOREM OneTaskPerRequest == Spec => []OneTaskEach
<1>1. ReleasesInv => OneTaskEach
  BY DEF ReleasesInv, TypeOK, QueueInv, OneTaskEach, Undecided, ToSet
<1> QED BY <1>1, ReleasesInvariant, PTL

\* previous_deployment_id retraces the healthy deployments, whatever was
\* deployed, rolled back, retried and lost since (test_approvals.py:226).
THEOREM PreviousRetracesStack == Spec => []PreviousIsBelow
<1>1. ReleasesInv => PreviousIsBelow
  BY DEF ReleasesInv, OrderInv
<1> QED BY <1>1, ReleasesInvariant, PTL

\* Between two tasks the server runs the latest healthy deployment, unless an
\* attempt broke off without restoring it.
THEOREM DatabaseKnowsServer == Spec => []LiveIsLatest
<1>1. ReleasesInv => LiveIsLatest
  BY DEF ReleasesInv, LiveIsLatest, ServerInv, TypeOK, Delivered
<1> QED BY <1>1, ReleasesInvariant, PTL

\* A rollback that goes to the server finds there what it was approved to
\* replace.
THEOREM RollbackMeetsApproval == Spec => []ReplacesWhatWasApproved
<1>1. ReleasesInv => ReplacesWhatWasApproved
  <2> SUFFICES ASSUME ReleasesInv, NEW r \in Requests,
                      Kind[r] = "rollback", pc[r] = "remote", ~doubt
               PROVE  live = aim[r].from
    BY DEF ReplacesWhatWasApproved
  <2>1. LatestHealthy(None) = aim[r].from
    BY DEF ReleasesInv, CheckedInv, RollbackFits
  <2>2. \A s \in Requests : ~Delivered(s)
    BY DEF ReleasesInv, SingleInv, Delivered
  <2> QED BY <2>1, <2>2 DEF ReleasesInv, ServerInv
<1> QED BY <1>1, ReleasesInvariant, PTL

\* The healthy deployments of an environment are a stack: a deployment is put
\* on top, only the top is taken away, and nothing below it changes.
THEOREM HealthyImplementsStack == Spec => HealthyIsStack
<1>1. Init => Stack!StackInit
  BY DEF Init, Healthy, Stack!StackInit
<1>2. ReleasesInv /\ [Next]_vars => [Stack!StackNext]_Tower
  <2> SUFFICES ASSUME ReleasesInv, [Next]_vars PROVE Stack!StackNext \/ Tower' = Tower
    OBVIOUS
  <2>1. CASE Next
    BY <2>1, NextIsSteps, StepOrder
  <2>2. CASE UNCHANGED vars
    BY <2>2 DEF vars, deploymentVars, Tower, Below, Healthy
  <2> QED BY <2>1, <2>2
<1>3. [Stack!StackNext]_Tower => [Stack!StackNext]_([d \in Healthy |-> Below(d)])
  BY DEF Tower
<1> QED BY <1>1, <1>2, <1>3, ReleasesInvariant, PTL DEF Spec, HealthyIsStack, Stack!StackSpec
=============================================================================
