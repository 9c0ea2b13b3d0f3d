---------------------------- MODULE DockerRelay ----------------------------
(***************************************************************************)
(* Docker actions that a user asks the API for, the API the Runner, and    *)
(* the Runner the Docker of a server (api/routes/runner_proxy.py,          *)
(* runner/internal_api.py, runner/docker.py): one Compose service with its *)
(* container, and the volume, image and network that it uses.  The API     *)
(* waits twenty seconds for the Runner, whose handler goes on when nobody  *)
(* waits for it any more.  No lease is taken.                              *)
(***************************************************************************)
EXTENDS InternalUse

CONSTANT Requests  \* requests of users

Objects == {"container", "volume", "image", "network"}
Actions ==
  ({"container"} \X {"start", "stop", "restart"}) \cup (Objects \X {"remove"})
  \cup ({"compose"} \X {"up", "down", "restart"})
NoAction == <<"none", "none">>

VARIABLES
  present,   \* the objects that exist on the server
  running,   \* the container runs
  action,    \* per request: what is asked for, or NoAction
  confirmed, \* requests whose confirmation is the name of the object
  dockerApi, \* per request: where the API's handler is
  answer,    \* per request: what the user has been told
  handler,   \* per request: where the Runner's handler is
  reply,     \* per request: what the Runner has answered
  performed, \* history: requests whose action Docker has performed
  userRows, runnerRows \* requests with an audit row of the API, of the Runner

serverVars == <<present, running>>
dockerVars == <<serverVars, action, confirmed, dockerApi, answer, handler, reply, performed,
                userRows, runnerRows, uses, stops>>

DockerTypeOK ==
  /\ present \subseteq Objects
  /\ running \in BOOLEAN /\ (running => present = Objects)
  /\ "container" \in present => {"volume", "image"} \subseteq present
  /\ action \in [Requests -> Actions \cup {NoAction}]
  /\ dockerApi \in [Requests -> {"off", "wait", "audit", "done"}]
  /\ answer \in [Requests -> {"none", "ok", "refused", "unavailable", "error"}]
  /\ handler \in [Requests -> {"off", "load", "prepare", "act", "audit", "done"}]
  /\ reply \in [Requests -> {"none", "ok", "refused"}]
  /\ confirmed \subseteq Requests /\ performed \subseteq Requests
  /\ userRows \subseteq Requests /\ runnerRows \subseteq Requests
  /\ uses \in 0 .. MaxUses /\ stops \in 0 .. MaxStops

\* Requests come when the service runs, is stopped, or has been taken down.
DockerInit ==
  /\ \/ present = Objects /\ running \in BOOLEAN
     \/ present = {"volume", "image"} /\ running = FALSE
  /\ action = [q \in Requests |-> NoAction]
  /\ dockerApi = [q \in Requests |-> "off"]
  /\ answer = [q \in Requests |-> "none"]
  /\ handler = [q \in Requests |-> "off"]
  /\ reply = [q \in Requests |-> "none"]
  /\ confirmed = {} /\ performed = {} /\ userRows = {} /\ runnerRows = {}
  /\ uses = 0 /\ stops = 0

-----------------------------------------------------------------------------
(* The API.                                                                *)

\* docker_action of the API: the server is known, the action too.
Ask(q, a) ==
  /\ dockerApi[q] = "off"
  /\ uses + ActionUses <= MaxUses /\ uses' = uses + ActionUses
  /\ action' = [action EXCEPT ![q] = a]
  /\ \/ confirmed' = confirmed \cup {q}
     \/ a[2] = "remove" /\ UNCHANGED confirmed
  /\ dockerApi' = [dockerApi EXCEPT ![q] = "wait"]
  /\ handler' = [handler EXCEPT ![q] = "load"]
  /\ UNCHANGED <<serverVars, answer, reply, performed, userRows, runnerRows, stops>>

Tell(q, what) ==
  /\ answer' = [answer EXCEPT ![q] = what]
  /\ dockerApi' = [dockerApi EXCEPT ![q] = "done"]

\* The Runner does not answer in twenty seconds, or cannot be reached.
WaitFails(q) ==
  /\ dockerApi[q] = "wait"
  /\ Tell(q, "unavailable")
  /\ UNCHANGED <<serverVars, action, confirmed, handler, reply, performed, userRows,
                 runnerRows, uses, stops>>

\* Mutant of TakeReply: every reply is a success.
TakeAnyReply(q) ==
  /\ dockerApi[q] = "wait"
  /\ reply[q] # "none"
  /\ dockerApi' = [dockerApi EXCEPT ![q] = "audit"]
  /\ UNCHANGED <<serverVars, action, confirmed, answer, handler, reply, performed, userRows,
                 runnerRows, uses, stops>>

TakeReply(q) ==
  /\ dockerApi[q] = "wait"
  /\ \/ /\ reply[q] = "ok"
        /\ dockerApi' = [dockerApi EXCEPT ![q] = "audit"]
        /\ UNCHANGED answer
     \/ reply[q] = "refused" /\ Tell(q, "refused")
  /\ UNCHANGED <<serverVars, action, confirmed, handler, reply, performed, userRows,
                 runnerRows, uses, stops>>

\* The audit row is committed and the user told, or the request fails.
AuditRequest(q) ==
  /\ dockerApi[q] = "audit"
  /\ \/ userRows' = userRows \cup {q} /\ Tell(q, "ok")
     \/ UNCHANGED userRows /\ Tell(q, "error")
  /\ UNCHANGED <<serverVars, action, confirmed, handler, reply, performed, runnerRows,
                 uses, stops>>

-----------------------------------------------------------------------------
(* The Runner.                                                             *)

Reply(q, what) ==
  /\ reply' = [reply EXCEPT ![q] = what]
  /\ handler' = [handler EXCEPT ![q] = "done"]

Goes(q, to) ==
  handler' = [handler EXCEPT ![q] = to] /\ UNCHANGED reply

\* The server is loaded and connected to, or not.
Load(q) ==
  /\ handler[q] = "load"
  /\ Goes(q, "prepare") \/ Reply(q, "refused")
  /\ UNCHANGED <<serverVars, action, confirmed, dockerApi, answer, performed, userRows,
                 runnerRows, uses, stops>>

\* What Docker reports as the users of an object.
InUse(o) == IF o \in {"container", "network"} THEN running ELSE "container" \in present

\* The Runner looks before it removes; a container and a network are inspected,
\* for which they must be there.
MayRemove(o) ==
  /\ ~InUse(o)
  /\ o \in {"container", "network"} => o \in present

\* A removal must be confirmed and without users, the environment of a Compose
\* action known; a container is started or stopped at once.
Prepare(q) ==
  /\ handler[q] = "prepare"
  /\ LET target == action[q][1] IN
     \/ action[q][2] # "remove" /\ Goes(q, "act")
     \/ action[q][2] = "remove" /\ q \in confirmed /\ MayRemove(target) /\ Goes(q, "act")
     \/ action[q][2] = "remove" /\ ~(q \in confirmed /\ MayRemove(target)) /\ Reply(q, "refused")
     \/ target = "compose" /\ Reply(q, "refused")
  /\ UNCHANGED <<serverVars, action, confirmed, dockerApi, answer, performed, userRows,
                 runnerRows, uses, stops>>

\* docker container start, stop and restart; a container needs its network.
ActOnContainer(verb) ==
  /\ IF verb = "stop" THEN "container" \in present ELSE present = Objects
  /\ running' = (verb # "stop")
  /\ UNCHANGED present

\* docker rm: Docker itself removes nothing that is used.
RemoveObject(o) ==
  /\ o \in present /\ ~InUse(o)
  /\ present' = present \ {o}
  /\ UNCHANGED running

\* docker compose up, down and restart, which without containers does nothing.
ActOnService(verb) ==
  \/ verb = "up" /\ present' = Objects /\ running' = TRUE
  \/ verb = "down" /\ present' = present \ {"container", "network"} /\ running' = FALSE
  \/ verb = "restart" /\ present = Objects /\ running' = TRUE /\ UNCHANGED present
  \/ verb = "restart" /\ "container" \notin present /\ UNCHANGED serverVars

Effect(target, verb) ==
  \/ verb = "remove" /\ RemoveObject(target)
  \/ target = "container" /\ verb # "remove" /\ ActOnContainer(verb)
  \/ target = "compose" /\ ActOnService(verb)

\* Docker performs the action, after which the connection may fail, or refuses.
Act(q) ==
  /\ handler[q] = "act"
  /\ \/ /\ Effect(action[q][1], action[q][2])
        /\ performed' = performed \cup {q}
        /\ Goes(q, "audit") \/ Reply(q, "refused")
     \/ Reply(q, "refused") /\ UNCHANGED <<serverVars, performed>>
  /\ UNCHANGED <<action, confirmed, dockerApi, answer, userRows, runnerRows, uses, stops>>

\* A failure of the Runner's own audit row is only logged.
AuditAction(q) ==
  /\ handler[q] = "audit"
  /\ runnerRows' \in {runnerRows, runnerRows \cup {q}}
  /\ Reply(q, "ok")
  /\ UNCHANGED <<serverVars, action, confirmed, dockerApi, answer, performed, userRows,
                 uses, stops>>

-----------------------------------------------------------------------------
\* The API stops: nobody is told anything any more.
DockerApiStops ==
  /\ stops < MaxStops /\ stops' = stops + 1
  /\ dockerApi' = [q \in Requests |-> IF dockerApi[q] = "off" THEN "off" ELSE "done"]
  /\ UNCHANGED <<serverVars, action, confirmed, answer, handler, reply, performed, userRows,
                 runnerRows, uses>>

\* The Runner stops, and with it its handlers.
DockerRunnerStops ==
  /\ stops < MaxStops /\ stops' = stops + 1
  /\ handler' = [q \in Requests |-> IF handler[q] = "off" THEN "off" ELSE "done"]
  /\ UNCHANGED <<serverVars, action, confirmed, dockerApi, answer, reply, performed, userRows,
                 runnerRows, uses>>

Answer(q) == TakeReply(q) \/ AuditRequest(q) \/ WaitFails(q)
Execute(q) == Load(q) \/ Prepare(q) \/ Act(q) \/ AuditAction(q)

-----------------------------------------------------------------------------
\* A user who is told "ok" asked for something that has been performed and is
\* recorded with the user's name, and what is recorded has been performed; a
\* removal was confirmed (runner_proxy.py docker_action, internal_api.py
\* docker_action and docker.py remove_container).
OkIsTrue ==
  /\ \A q \in Requests : answer[q] = "ok" => q \in performed \cap userRows
  /\ userRows \cup runnerRows \subseteq performed
  /\ \A q \in performed : action[q][2] = "remove" => q \in confirmed
=============================================================================
