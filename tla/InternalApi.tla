---------------------------- MODULE InternalApi ----------------------------
(***************************************************************************)
(* The Runner's internal API and its proxy: terminals and Docker actions   *)
(* are served by the same two processes, and a stop of either hits both.   *)
(***************************************************************************)
EXTENDS TerminalRelay, DockerRelay

internalVars == <<vars, dockerVars>>
terminalOnly == <<ticketVars, chainVars, inputVars, outputVars, auditVars, quiet>>
dockerOnly == <<serverVars, action, confirmed, dockerApi, answer, handler, reply, performed,
                userRows, runnerRows>>

InternalInit == Init /\ DockerInit

ServeTerminals ==
  \/ \E t \in Tickets : (\E s \in Servers : Issue(t, s)) \/ Prune(t)
  \/ \E c \in Conns :
       \/ \E t \in Tickets, s \in Servers : Consume(c, t, s)
       \/ Proxy(c) \/ ForwardInput(c) \/ Terminal(c) \/ WriteInput(c)
       \/ Type(c) \/ Leave(c) \/ PrintOutput(c) \/ Exit(c) \/ Break(c)

ServeActions ==
  \E q \in Requests : (\E a \in Actions : Ask(q, a)) \/ Answer(q) \/ Execute(q)

\* A process stops for both.
ApiStopsForAll == ApiStops /\ DockerApiStops
RunnerStopsForAll == RunnerStops /\ DockerRunnerStops

InternalNext ==
  \/ ServeTerminals /\ UNCHANGED dockerOnly
  \/ ServeActions /\ UNCHANGED terminalOnly
  \/ ApiStopsForAll \/ RunnerStopsForAll

\* The tasks of both relays run.
InternalFairness ==
  \A c \in Conns :
    /\ WF_internalVars((Proxy(c) \/ ForwardInput(c)) /\ UNCHANGED dockerOnly)
    /\ WF_internalVars((Terminal(c) \/ WriteInput(c)) /\ UNCHANGED dockerOnly)

InternalSpec == InternalInit /\ [][InternalNext]_internalVars /\ InternalFairness

-----------------------------------------------------------------------------
\* A ticket admits one connection, of however many that present it; a shell is
\* recorded before it opens and closed before its end is recorded; and what it
\* printed last is shown (runner_proxy.py _TerminalTickets and _proxy_terminal,
\* internal_api.py terminal).
TerminalsAreSound ==
  /\ TypeOK /\ DockerTypeOK
  /\ OneConnectionEach
  /\ ShellIsAudited
  /\ LastOutputIsShown
=============================================================================
