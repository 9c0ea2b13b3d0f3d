------------------------- MODULE InternalApiProofs -------------------------
(***************************************************************************)
(* Proofs about InternalApi, for any number of tickets, connections and    *)
(* requests, and whenever either process stops.                            *)
(***************************************************************************)
EXTENDS InternalApi, FiniteSetTheorems, TLAPS

-----------------------------------------------------------------------------
(* Terminals: the inductive invariant.                                     *)

\* The counters are functions; TypeOK bounds them point by point.
CounterInv ==
  /\ typed \in [Conns -> Nat] /\ forwarded \in [Conns -> Nat] /\ written \in [Conns -> Nat]
  /\ printed \in [Conns -> Nat] /\ sent \in [Conns -> Nat] /\ shown \in [Conns -> Nat]

\* A ticket that is still in the table has admitted nobody.
TicketInv ==
  \A t \in Tickets :
    /\ t \notin issued \/ tickets[t] # "none" => admitted[t] = {}
    /\ admitted[t] = {} \/ \E c \in Conns : admitted[t] = {c}

\* How far the Runner has come with a connection, and what it has recorded.
ShellInv(c) ==
  /\ api[c] \in {"off", "connect"} => runner[c] = "off"
  /\ runner[c] \in {"open", "relay", "close"} => c \in opened
  /\ shell[c] \in {"open", "exited"} => runner[c] = "relay"
  /\ c \in closed => runner[c] = "done" /\ c \in opened

\* While nobody types or leaves after the shell has ended, nothing but the end
\* of its output can end the chain: the Runner's end only when all is sent, the
\* API's only when all that was sent is shown.
QuietInv(c) ==
  c \in quiet =>
    /\ runner[c] \in {"relay", "close", "done"}
    /\ shell[c] \in {"exited", "closed"}
    /\ api[c] \in {"relay", "done"}
    /\ typed[c] = written[c]
    /\ api[c] = "relay" => browser[c]
    /\ link[c] # "open" \/ runner[c] # "relay" => sent[c] = printed[c]
    /\ api[c] = "done" => shown[c] = printed[c]

TerminalInv ==
  /\ TypeOK /\ CounterInv /\ TicketInv
  /\ \A c \in Conns : ShellInv(c) /\ QuietInv(c)

LEMMA InitTerminal == Init => TerminalInv
<1> SUFFICES ASSUME Init PROVE TerminalInv
  OBVIOUS
<1> USE TerminalAssumption, UseAssumption DEF Init
<1>1. TypeOK
  BY DEF TypeOK
<1>2. CounterInv /\ TicketInv
  BY DEF CounterInv, TicketInv
<1>3. \A c \in Conns : ShellInv(c) /\ QuietInv(c)
  BY DEF ShellInv, QuietInv
<1> QED BY <1>1, <1>2, <1>3 DEF TerminalInv

\* Issuing and pruning a ticket admit nobody.
LEMMA TicketSteps ==
  ASSUME TerminalInv, NEW t \in Tickets, (\E s \in Servers : Issue(t, s)) \/ Prune(t)
  PROVE  TerminalInv'
<1> USE DEF TerminalInv, chainVars, inputVars, outputVars, auditVars
<1>1. UNCHANGED <<admitted, server, chainVars, inputVars, outputVars, auditVars, quiet, uses, stops>>
  BY DEF Issue, Prune
<1>2. TypeOK'
  BY <1>1, TerminalAssumption DEF TypeOK, Issue, Prune
<1>3. TicketInv'
  BY <1>1, TerminalAssumption DEF TypeOK, TicketInv, Issue, Prune
<1>4. CounterInv' /\ \A c \in Conns : (ShellInv(c) /\ QuietInv(c))'
  BY <1>1 DEF CounterInv, ShellInv, QuietInv
<1> QED BY <1>2, <1>3, <1>4

\* A ticket leaves the table with the first connection that presents it.
LEMMA ConsumeStep ==
  ASSUME TerminalInv, NEW c \in Conns, NEW t \in Tickets, NEW s \in Servers, Consume(c, t, s)
  PROVE  TerminalInv'
<1> USE DEF TerminalInv, Consume, inputVars, outputVars, auditVars
<1>1. TypeOK'
  <2>1. uses' \in 0 .. MaxUses /\ stops' \in 0 .. MaxStops
    BY UseAssumption DEF TypeOK
  <2>2. tickets' \in [Tickets -> Servers \cup {"none"}] /\ issued' \subseteq Tickets
    BY DEF TypeOK
  <2>3. \A u \in Tickets : tickets'[u] # "none" => u \in issued'
    BY DEF TypeOK
  <2>4. admitted' \in [Tickets -> SUBSET Conns] /\ server' \in [Conns -> Servers \cup {"none"}]
    BY DEF TypeOK
  <2>5. /\ api' \in [Conns -> {"off", "connect", "relay", "done"}]
        /\ browser' \in [Conns -> BOOLEAN]
    BY DEF TypeOK
  <2>6. \A d \in Conns : link'[d] = "open" => api'[d] = "relay" /\ runner'[d] \notin {"off", "done"}
    BY DEF TypeOK
  <2> QED BY <2>1, <2>2, <2>3, <2>4, <2>5, <2>6 DEF TypeOK
<1>2. TicketInv'
  <2>1. admitted'[t] = admitted[t] \/ (admitted[t] = {} /\ admitted'[t] = {c})
    BY TerminalAssumption DEF TypeOK, TicketInv
  <2>2. t \in issued' /\ tickets'[t] = "none"
    BY DEF TypeOK
  <2>3. issued' = issued /\ t \in issued
    OBVIOUS
  <2>4. ASSUME NEW u \in Tickets
        PROVE  /\ u \notin issued' \/ tickets'[u] # "none" => admitted'[u] = {}
               /\ admitted'[u] = {} \/ \E d \in Conns : admitted'[u] = {d}
    <3>1. CASE u = t
      BY <3>1, <2>1, <2>2 DEF TicketInv
    <3>2. CASE u # t
      <4>1. tickets'[u] = tickets[u] /\ admitted'[u] = admitted[u]
        BY <3>2 DEF TypeOK
      <4> QED BY <4>1, <2>3 DEF TicketInv
    <3> QED BY <3>1, <3>2
  <2> QED BY <2>4 DEF TicketInv
<1>3. CounterInv' /\ \A d \in Conns : (ShellInv(d) /\ QuietInv(d))'
  BY DEF TypeOK, CounterInv, ShellInv, QuietInv
<1> QED BY <1>1, <1>2, <1>3

\* The proxy's own steps, and the browser's input.
LEMMA ProxySteps ==
  ASSUME TerminalInv, NEW c \in Conns, Proxy(c) \/ ForwardInput(c)
  PROVE  TerminalInv'
<1> USE DEF TerminalInv, ticketVars, chainVars, inputVars, outputVars, auditVars
<1>1. TicketInv'
  BY DEF TicketInv, Proxy, Connect, ForwardOutput, EndProxy, ForwardInput
<1>2. CASE Connect(c)
  <2>1. TypeOK'
    <3>1. /\ api' \in [Conns -> {"off", "connect", "relay", "done"}]
          /\ runner' \in [Conns -> {"off", "audit", "open", "relay", "close", "done"}]
          /\ link' \in [Conns -> {"none", "open", "closed"}]
      BY <1>2 DEF Connect, TypeOK
    <3>2. browser' \in [Conns -> BOOLEAN]
      BY <1>2 DEF Connect, TypeOK
    <3>3. \A d \in Conns :
            link'[d] = "open" => api'[d] = "relay" /\ runner'[d] \notin {"off", "done"}
      BY <1>2 DEF Connect, TypeOK
    <3> QED BY <1>2, <3>1, <3>2, <3>3 DEF Connect, TypeOK
  <2>2. CounterInv'
    BY <1>2 DEF Connect, CounterInv
  <2>3. \A d \in Conns : ShellInv(d)'
    BY <1>2 DEF Connect, TypeOK, ShellInv
  <2>4. ASSUME NEW d \in Conns PROVE QuietInv(d)'
    <3>1. CASE d = c
      BY <1>2, <3>1 DEF Connect, QuietInv
    <3>2. CASE d # c
      <4>1. /\ runner'[d] = runner[d] /\ api'[d] = api[d]
            /\ link'[d] = link[d] /\ browser'[d] = browser[d]
        BY <1>2, <3>2 DEF Connect, TypeOK
      <4> QED BY <1>2, <4>1 DEF Connect, QuietInv
    <3> QED BY <3>1, <3>2
  <2> QED BY <1>1, <2>1, <2>2, <2>3, <2>4
<1>3. CASE ForwardOutput(c)
  BY <1>1, <1>3 DEF ForwardOutput, TypeOK, CounterInv, ShellInv, QuietInv
<1>4. CASE EndProxy(c)
  BY <1>1, <1>4 DEF EndProxy, InputEnds, OutputEnds, TypeOK, CounterInv, ShellInv, QuietInv
<1>5. CASE ForwardInput(c)
  BY <1>1, <1>5 DEF ForwardInput, TypeOK, CounterInv, ShellInv, QuietInv
<1> QED BY <1>2, <1>3, <1>4, <1>5 DEF Proxy

\* The steps of the Runner's terminal.
LEMMA TerminalSteps ==
  ASSUME TerminalInv, NEW c \in Conns, Terminal(c) \/ WriteInput(c)
  PROVE  TerminalInv'
<1> USE DEF TerminalInv, ticketVars, chainVars, inputVars, outputVars, auditVars
<1>1. TicketInv'
  BY DEF TicketInv, Terminal, AuditOpen, OpenShell, SendOutput, EndTerminal, AuditClose,
         WriteInput
<1>2. CASE AuditOpen(c)
  BY <1>1, <1>2 DEF AuditOpen, TypeOK, CounterInv, ShellInv, QuietInv
<1>3. CASE OpenShell(c)
  BY <1>1, <1>3 DEF OpenShell, TypeOK, CounterInv, ShellInv, QuietInv
<1>4. CASE SendOutput(c)
  BY <1>1, <1>4 DEF SendOutput, TypeOK, CounterInv, ShellInv, QuietInv
<1>5. CASE EndTerminal(c)
  BY <1>1, <1>5 DEF EndTerminal, WebsocketEnds, TerminalEnds, TypeOK, CounterInv,
                    ShellInv, QuietInv
<1>6. CASE AuditClose(c)
  BY <1>1, <1>6 DEF AuditClose, TypeOK, CounterInv, ShellInv, QuietInv
<1>7. CASE WriteInput(c)
  BY <1>1, <1>7 DEF WriteInput, TypeOK, CounterInv, ShellInv, QuietInv
<1> QED BY <1>2, <1>3, <1>4, <1>5, <1>6, <1>7 DEF Terminal

\* What the browser, the shell and the network do.
LEMMA PeerSteps ==
  ASSUME TerminalInv, NEW c \in Conns,
         Type(c) \/ Leave(c) \/ PrintOutput(c) \/ Exit(c) \/ Break(c)
  PROVE  TerminalInv'
<1> USE DEF TerminalInv, ticketVars, chainVars, inputVars, outputVars, auditVars
<1>1. TicketInv'
  BY DEF TicketInv, Type, Leave, PrintOutput, Exit, Break
<1>2. CASE Type(c)
  BY <1>1, <1>2, TerminalAssumption DEF Type, TypeOK, CounterInv, ShellInv, QuietInv
<1>3. CASE Leave(c)
  BY <1>1, <1>3 DEF Leave, TypeOK, CounterInv, ShellInv, QuietInv
<1>4. CASE PrintOutput(c)
  BY <1>1, <1>4, TerminalAssumption DEF PrintOutput, TypeOK, CounterInv, ShellInv, QuietInv
<1>5. CASE Exit(c)
  BY <1>1, <1>5 DEF Exit, TypeOK, CounterInv, ShellInv, QuietInv
<1>6. CASE Break(c)
  BY <1>1, <1>6 DEF Break, TypeOK, CounterInv, ShellInv, QuietInv
<1> QED BY <1>2, <1>3, <1>4, <1>5, <1>6

\* A stop of either process.
LEMMA StopSteps ==
  ASSUME TerminalInv, ApiStops \/ RunnerStops
  PROVE  TerminalInv'
<1> USE DEF TerminalInv, ticketVars, inputVars, outputVars, auditVars
<1>1. CASE ApiStops
  BY <1>1, UseAssumption DEF ApiStops, Broken, TypeOK, CounterInv, TicketInv, ShellInv,
     QuietInv
<1>2. CASE RunnerStops
  BY <1>2, UseAssumption DEF RunnerStops, Broken, TypeOK, CounterInv, TicketInv, ShellInv,
     QuietInv
<1> QED BY <1>1, <1>2
-----------------------------------------------------------------------------
(* Docker actions.                                                         *)

\* What a step of either process knows of the action.
DockerInv ==
  /\ DockerTypeOK /\ OkIsTrue
  /\ \A q \in Requests :
       /\ dockerApi[q] = "off" => handler[q] = "off" /\ q \notin performed
       /\ dockerApi[q] = "audit" \/ reply[q] = "ok" \/ handler[q] = "audit" => q \in performed
       /\ handler[q] = "act" /\ action[q][2] = "remove" => q \in confirmed
       /\ reply[q] = "ok" => handler[q] = "done"

LEMMA InitDocker == DockerInit => DockerInv
<1> SUFFICES ASSUME DockerInit PROVE DockerInv
  OBVIOUS
<1> USE UseAssumption DEF DockerInit
<1>1. /\ present \subseteq Objects
      /\ running \in BOOLEAN /\ (running => present = Objects)
      /\ "container" \in present => {"volume", "image"} \subseteq present
  BY DEF Objects
<1>2. DockerTypeOK
  BY <1>1 DEF DockerTypeOK
<1>3. OkIsTrue
  BY DEF OkIsTrue
<1> QED BY <1>2, <1>3 DEF DockerInv

\* The steps of the API.
LEMMA AnswerSteps ==
  ASSUME DockerInv, NEW q \in Requests, (\E a \in Actions : Ask(q, a)) \/ Answer(q)
  PROVE  DockerInv'
<1> USE DEF DockerInv, serverVars
<1>1. ASSUME NEW a \in Actions, Ask(q, a) PROVE DockerInv'
  <2>1. DockerTypeOK'
    BY <1>1, UseAssumption DEF Ask, DockerTypeOK
  <2>2. OkIsTrue'
    BY <1>1 DEF Ask, DockerTypeOK, OkIsTrue
  <2> QED BY <1>1, <2>1, <2>2 DEF Ask, DockerTypeOK
<1>2. CASE TakeReply(q)
  BY <1>2 DEF TakeReply, Tell, DockerTypeOK, OkIsTrue
<1>3. CASE AuditRequest(q)
  BY <1>3 DEF AuditRequest, Tell, DockerTypeOK, OkIsTrue
<1>4. CASE WaitFails(q)
  BY <1>4 DEF WaitFails, Tell, DockerTypeOK, OkIsTrue
<1> QED BY <1>1, <1>2, <1>3, <1>4 DEF Answer

\* What is performed keeps the server's objects in order: a container has its
\* volume and its image, and runs only when everything is there.
LEMMA EffectKeepsOrder ==
  ASSUME DockerTypeOK, NEW target, NEW verb, Effect(target, verb)
  PROVE  /\ present' \subseteq Objects
         /\ running' \in BOOLEAN /\ (running' => present' = Objects)
         /\ "container" \in present' => {"volume", "image"} \subseteq present'
<1> USE DEF DockerTypeOK, Objects
<1>1. CASE RemoveObject(target)
  BY <1>1 DEF RemoveObject, InUse
<1>2. CASE ActOnContainer(verb)
  BY <1>2 DEF ActOnContainer
<1>3. CASE ActOnService(verb)
  <2>1. CASE present' = Objects /\ running' = TRUE
    BY <2>1
  <2>2. CASE present' = present \ {"container", "network"} /\ running' = FALSE
    BY <2>2
  <2>3. CASE UNCHANGED <<present, running>>
    BY <2>3
  <2> QED BY <1>3, <2>1, <2>2, <2>3 DEF ActOnService, serverVars
<1> QED BY <1>1, <1>2, <1>3 DEF Effect

\* The steps of the Runner.
LEMMA ExecuteSteps ==
  ASSUME DockerInv, NEW q \in Requests, Execute(q)
  PROVE  DockerInv'
<1> USE DEF DockerInv, serverVars, Goes, Reply
<1>1. CASE Load(q)
  BY <1>1 DEF Load, DockerTypeOK, OkIsTrue
<1>2. CASE Prepare(q)
  BY <1>2 DEF Prepare, DockerTypeOK, OkIsTrue
<1>3. CASE Act(q)
  <2>1. \/ Effect(action[q][1], action[q][2])
        \/ UNCHANGED serverVars
    BY <1>3 DEF Act
  <2>2. DockerTypeOK'
    BY <1>3, <2>1, EffectKeepsOrder DEF Act, DockerTypeOK
  <2>3. OkIsTrue'
    BY <1>3 DEF Act, DockerTypeOK, OkIsTrue
  <2> QED BY <1>3, <2>2, <2>3 DEF Act, DockerTypeOK
<1>4. CASE AuditAction(q)
  BY <1>4 DEF AuditAction, DockerTypeOK, OkIsTrue
<1> QED BY <1>1, <1>2, <1>3, <1>4 DEF Execute

\* A stop of either process.
LEMMA DockerStops ==
  ASSUME DockerInv, DockerApiStops \/ DockerRunnerStops
  PROVE  DockerInv'
<1> USE UseAssumption DEF DockerInv, serverVars, DockerTypeOK, OkIsTrue
<1>1. CASE DockerApiStops
  BY <1>1 DEF DockerApiStops
<1>2. CASE DockerRunnerStops
  BY <1>2 DEF DockerRunnerStops
<1> QED BY <1>1, <1>2

-----------------------------------------------------------------------------
(* Both together.                                                          *)

\* The steps of one relay leave the other's variables alone, except for the
\* count of uses, which the relay that moves keeps within its bound.
LEMMA InternalStep ==
  ASSUME TerminalInv, DockerInv, [InternalNext]_internalVars
  PROVE  (TerminalInv /\ DockerInv)'
<1>1. CASE ServeTerminals /\ UNCHANGED dockerOnly
  <2>1. TerminalInv'
    BY <1>1, TicketSteps, ConsumeStep, ProxySteps, TerminalSteps, PeerSteps
    DEF ServeTerminals
  <2>2. uses' \in 0 .. MaxUses /\ stops' \in 0 .. MaxStops
    BY <2>1 DEF TerminalInv, TypeOK
  <2>3. DockerInv'
    BY <1>1, <2>2 DEF dockerOnly, serverVars, DockerInv, DockerTypeOK, OkIsTrue
  <2> QED BY <2>1, <2>3
<1>2. CASE ServeActions /\ UNCHANGED terminalOnly
  <2>1. DockerInv'
    BY <1>2, AnswerSteps, ExecuteSteps DEF ServeActions
  <2>2. uses' \in 0 .. MaxUses /\ stops' \in 0 .. MaxStops
    BY <2>1 DEF DockerInv, DockerTypeOK
  <2>3. TerminalInv'
    BY <1>2, <2>2 DEF terminalOnly, ticketVars, chainVars, inputVars, outputVars, auditVars,
       TerminalInv, TypeOK, CounterInv, TicketInv, ShellInv, QuietInv
  <2> QED BY <2>1, <2>3
<1>3. CASE ApiStopsForAll \/ RunnerStopsForAll
  BY <1>3, StopSteps, DockerStops DEF ApiStopsForAll, RunnerStopsForAll
<1>4. CASE UNCHANGED internalVars
  <2> USE <1>4 DEF internalVars, vars, dockerVars
  <2>1. TerminalInv'
    BY DEF ticketVars, chainVars, inputVars, outputVars, auditVars, TerminalInv, TypeOK,
       CounterInv, TicketInv, ShellInv, QuietInv
  <2>2. DockerInv'
    BY DEF serverVars, DockerInv, DockerTypeOK, OkIsTrue
  <2> QED BY <2>1, <2>2
<1> QED BY <1>1, <1>2, <1>3, <1>4 DEF InternalNext

\* Of however many browsers that present a ticket one is admitted; a shell is
\* audited; what it printed last is shown (runner_proxy.py _TerminalTickets and
\* _proxy_terminal, internal_api.py terminal).
THEOREM TerminalsStaySound == InternalSpec => []TerminalsAreSound
<1>1. InternalInit => TerminalInv /\ DockerInv
  BY InitTerminal, InitDocker DEF InternalInit
<1>2. TerminalInv /\ DockerInv => TerminalsAreSound
  <2> SUFFICES ASSUME TerminalInv, DockerInv PROVE TerminalsAreSound
    OBVIOUS
  <2>1. OneConnectionEach
    <3> SUFFICES ASSUME NEW t \in Tickets PROVE Cardinality(admitted[t]) <= 1
      BY DEF OneConnectionEach
    <3>1. CASE admitted[t] = {}
      BY <3>1, FS_EmptySet
    <3>2. CASE \E c \in Conns : admitted[t] = {c}
      BY <3>2, FS_Singleton
    <3> QED BY <3>1, <3>2 DEF TerminalInv, TicketInv
  <2>2. ShellIsAudited
    BY DEF TerminalInv, TypeOK, ShellInv, ShellIsAudited
  <2>3. LastOutputIsShown
    BY DEF TerminalInv, TypeOK, QuietInv, LastOutputIsShown
  <2> QED BY <2>1, <2>2, <2>3 DEF TerminalInv, DockerInv, TerminalsAreSound
<1>3. TerminalInv /\ DockerInv /\ [InternalNext]_internalVars => (TerminalInv /\ DockerInv)'
  BY InternalStep
<1> QED BY <1>1, <1>2, <1>3, PTL DEF InternalSpec

\* A user is told "ok" only of what was performed and recorded, although the
\* Runner goes on when the API has given up and either may stop
\* (runner_proxy.py docker_action, internal_api.py docker_action).
THEOREM OkStaysTrue == InternalSpec => []OkIsTrue
<1>1. InternalInit => TerminalInv /\ DockerInv
  BY InitTerminal, InitDocker DEF InternalInit
<1>2. TerminalInv /\ DockerInv /\ [InternalNext]_internalVars => (TerminalInv /\ DockerInv)'
  BY InternalStep
<1>3. DockerInv => OkIsTrue
  BY DEF DockerInv
<1> QED BY <1>1, <1>2, <1>3, PTL DEF InternalSpec
=============================================================================
