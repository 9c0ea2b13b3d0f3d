--------------------------- MODULE TerminalRelay ---------------------------
(***************************************************************************)
(* SSH terminals: one-time tickets and the proxy of the API                *)
(* (api/routes/runner_proxy.py), and the terminal of the Runner            *)
(* (runner/internal_api.py).  A chain of two websockets and an SSH process *)
(* is relayed by two tasks at each hop, the first of which to end ends the *)
(* other.  Input and output are counted; who leaves, and when, is chosen.  *)
(***************************************************************************)
EXTENDS InternalUse, FiniteSets

CONSTANTS
  Tickets,    \* ticket values
  Servers,    \* servers
  Conns,      \* websocket connections of browsers
  MaxTyped,   \* bound: inputs of a browser
  MaxPrinted  \* bound: outputs of a shell

ASSUME TerminalAssumption ==
  "none" \notin Servers /\ MaxTyped \in Nat /\ MaxPrinted \in Nat

VARIABLES
  tickets,  \* the tickets of the API: their servers, or "none"
  issued,   \* tickets that have been issued
  admitted, \* history, per ticket: connections it has admitted
  server,   \* per connection: the server its ticket named, or "none"
  api,      \* per connection: where the proxy is
  runner,   \* per connection: where the Runner's terminal is
  browser,  \* per connection: the browser's end is connected
  link,     \* per connection: the websocket between API and Runner
  shell,    \* per connection: the SSH process
  typed, forwarded, written, \* inputs sent by the browser, the API and to the shell
  printed, sent, shown,      \* outputs of the shell, sent by the Runner and the API
  opened, closed, \* audit rows ssh.terminal.open and .close
  quiet     \* history: the shell ended by itself, all inputs written, none typed since

ticketVars == <<tickets, issued, admitted, server>>
inputVars == <<typed, forwarded, written>>
outputVars == <<printed, sent, shown>>
auditVars == <<opened, closed>>
chainVars == <<api, runner, browser, link, shell>>
vars == <<ticketVars, chainVars, inputVars, outputVars, auditVars, quiet, uses, stops>>

TypeOK ==
  /\ tickets \in [Tickets -> Servers \cup {"none"}]
  /\ issued \subseteq Tickets /\ \A t \in Tickets : tickets[t] # "none" => t \in issued
  /\ admitted \in [Tickets -> SUBSET Conns]
  /\ server \in [Conns -> Servers \cup {"none"}]
  /\ api \in [Conns -> {"off", "connect", "relay", "done"}]
  /\ runner \in [Conns -> {"off", "audit", "open", "relay", "close", "done"}]
  /\ browser \in [Conns -> BOOLEAN]
  /\ link \in [Conns -> {"none", "open", "closed"}]
  /\ shell \in [Conns -> {"none", "open", "exited", "closed"}]
  /\ \A c \in Conns :
       /\ written[c] <= forwarded[c] /\ forwarded[c] <= typed[c] /\ typed[c] \in 0 .. MaxTyped
       /\ shown[c] <= sent[c] /\ sent[c] <= printed[c] /\ printed[c] \in 0 .. MaxPrinted
       /\ link[c] = "open" => api[c] = "relay" /\ runner[c] \notin {"off", "done"}
  /\ opened \in SUBSET Conns /\ closed \in SUBSET Conns /\ quiet \in SUBSET Conns
  /\ uses \in 0 .. MaxUses /\ stops \in 0 .. MaxStops

Init ==
  /\ tickets = [t \in Tickets |-> "none"]
  /\ issued = {}
  /\ admitted = [t \in Tickets |-> {}]
  /\ server = [c \in Conns |-> "none"]
  /\ api = [c \in Conns |-> "off"]
  /\ runner = [c \in Conns |-> "off"]
  /\ browser = [c \in Conns |-> FALSE]
  /\ link = [c \in Conns |-> "none"]
  /\ shell = [c \in Conns |-> "none"]
  /\ typed = [c \in Conns |-> 0] /\ forwarded = typed /\ written = typed
  /\ printed = typed /\ sent = typed /\ shown = typed
  /\ opened = {} /\ closed = {} /\ quiet = {} /\ uses = 0 /\ stops = 0

-----------------------------------------------------------------------------
(* Tickets.                                                                *)

\* create_ssh_session.
Issue(t, s) ==
  /\ t \notin issued
  /\ issued' = issued \cup {t}
  /\ tickets' = [tickets EXCEPT ![t] = s]
  /\ UNCHANGED <<admitted, server, chainVars, inputVars, outputVars, auditVars, quiet, uses, stops>>

\* The minute is over: the ticket is pruned.
Prune(t) ==
  /\ tickets[t] # "none"
  /\ tickets' = [tickets EXCEPT ![t] = "none"]
  /\ UNCHANGED <<issued, admitted, server, chainVars, inputVars, outputVars, auditVars, quiet, uses, stops>>

\* Mutant of Consume: the ticket is checked and stays until it is pruned.
ConsumeKeeping(c, t, s) ==
  /\ api[c] = "off"
  /\ uses < MaxUses /\ uses' = uses + 1
  /\ t \in issued
  /\ IF tickets[t] = s
       THEN /\ admitted' = [admitted EXCEPT ![t] = @ \cup {c}]
            /\ server' = [server EXCEPT ![c] = s]
            /\ browser' = [browser EXCEPT ![c] = TRUE]
            /\ api' = [api EXCEPT ![c] = "connect"]
       ELSE /\ api' = [api EXCEPT ![c] = "done"]
            /\ UNCHANGED <<admitted, server, browser>>
  /\ UNCHANGED <<tickets, issued, runner, link, shell, inputVars, outputVars, auditVars, quiet, stops>>

\* A browser connects with a ticket, for a server; the route of sessions takes
\* the server from the ticket.  The ticket is gone, whether it fits or not.
Consume(c, t, s) ==
  /\ api[c] = "off"
  /\ uses < MaxUses /\ uses' = uses + 1
  /\ t \in issued
  /\ tickets' = [tickets EXCEPT ![t] = "none"]
  /\ IF tickets[t] = s
       THEN /\ admitted' = [admitted EXCEPT ![t] = @ \cup {c}]
            /\ server' = [server EXCEPT ![c] = s]
            /\ browser' = [browser EXCEPT ![c] = TRUE]
            /\ api' = [api EXCEPT ![c] = "connect"]
       ELSE /\ api' = [api EXCEPT ![c] = "done"]
            /\ UNCHANGED <<admitted, server, browser>>
  /\ UNCHANGED <<issued, runner, link, shell, inputVars, outputVars, auditVars, quiet, stops>>

-----------------------------------------------------------------------------
(* The proxy of the API.                                                   *)

\* The upstream connection is made, or it is not: then the browser's is closed.
Connect(c) ==
  /\ api[c] = "connect"
  /\ \/ /\ api' = [api EXCEPT ![c] = "relay"]
        /\ link' = [link EXCEPT ![c] = "open"]
        /\ runner' = [runner EXCEPT ![c] = "audit"]
        /\ UNCHANGED browser
     \/ /\ api' = [api EXCEPT ![c] = "done"]
        /\ browser' = [browser EXCEPT ![c] = FALSE]
        /\ UNCHANGED <<link, runner>>
  /\ UNCHANGED <<ticketVars, shell, inputVars, outputVars, auditVars, quiet, uses, stops>>

\* browser_to_runner forwards an input.
ForwardInput(c) ==
  /\ api[c] = "relay" /\ link[c] = "open"
  /\ forwarded[c] < typed[c]
  /\ forwarded' = [forwarded EXCEPT ![c] = @ + 1]
  /\ UNCHANGED <<ticketVars, chainVars, typed, written, outputVars, auditVars, quiet, uses, stops>>

\* runner_to_browser forwards an output, also one that came before the close.
ForwardOutput(c) ==
  /\ api[c] = "relay" /\ browser[c]
  /\ shown[c] < sent[c]
  /\ shown' = [shown EXCEPT ![c] = @ + 1]
  /\ UNCHANGED <<ticketVars, chainVars, inputVars, printed, sent, auditVars, quiet, uses, stops>>

\* browser_to_runner ends: the browser has left, or a send fails.
InputEnds(c) ==
  \/ ~browser[c]
  \/ link[c] # "open" /\ forwarded[c] < typed[c]

\* runner_to_browser ends: upstream is closed and read, or a send fails.
OutputEnds(c) ==
  \/ link[c] # "open" /\ shown[c] = sent[c]
  \/ ~browser[c] /\ shown[c] < sent[c]

\* One task has ended, the other is cancelled, both connections are closed.
EndProxy(c) ==
  /\ api[c] = "relay"
  /\ InputEnds(c) \/ OutputEnds(c)
  /\ api' = [api EXCEPT ![c] = "done"]
  /\ link' = [link EXCEPT ![c] = "closed"]
  /\ browser' = [browser EXCEPT ![c] = FALSE]
  /\ UNCHANGED <<ticketVars, runner, shell, inputVars, outputVars, auditVars, quiet, uses, stops>>

-----------------------------------------------------------------------------
(* The terminal of the Runner.                                             *)

\* The opening is recorded before anything else; if that fails, there is no
\* terminal and no closing.
AuditOpen(c) ==
  /\ runner[c] = "audit"
  /\ \/ /\ opened' = opened \cup {c}
        /\ runner' = [runner EXCEPT ![c] = "open"]
        /\ UNCHANGED link
     \/ /\ runner' = [runner EXCEPT ![c] = "done"]
        /\ link' = [link EXCEPT ![c] = "closed"]
        /\ UNCHANGED opened
  /\ UNCHANGED <<ticketVars, api, browser, shell, inputVars, outputVars, closed, quiet, uses, stops>>

\* The server is reached and the terminal opened, or not.
OpenShell(c) ==
  /\ runner[c] = "open"
  /\ \/ /\ shell' = [shell EXCEPT ![c] = "open"]
        /\ runner' = [runner EXCEPT ![c] = "relay"]
        /\ UNCHANGED link
     \/ /\ runner' = [runner EXCEPT ![c] = "close"]
        /\ link' = [link EXCEPT ![c] = "closed"]
        /\ UNCHANGED shell
  /\ UNCHANGED <<ticketVars, api, browser, inputVars, outputVars, auditVars, quiet, uses, stops>>

WriteInput(c) ==
  /\ runner[c] = "relay" /\ shell[c] = "open"
  /\ written[c] < forwarded[c]
  /\ written' = [written EXCEPT ![c] = @ + 1]
  /\ UNCHANGED <<ticketVars, chainVars, typed, forwarded, outputVars, auditVars, quiet, uses, stops>>

SendOutput(c) ==
  /\ runner[c] = "relay" /\ link[c] = "open"
  /\ sent[c] < printed[c]
  /\ sent' = [sent EXCEPT ![c] = @ + 1]
  /\ UNCHANGED <<ticketVars, chainVars, inputVars, printed, shown, auditVars, quiet, uses, stops>>

\* Mutant of WebsocketEnds: a disconnect is not noticed.
WebsocketEndsByError(c) == written[c] < forwarded[c]

\* _websocket_to_terminal ends: a disconnect, or an input that cannot be
\* written or understood.
WebsocketEnds(c) == link[c] # "open" \/ written[c] < forwarded[c]

\* _terminal_to_websocket ends: the end of the output, or a send that fails.
TerminalEnds(c) ==
  \/ shell[c] = "exited" /\ sent[c] = printed[c]
  \/ link[c] # "open" /\ sent[c] < printed[c]

\* One task has ended, the other is cancelled; the terminal and the SSH
\* connection are closed, the websocket at once only after an error.
EndTerminal(c) ==
  /\ runner[c] = "relay"
  /\ WebsocketEnds(c) \/ TerminalEnds(c)
  /\ runner' = [runner EXCEPT ![c] = "close"]
  /\ shell' = [shell EXCEPT ![c] = "closed"]
  /\ link' \in {link, [link EXCEPT ![c] = "closed"]}
  /\ UNCHANGED <<ticketVars, api, browser, inputVars, outputVars, auditVars, quiet, uses, stops>>

\* The closing is recorded, where a failure is only logged; then the handler
\* returns, and with it the websocket is closed.
AuditClose(c) ==
  /\ runner[c] = "close"
  /\ closed' \in {closed, closed \cup {c}}
  /\ runner' = [runner EXCEPT ![c] = "done"]
  /\ link' = [link EXCEPT ![c] = "closed"]
  /\ UNCHANGED <<ticketVars, api, browser, shell, inputVars, outputVars, opened, quiet, uses, stops>>

-----------------------------------------------------------------------------
(* The browser, the shell, and what breaks.                                *)

Type(c) ==
  /\ browser[c] /\ api[c] = "relay"
  /\ typed[c] < MaxTyped
  /\ typed' = [typed EXCEPT ![c] = @ + 1]
  /\ quiet' = quiet \ {c}
  /\ UNCHANGED <<ticketVars, chainVars, forwarded, written, outputVars, auditVars, uses, stops>>

Leave(c) ==
  /\ browser[c]
  /\ browser' = [browser EXCEPT ![c] = FALSE]
  /\ quiet' = quiet \ {c}
  /\ UNCHANGED <<ticketVars, api, runner, link, shell, inputVars, outputVars, auditVars, uses, stops>>

PrintOutput(c) ==
  /\ shell[c] = "open"
  /\ printed[c] < MaxPrinted
  /\ printed' = [printed EXCEPT ![c] = @ + 1]
  /\ UNCHANGED <<ticketVars, chainVars, inputVars, sent, shown, auditVars, quiet, uses, stops>>

Exit(c) ==
  /\ shell[c] = "open"
  /\ shell' = [shell EXCEPT ![c] = "exited"]
  /\ quiet' = IF browser[c] /\ link[c] = "open" /\ typed[c] = written[c]
                THEN quiet \cup {c} ELSE quiet
  /\ UNCHANGED <<ticketVars, api, runner, browser, link, inputVars, outputVars, auditVars, uses, stops>>

\* The connection of API and Runner breaks.
Break(c) ==
  /\ link[c] = "open"
  /\ link' = [link EXCEPT ![c] = "closed"]
  /\ quiet' = quiet \ {c}
  /\ UNCHANGED <<ticketVars, api, runner, browser, shell, inputVars, outputVars, auditVars, uses, stops>>

Broken == [c \in Conns |-> IF link[c] = "open" THEN "closed" ELSE link[c]]

\* The API stops: its tickets and connections are gone.
ApiStops ==
  /\ stops < MaxStops /\ stops' = stops + 1
  /\ tickets' = [t \in Tickets |-> "none"]
  /\ api' = [c \in Conns |-> IF api[c] = "off" THEN "off" ELSE "done"]
  /\ browser' = [c \in Conns |-> FALSE]
  /\ link' = Broken
  /\ quiet' = {}
  /\ UNCHANGED <<issued, admitted, server, runner, shell, inputVars, outputVars, auditVars, uses>>

\* The Runner is killed: the connections to it and its shells are gone.
RunnerStops ==
  /\ stops < MaxStops /\ stops' = stops + 1
  /\ runner' = [c \in Conns |-> IF runner[c] = "off" THEN "off" ELSE "done"]
  /\ shell' = [c \in Conns |-> IF shell[c] = "none" THEN "none" ELSE "closed"]
  /\ link' = Broken
  /\ quiet' = {}
  /\ UNCHANGED <<ticketVars, api, browser, inputVars, outputVars, auditVars, uses>>

-----------------------------------------------------------------------------
Proxy(c) == Connect(c) \/ ForwardOutput(c) \/ EndProxy(c)
Terminal(c) ==
  AuditOpen(c) \/ OpenShell(c) \/ SendOutput(c) \/ EndTerminal(c) \/ AuditClose(c)

-----------------------------------------------------------------------------
\* A ticket admits one connection, of however many that present it at the same
\* time (runner_proxy.py _TerminalTickets.consume).
OneConnectionEach ==
  \A t \in Tickets : Cardinality(admitted[t]) <= 1

\* No shell is open without the record of its opening, and none outlives the
\* record of its closing (internal_api.py terminal).
ShellIsAudited ==
  /\ \A c \in Conns : shell[c] \in {"open", "exited"} => c \in opened /\ c \notin closed
  /\ closed \subseteq opened

\* When the shell has ended by itself and the browser neither types nor leaves,
\* all that the shell has printed is shown before the connection is closed.
LastOutputIsShown ==
  \A c \in quiet : api[c] = "done" => shown[c] = printed[c]

\* When one end of the chain is gone or the chain is broken, the other end
\* goes too: no shell is left behind, and no browser waits for ever.
BothEndsGo ==
  \A c \in Conns :
    api[c] # "off" /\ (~browser[c] \/ shell[c] \in {"exited", "closed"} \/ link[c] = "closed")
      ~> ~browser[c] /\ shell[c] \in {"none", "closed"} /\ runner[c] \in {"off", "done"}
=============================================================================
