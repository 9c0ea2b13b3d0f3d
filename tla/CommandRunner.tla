--------------------------- MODULE CommandRunner ---------------------------
(***************************************************************************)
(* runner/process.py AsyncCommandRunner.run with the log it writes to: a   *)
(* process group, the two pipes it prints to, a reader for each of them,   *)
(* and the coroutine that waits for the exit, the timeout or a             *)
(* cancellation, terminates the group and returns when the readers have    *)
(* met the end of their pipes.  No caller gives a command input, so the    *)
(* stdin branch is left out.                                               *)
(***************************************************************************)
EXTENDS LogWriter

CONSTANTS
  Leader,        \* the process that is waited for
  Helper,        \* another member of its process group
  Stage,         \* the line the handler logs before it runs the command
  Scripts,       \* what the group may print to each stream
  PipeSize,      \* bytes that a pipe and its StreamReader hold
  ReadSize,      \* bytes that one read() returns at most
  CaptureLimit   \* max_capture_bytes

Members == {Leader, Helper}

ASSUME CommandAssumption ==
  /\ Leader # Helper
  /\ Streams # {}
  /\ Scripts \subseteq [Streams -> Seq(Bytes)] /\ Stage \in Seq(Bytes)
  /\ PipeSize \in Nat \ {0} /\ ReadSize \in Nat \ {0}
  /\ CaptureLimit \in Nat \ {0}

VARIABLES
  at,          \* where run(), or the handler before it, is
  why,         \* what run() has decided: exit, timeout, cancel or raise
  alive,       \* the members that run
  holding,     \* the members whose output goes to the two pipes
  told,        \* the members that were sent SIGTERM
  code,        \* how the leader ended
  seen,        \* the event loop knows the leader's returncode
  script,      \* per stream: what the group prints if it lives long enough
  printed,     \* per stream: how much of it was printed
  taken,       \* per stream: how much of it was read
  reader,      \* per stream: where _drain is
  capture,     \* per stream: the _TailBuffer
  truncated,   \* per stream: its flag
  failed,      \* per client: an append of its raised
  cancelEvent, \* the handler's cancel_event is set
  cancelled    \* the handler's task was cancelled

osVars == <<alive, holding, told, code, script, printed>>
runVars == <<at, why, seen>>
readerVars == <<taken, reader, capture, truncated, failed>>
stopVars == <<cancelEvent, cancelled>>
commandVars == <<osVars, runVars, readerVars, stopVars>>
allVars == <<writerVars, commandVars>>

CommandTypeOK ==
  /\ at \in {"stage", "staging", "waiting", "grace", "killed", "draining",
             "returned", "raised"}
  /\ why \in {"none", "exit", "timeout", "cancel", "raise"}
  /\ alive \subseteq Members /\ told \subseteq Members
  /\ holding \subseteq alive
  /\ code \in {"none", "zero", "nonzero", "killed"}
  /\ seen => code # "none" /\ Leader \notin alive
  /\ reader \in [Streams -> {"off", "reading", "flushing"}]
  /\ \A d \in Streams : /\ printed[d] \in 0..Len(script[d])
                         /\ taken[d] \in 0..printed[d]
                         /\ printed[d] - taken[d] =< PipeSize
  /\ at \in {"draining", "returned"} => seen
  /\ why = "none" <=> at \in {"stage", "staging", "waiting"} \/ (at = "raised" /\ ~seen)

CommandInit ==
  /\ WriterInit
  /\ at = "stage" /\ why = "none" /\ seen = FALSE
  /\ alive = {} /\ holding = {} /\ told = {} /\ code = "none"
  /\ script \in Scripts
  /\ printed = [d \in Streams |-> 0]
  /\ taken = [d \in Streams |-> 0]
  /\ reader = [d \in Streams |-> "off"]
  /\ capture = [d \in Streams |-> <<>>]
  /\ truncated = [d \in Streams |-> FALSE]
  /\ failed = [c \in Clients |-> FALSE]
  /\ cancelEvent = FALSE /\ cancelled = FALSE

-----------------------------------------------------------------------------
(* The handler logs the stage and starts the command.                      *)

LogStage ==
  /\ at = "stage"
  /\ Write(Handler, Stage)
  /\ at' = "staging"
  /\ UNCHANGED <<osVars, why, seen, readerVars, stopVars>>

Start ==
  /\ at = "staging"
  /\ phase[Handler] = "idle"
  /\ IF failed[Handler]
       THEN at' = "raised" /\ UNCHANGED <<alive, holding, reader>>
       ELSE /\ at' = "waiting"
            /\ alive' = Members
            /\ holding' = Members
            /\ reader' = [d \in Streams |-> "reading"]
  /\ UNCHANGED <<writerVars, told, code, script, why, seen, printed,
                 taken, capture, truncated, failed, stopVars>>

-----------------------------------------------------------------------------
(* The process group.  Its members share the two pipes, until they end or  *)
(* close their outputs, as a process that is to live on does.              *)

Emit(d) ==
  /\ holding # {}
  /\ printed[d] < Len(script[d])
  /\ printed[d] - taken[d] < PipeSize
  /\ printed' = [printed EXCEPT ![d] = @ + 1]
  /\ UNCHANGED <<writerVars, alive, holding, told, code, script, runVars,
                 readerVars, stopVars>>

\* A member closes or redirects its outputs.
Redirect(m) ==
  /\ m \in holding
  /\ holding' = holding \ {m}
  /\ UNCHANGED <<writerVars, alive, told, code, script, printed, runVars,
                 readerVars, stopVars>>

\* A member ends by itself or by SIGTERM, which a program may ignore, or
\* answer with any exit code.
End(m) ==
  /\ m \in alive
  /\ alive' = alive \ {m}
  /\ holding' = holding \ {m}
  /\ IF m = Leader
       THEN code' \in {"zero", "nonzero"} \cup (IF m \in told THEN {"killed"} ELSE {})
       ELSE UNCHANGED code
  /\ UNCHANGED <<writerVars, told, script, printed, runVars, readerVars, stopVars>>

\* The child watcher tells the event loop.
Reap ==
  /\ at # "stage" /\ at # "staging"
  /\ Leader \notin alive
  /\ code # "none"
  /\ ~seen
  /\ seen' = TRUE
  /\ UNCHANGED <<writerVars, osVars, at, why, readerVars, stopVars>>

-----------------------------------------------------------------------------
(* run().                                                                  *)

\* asyncio.wait returns because the leader has exited.
Exit ==
  /\ at = "waiting"
  /\ seen
  /\ at' = "draining"
  /\ why' = "exit"
  /\ UNCHANGED <<writerVars, osVars, seen, readerVars, stopVars>>

\* Mutant of Terminate: the result does not remember the reason.
TerminateUnmarked(reason) ==
  /\ why' = "exit"
  /\ IF seen THEN at' = "draining" /\ UNCHANGED told
             ELSE at' = "grace" /\ told' = told \cup alive
  /\ UNCHANGED <<writerVars, alive, holding, code, script, printed, seen, readerVars>>

\* _terminate_process_group up to its first await: SIGTERM to the group,
\* unless the leader's returncode is known.
Terminate(reason) ==
  /\ why' = reason
  /\ IF seen THEN at' = "draining" /\ UNCHANGED told
             ELSE at' = "grace" /\ told' = told \cup alive
  /\ UNCHANGED <<writerVars, alive, holding, code, script, printed, seen, readerVars>>

\* The timer of asyncio.wait and the exit may come in one turn of the loop.
TimeOut ==
  /\ at = "waiting"
  /\ Terminate("timeout")
  /\ UNCHANGED stopVars

CancelSeen ==
  /\ at = "waiting"
  /\ cancelEvent
  /\ Terminate("cancel")
  /\ UNCHANGED stopVars

\* The leader is known to have ended, within the grace or after SIGKILL.  After
\* the grace the rest of the group is left as it is.
Ended ==
  /\ at \in {"grace", "killed"}
  /\ seen
  /\ at' = "draining"
  /\ UNCHANGED <<writerVars, osVars, why, seen, readerVars, stopVars>>

\* The grace is over: SIGKILL to the group.
Kill ==
  /\ at = "grace"
  /\ ~seen
  /\ at' = "killed"
  /\ alive' = {}
  /\ holding' = {}
  /\ code' = IF Leader \in alive THEN "killed" ELSE code
  /\ UNCHANGED <<writerVars, told, script, printed, why, seen, readerVars, stopVars>>

\* Both readers have ended: gather returns, and run() returns or raises.
Drained(d) == reader[d] = "flushing" /\ phase[d] = "idle"

Return ==
  /\ at = "draining"
  /\ \A d \in Streams : Drained(d)
  /\ at' = IF why = "raise" THEN "raised" ELSE "returned"
  /\ UNCHANGED <<writerVars, osVars, why, seen, readerVars, stopVars>>

-----------------------------------------------------------------------------
(* _drain, one for each stream.                                            *)

\* _TailBuffer.append: its content and its flag.
Tailed(value, chunk) ==
  LET all == IF Len(chunk) >= CaptureLimit THEN chunk ELSE value \o chunk
      cut == Max({0, Len(all) - CaptureLimit})
  IN  [value |-> SubSeq(all, cut + 1, Len(all)),
       lost  |-> cut > 0 \/ Len(chunk) >= CaptureLimit]

Read(d) ==
  /\ reader[d] = "reading"
  /\ phase[d] = "idle"
  /\ taken[d] < printed[d]
  /\ LET last  == Min({taken[d] + ReadSize, printed[d]})
         chunk == SubSeq(script[d], taken[d] + 1, last)
         tail  == Tailed(capture[d], chunk)
     IN  /\ taken' = [taken EXCEPT ![d] = last]
         /\ capture' = [capture EXCEPT ![d] = tail.value]
         /\ truncated' = [truncated EXCEPT ![d] = @ \/ tail.lost]
         /\ IF failed[d] THEN UNCHANGED writerVars ELSE Write(d, chunk)
  /\ UNCHANGED <<osVars, runVars, reader, failed, stopVars>>

\* Mutant of EndOfFile: a reader whose log has failed does not go on.
EndOfFileLogged(d) ==
  /\ reader[d] = "reading"
  /\ ~failed[d]
  /\ holding = {}
  /\ taken[d] = printed[d]
  /\ Flush(d)
  /\ reader' = [reader EXCEPT ![d] = "flushing"]
  /\ UNCHANGED <<osVars, runVars, taken, capture, truncated, failed, stopVars>>

\* read() returns b"" when no process holds the pipe.
EndOfFile(d) ==
  /\ reader[d] = "reading"
  /\ holding = {}
  /\ taken[d] = printed[d]
  /\ Flush(d)
  /\ reader' = [reader EXCEPT ![d] = "flushing"]
  /\ UNCHANGED <<osVars, runVars, taken, capture, truncated, failed, stopVars>>

\* The writer goes on for one of its callers.
WriterStep(c) ==
  /\ \/ Enter(c)
     \/ EnterFlush(c)
     \/ Appended(c)
  /\ UNCHANGED commandVars

\* An append raises: a reader goes on without a log, the handler fails.
LogFails(c) ==
  /\ AppendFails(c)
  /\ failed' = [failed EXCEPT ![c] = TRUE]
  /\ UNCHANGED <<osVars, runVars, taken, reader, capture, truncated, stopVars>>

-----------------------------------------------------------------------------
(* Cancellation: the engine sets cancel_event and, when its own grace is   *)
(* over, cancels the handler's task (engine.py _stop_handler).             *)

RequestCancel ==
  /\ ~cancelEvent
  /\ at \in {"waiting", "grace", "killed", "draining"}
  /\ cancelEvent' = TRUE
  /\ UNCHANGED <<writerVars, osVars, runVars, readerVars, cancelled>>

\* CancelledError before the readers are awaited.
CancelTask ==
  /\ cancelEvent /\ ~cancelled
  /\ at \in {"waiting", "grace", "killed"}
  /\ cancelled' = TRUE
  /\ Terminate("raise")
  /\ UNCHANGED cancelEvent

\* CancelledError while gather awaits the readers, which are cancelled with
\* it: a reader flushes its stream unless it was flushing already.
CancelReaders ==
  /\ cancelEvent /\ ~cancelled
  /\ at = "draining"
  /\ cancelled' = TRUE
  /\ why' = "raise"
  /\ stored' \in IF lock = None THEN {stored} ELSE {stored, Storing(lock)}
  /\ lock' = None
  /\ phase' = [c \in Clients |->
                 IF c \in Streams /\ reader[c] = "reading" THEN "closing" ELSE "idle"]
  /\ data' = [c \in Clients |-> <<>>]
  /\ event' = [c \in Clients |-> <<>>]
  /\ failed' = [c \in Clients |-> failed[c] \/ phase[c] # "idle"]
  /\ reader' = [d \in Streams |-> "flushing"]
  /\ UNCHANGED <<pending, written, reported, fed, osVars, at, seen, taken,
                 capture, truncated, cancelEvent>>

-----------------------------------------------------------------------------
CommandNext ==
  \/ LogStage \/ Start
  \/ \E d \in Streams : Emit(d)
  \/ \E m \in Members : End(m) \/ Redirect(m)
  \/ Reap \/ Exit \/ TimeOut \/ CancelSeen \/ Ended \/ Kill \/ Return
  \/ \E d \in Streams : Read(d) \/ EndOfFile(d)
  \/ \E c \in Clients : WriterStep(c) \/ LogFails(c)
  \/ RequestCancel \/ CancelTask \/ CancelReaders

CommandSpec == CommandInit /\ [][CommandNext]_allVars

\* The event loop resumes what it can and timers fire; an append ends, well
\* or badly.  No process need end by itself, nor by SIGTERM.
CommandFairness ==
  /\ WF_allVars(Start \/ Exit \/ TimeOut \/ Ended \/ Kill \/ Return)
  /\ WF_allVars(Reap)
  /\ \A d \in Streams : WF_allVars(Read(d) \/ EndOfFile(d))
  /\ \A c \in Clients : WF_allVars(WriterStep(c) \/ LogFails(c))

FairCommandSpec == CommandSpec /\ CommandFairness

-----------------------------------------------------------------------------
\* What the group has printed to a stream, as far as it was read.
Output(d) == SubSeq(script[d], 1, taken[d])

\* CommandResult.ok.
Ok == at = "returned" /\ why = "exit" /\ code = "zero"

\* A command counts as successful only if it ended and nobody told it to stop,
\* although a process may answer SIGTERM with exit code 0 and the timeout, the
\* cancellation and the exit race (process.py CommandResult.ok, run).
SuccessIsUndisturbed ==
  /\ Ok => told = {}
  /\ at = "returned" => code # "none"

\* What a caller reads as stdout or stderr is the end of what the group
\* printed, and all of it unless the result says that it was truncated,
\* whatever happened to the log (process.py _TailBuffer, _drain).
CaptureIsTail ==
  at = "returned" =>
    \A d \in Streams :
      /\ taken[d] = printed[d]
      /\ IsSuffix(capture[d], Output(d))
      /\ truncated[d] \/ capture[d] = Output(d)

\* At any moment the log of a stream is a prefix of its output as one text
\* with every secret masked, however the output was cut into chunks; and no
\* event shows a secret that can be masked, even after a failed append (logs.py feed, flush).
LogIsRedacted ==
  /\ \A c \in Clients : ~failed[c] => IsPrefix(Log(c), Redact(fed[c]))
  /\ \A i \in DOMAIN stored : \A s \in Maskable : ~Shows(stored[i].text, s)

\* When the command has returned, the log of a stream is complete or the
\* notice says that it is not (process.py _drain, logs.py flush).
LogIsWhole ==
  at = "returned" =>
    \A d \in Streams :
      \/ failed[d]
      \/ Log(d) = Redact(Output(d))
      \/ reported /\ written = MaxTotal

\* The log of a command is a masked prefix of its output, complete or marked,
\* while readers, failures and the limit meet in any order (logs.py, process.py
\* _drain).
LogIsSound ==
  /\ WriterTypeOK /\ CommandTypeOK
  /\ NoticeIsLast
  /\ LogIsRedacted
  /\ LogIsWhole

\* What run() returns is true, whatever races: a success was not disturbed,
\* and the captured output is the end of what was printed (process.py run).
ResultIsTrue ==
  /\ SuccessIsUndisturbed
  /\ CaptureIsTail

\* A process of the group outlives the leader with one of its pipes.  Nothing
\* kills it then (process.py:241 and 251), and the readers are awaited without
\* a bound (process.py:186).
Leftover == Leader \notin alive /\ holding # {}

\* Every command ends, unless such a process lives and holds its pipe for ever:
\* it is stopped when its time is over, and a log that cannot be written, a
\* full pipe or a process that ignores SIGTERM does not keep it from ending.
CommandEnds ==
  \/ at = "waiting" ~> at \in {"returned", "raised"}
  \/ <>[]Leftover
=============================================================================
