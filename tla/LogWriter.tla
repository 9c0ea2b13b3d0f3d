----------------------------- MODULE LogWriter -----------------------------
(***************************************************************************)
(* runner/logs.py BoundedLogWriter: the log of one task, written by the    *)
(* handler and by the readers of a command's two output streams.  A lock   *)
(* is held from the redaction of a chunk to the last of the appends it     *)
(* leads to; every append is an await that may fail.                       *)
(***************************************************************************)
EXTENDS Redaction, SequencesExt

CONSTANTS
  Streams,   \* the output streams of a command
  Handler,   \* the handler, which writes whole lines and has no stream
  None,
  MaxTotal,  \* max_total_bytes
  MaxEvent   \* max_event_bytes

Clients == Streams \cup {Handler}

ASSUME WriterAssumption ==
  /\ Handler \notin Streams
  /\ None \notin Clients
  /\ MaxTotal \in Nat \ {0}
  /\ MaxEvent \in Nat \ {0}

VARIABLES
  lock,      \* the client that holds the writer's lock
  phase,     \* per client: where its call of write() or flush() is
  data,      \* per client: the chunk that waits, or the redacted rest
  event,     \* per client: the text whose append is awaited
  pending,   \* per client: what its streaming redactor keeps back
  written,   \* written_bytes
  reported,  \* limit_reported
  stored,    \* the events in the store, in order
  fed        \* history, per client: everything it has written

writerVars == <<lock, phase, data, event, pending, written, reported, stored, fed>>

Phase == {"idle", "waiting", "closing", "appending", "marking"}

\* A stored event: the client it came from, its text, and whether it is the
\* notice that further output is omitted.
Text(c, text) == [client |-> c, text |-> text, notice |-> FALSE]
Notice(c) == [client |-> c, text |-> <<>>, notice |-> TRUE]

WriterTypeOK ==
  /\ lock \in Clients \cup {None}
  /\ phase \in [Clients -> Phase]
  /\ written \in 0..MaxTotal
  /\ reported \in BOOLEAN
  /\ DOMAIN data = Clients /\ DOMAIN event = Clients
  /\ DOMAIN pending = Clients /\ DOMAIN fed = Clients
  /\ \A c \in Clients : phase[c] \in {"appending", "marking"} <=> lock = c

WriterInit ==
  /\ lock = None
  /\ phase = [c \in Clients |-> "idle"]
  /\ data = [c \in Clients |-> <<>>]
  /\ event = [c \in Clients |-> <<>>]
  /\ pending = [c \in Clients |-> <<>>]
  /\ written = 0
  /\ reported = FALSE
  /\ stored = <<>>
  /\ fed = [c \in Clients |-> <<>>]

-----------------------------------------------------------------------------
\* write() and flush() up to the lock.
Write(c, chunk) ==
  /\ phase[c] = "idle"
  /\ phase' = [phase EXCEPT ![c] = "waiting"]
  /\ data' = [data EXCEPT ![c] = chunk]
  /\ fed' = [fed EXCEPT ![c] = @ \o chunk]
  /\ UNCHANGED <<lock, event, pending, written, reported, stored>>

Flush(c) ==
  /\ phase[c] = "idle"
  /\ phase' = [phase EXCEPT ![c] = "closing"]
  /\ UNCHANGED <<lock, data, event, pending, written, reported, stored, fed>>

-----------------------------------------------------------------------------
(* _write_redacted and _report_limit_once up to the next await, for a text *)
(* that is still to be written.                                            *)

Leave(c) ==
  /\ lock' = None
  /\ phase' = [phase EXCEPT ![c] = "idle"]
  /\ data' = [data EXCEPT ![c] = <<>>]
  /\ event' = [event EXCEPT ![c] = <<>>]
  /\ UNCHANGED <<written, reported>>

Accept(c, text) ==
  LET n == Min({Len(text), MaxEvent, MaxTotal - written}) IN
  /\ lock' = c
  /\ phase' = [phase EXCEPT ![c] = "appending"]
  /\ event' = [event EXCEPT ![c] = SubSeq(text, 1, n)]
  /\ data' = [data EXCEPT ![c] = SubSeq(text, n + 1, Len(text))]
  /\ written' = written + n
  /\ UNCHANGED reported

Announce(c) ==
  /\ lock' = c
  /\ phase' = [phase EXCEPT ![c] = "marking"]
  /\ data' = [data EXCEPT ![c] = <<>>]
  /\ event' = [event EXCEPT ![c] = <<>>]
  /\ reported' = TRUE
  /\ UNCHANGED written

Proceed(c, text) ==
  \/ text = <<>> /\ Leave(c)
  \/ text # <<>> /\ written < MaxTotal /\ Accept(c, text)
  \/ text # <<>> /\ written >= MaxTotal /\ ~reported /\ Announce(c)
  \/ text # <<>> /\ written >= MaxTotal /\ reported /\ Leave(c)

\* The lock is granted: the chunk is redacted, by the stream's redactor or,
\* for a line of the handler, as a whole.
Enter(c) ==
  /\ lock = None
  /\ phase[c] = "waiting"
  /\ LET redacted == IF c = Handler THEN [text |-> Redact(data[c]), rest |-> <<>>]
                     ELSE Feed(pending[c], data[c])
     IN  /\ pending' = [pending EXCEPT ![c] = redacted.rest]
         /\ Proceed(c, redacted.text)
  /\ UNCHANGED <<stored, fed>>

\* The same for flush(), which redacts what the stream kept back.
EnterFlush(c) ==
  /\ lock = None
  /\ phase[c] = "closing"
  /\ pending' = [pending EXCEPT ![c] = <<>>]
  /\ Proceed(c, Redact(pending[c]))
  /\ UNCHANGED <<stored, fed>>

\* What the store has when the awaited append took effect.
Storing(c) ==
  Append(stored, IF phase[c] = "marking" THEN Notice(c) ELSE Text(c, event[c]))

\* store.append returned.
Appended(c) ==
  /\ lock = c
  /\ stored' = Storing(c)
  /\ Proceed(c, data[c])
  /\ UNCHANGED <<pending, fed>>

\* store.append raised, before or after the event was committed: the call
\* raises, and the bytes stay counted.
AppendFails(c) ==
  /\ lock = c
  /\ stored' \in {stored, Storing(c)}
  /\ Leave(c)
  /\ UNCHANGED <<pending, fed>>

-----------------------------------------------------------------------------
\* What was stored of the client's output.
Log(c) == FlattenSeq([i \in DOMAIN stored |->
                        IF stored[i].client = c THEN stored[i].text ELSE <<>>])

\* The log holds at most max_total_bytes, and the notice that more was
\* omitted, if it is there, is its last event: nothing is written after it
\* and it is not written twice, although clients meet the limit side by side
\* and any append may fail (logs.py _write_redacted, _report_limit_once).
NoticeIsLast ==
  /\ written =< MaxTotal
  /\ \A i \in DOMAIN stored : stored[i].notice => i = Len(stored)
=============================================================================
