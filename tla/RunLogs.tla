------------------------------ MODULE RunLogs ------------------------------
(***************************************************************************)
(* The log lines of one run: runner/store.py SQLAlchemyLogStore.append,    *)
(* cancel_run and the readers of api/routes/pipelines.py.  Runner          *)
(* processes and the API number the lines by max(sequence) + 1, a SELECT   *)
(* and an INSERT with the transactions of others between them; a unique    *)
(* constraint decides.  A reader polls for rows above its cursor, reads    *)
(* the run's status in a statement of its own, and resumes a broken stream *)
(* after the last event it has received.                                   *)
(***************************************************************************)
EXTENDS Naturals, Sequences, FiniteSetsExt

CONSTANTS
  Runners,    \* Runner processes that log for the run; one appends at a time
  Owner,      \* the Runner whose handler runs; the others' leases are lost
  Readers,    \* clients of the event stream
  Batch,      \* sse_batch_size
  MaxLines,   \* bound, per Runner: lines it logs
  MaxCancels, \* bound: cancel requests
  MaxBreaks   \* bound: broken connections

ASSUME LogsAssumption ==
  /\ Owner \in Runners /\ "api" \notin Runners
  /\ Batch \in Nat \ {0}
  /\ MaxLines \in [Runners -> Nat] /\ MaxCancels \in Nat /\ MaxBreaks \in Nat

\* A line is named by who wrote it and a number; the API has the name "api".
Line ==
  [by : {"api"}, nr : 0 .. MaxCancels]
    \cup UNION {[by : {w}, nr : 1 .. MaxLines[w]] : w \in Runners}
Event == [id : Nat, line : Line]
Attempts == 3

VARIABLES
  rows,     \* run_logs: from sequence numbers to lines
  ended,    \* the run's status is terminal
  handler,  \* the owner's handler: "waiting" while the run is queued, "working", "done"
  pc,       \* per Runner: where append() is
  number,   \* per Runner: the sequence number it has read
  tries,    \* per Runner: inserts that failed for this line
  begun,    \* per Runner: lines it has begun to append
  failed,   \* history, per Runner: lines whose append raised
  foreign,  \* history, per Runner: rows that others added since append began
  found,    \* the run's status read by the cancel request in progress
  cancel,   \* the sequence number it has read, 0 if none
  cancels,  \* cancel requests so far
  at,       \* per reader: where its event stream is
  batch,    \* per reader: the sequence numbers that were read
  received, \* per reader: the events it has received
  breaks    \* broken connections so far

appendVars == <<pc, number, tries, begun, failed, foreign>>
runVars == <<ended, handler>>
cancelVars == <<found, cancel, cancels>>
readerVars == <<at, batch, received, breaks>>
vars == <<rows, runVars, appendVars, cancelVars, readerVars>>

TypeOK ==
  /\ rows \in [1 .. Cardinality(DOMAIN rows) -> Line]
  /\ ended \in BOOLEAN /\ handler \in {"waiting", "working", "done"}
  /\ pc \in [Runners -> {"idle", "insert", "number", "file"}]
  /\ number \in [Runners -> Nat]
  /\ tries \in [Runners -> 0 .. Attempts - 1]
  /\ \A w \in Runners : begun[w] \in 0 .. MaxLines[w]
  /\ failed \in [Runners -> SUBSET Nat]
  /\ foreign \in [Runners -> Nat]
  /\ found \in {"none", "queued", "running"}
  /\ cancel \in Nat /\ cancels \in 0 .. MaxCancels
  /\ at \in [Readers -> {"off", "poll", "status", "end"}]
  /\ received \in [Readers -> Seq(Event)]
  /\ batch \in [Readers -> SUBSET DOMAIN rows]
  /\ breaks \in 0 .. MaxBreaks

\* enqueue_pipeline has committed the run with its first line.
Init ==
  /\ rows = [n \in {1} |-> [by |-> "api", nr |-> 0]]
  /\ ended = FALSE /\ handler = "waiting"
  /\ pc = [w \in Runners |-> "idle"]
  /\ number = [w \in Runners |-> 0]
  /\ tries = [w \in Runners |-> 0]
  /\ begun = [w \in Runners |-> 0]
  /\ failed = [w \in Runners |-> {}]
  /\ foreign = [w \in Runners |-> 0]
  /\ found = "none" /\ cancel = 0 /\ cancels = 0
  /\ at = [r \in Readers |-> "off"]
  /\ batch = [r \in Readers |-> {}]
  /\ received = [r \in Readers |-> <<>>]
  /\ breaks = 0

-----------------------------------------------------------------------------
\* select(func.max(RunLog.sequence)), plus one.
NextNumber == Max(DOMAIN rows \cup {0}) + 1

\* INSERT of a row; the appends of others have lost a number.
InsertRow(n, line) ==
  /\ rows' = [k \in DOMAIN rows \cup {n} |-> IF k = n THEN line ELSE rows[k]]
  /\ foreign' = [w \in Runners |->
       IF w # line.by /\ pc[w] \in {"number", "insert"} THEN foreign[w] + 1 ELSE 0]

Begin(w) ==
  /\ pc[w] = "idle"
  /\ begun[w] < MaxLines[w]
  /\ w = Owner => handler = "working"
  /\ begun' = [begun EXCEPT ![w] = @ + 1]
  /\ pc' = [pc EXCEPT ![w] = "number"]
  /\ UNCHANGED <<rows, runVars, number, tries, failed, foreign, cancelVars, readerVars>>

ReadNumber(w) ==
  /\ pc[w] = "number"
  /\ number' = [number EXCEPT ![w] = NextNumber]
  /\ pc' = [pc EXCEPT ![w] = "insert"]
  /\ UNCHANGED <<rows, runVars, tries, begun, failed, foreign, cancelVars, readerVars>>

Stored(w) ==
  /\ InsertRow(number[w], [by |-> w, nr |-> begun[w]])
  /\ pc' = [pc EXCEPT ![w] = "file"]
  /\ number' = [number EXCEPT ![w] = 0]
  /\ tries' = [tries EXCEPT ![w] = 0]
  /\ UNCHANGED <<runVars, begun, failed, cancelVars, readerVars>>

\* Mutant of Insert: the constraint is missing.
InsertOver(w) ==
  /\ pc[w] = "insert"
  /\ Stored(w)

Insert(w) ==
  /\ pc[w] = "insert"
  /\ number[w] \notin DOMAIN rows
  /\ Stored(w)

\* The locals of append are gone.
Leave(w) ==
  /\ pc' = [pc EXCEPT ![w] = "idle"]
  /\ number' = [number EXCEPT ![w] = 0]
  /\ tries' = [tries EXCEPT ![w] = 0]
  /\ foreign' = [foreign EXCEPT ![w] = 0]
  /\ UNCHANGED <<rows, runVars, begun, cancelVars, readerVars>>

\* IntegrityError: the number is read once more.
Retry(w) ==
  /\ pc[w] = "insert"
  /\ number[w] \in DOMAIN rows
  /\ tries[w] + 1 < Attempts
  /\ tries' = [tries EXCEPT ![w] = @ + 1]
  /\ pc' = [pc EXCEPT ![w] = "number"]
  /\ number' = [number EXCEPT ![w] = 0]
  /\ UNCHANGED <<rows, runVars, begun, failed, foreign, cancelVars, readerVars>>

\* The last IntegrityError is raised: the line is lost.
GiveUp(w) ==
  /\ pc[w] = "insert"
  /\ number[w] \in DOMAIN rows
  /\ tries[w] + 1 = Attempts
  /\ failed' = [failed EXCEPT ![w] = @ \cup {begun[w]}]
  /\ Leave(w)

\* The line goes to the JSONL file too, whose content is left out; a failure
\* is only logged.
AppendFile(w) ==
  /\ pc[w] = "file"
  /\ Leave(w)
  /\ UNCHANGED failed

\* The handler is stopped while it logs: the line is stored or it is not.
Cancelled(w) ==
  /\ pc[w] \in {"number", "insert"}
  /\ Leave(w)
  /\ UNCHANGED failed

\* mark_running: the owner's handler begins, if the run was cancelled
\* meanwhile too.
Start ==
  /\ handler = "waiting"
  /\ handler' = "working"
  /\ UNCHANGED <<rows, ended, appendVars, cancelVars, readerVars>>

\* finish: the owner's handler has ended.
Finish ==
  /\ handler = "working"
  /\ pc[Owner] = "idle"
  /\ handler' = "done"
  /\ ended' = TRUE
  /\ UNCHANGED <<rows, appendVars, cancelVars, readerVars>>

-----------------------------------------------------------------------------
\* cancel_run refuses a terminal run and remembers whether it was queued.
CancelBegin ==
  /\ found = "none"
  /\ cancels < MaxCancels
  /\ ~ended
  /\ found' = IF handler = "waiting" THEN "queued" ELSE "running"
  /\ cancels' = cancels + 1
  /\ UNCHANGED <<rows, runVars, appendVars, cancel, readerVars>>

CancelRead ==
  /\ found # "none"
  /\ cancel = 0
  /\ cancel' = NextNumber
  /\ UNCHANGED <<rows, runVars, appendVars, found, cancels, readerVars>>

\* Run, task, line and audit are committed together.  A run that was found
\* queued is terminal then; its task is cancelled if it is not leased yet.
\* The number is not tried again: if it is taken, the request fails.
CancelWrite ==
  /\ cancel # 0
  /\ IF cancel \in DOMAIN rows
       THEN UNCHANGED <<rows, foreign, runVars>>
       ELSE /\ InsertRow(cancel, [by |-> "api", nr |-> cancels])
            /\ ended' = (ended \/ found = "queued")
            /\ \/ UNCHANGED handler
               \/ found = "queued" /\ handler = "waiting" /\ handler' = "done"
  /\ found' = "none" /\ cancel' = 0
  /\ UNCHANGED <<pc, number, tries, begun, failed, cancels, readerVars>>

-----------------------------------------------------------------------------
(* The event stream.                                                       *)

\* The cursor of a stream is the id of the last event its client has.
Cursor(r) == IF received[r] = <<>> THEN 0 ELSE received[r][Len(received[r])].id

Above(cursor) == {n \in DOMAIN rows : n > cursor}

\* Mutant of FirstRows: the newest rows instead of the oldest.
NewestRows(S, k) ==
  {n \in S : Cardinality({m \in S : m > n}) < k}

\* ORDER BY sequence LIMIT k.
FirstRows(S, k) ==
  {n \in S : Cardinality({m \in S : m < n}) < k}

\* The client connects, or reconnects with Last-Event-ID.
Connect(r) ==
  /\ at[r] = "off"
  /\ at' = [at EXCEPT ![r] = "poll"]
  /\ UNCHANGED <<rows, runVars, appendVars, cancelVars, batch, received, breaks>>

PollRows(r) ==
  /\ at[r] = "poll"
  /\ batch' = [batch EXCEPT ![r] = FirstRows(Above(Cursor(r)), Batch)]
  /\ at' = [at EXCEPT ![r] = "status"]
  /\ UNCHANGED <<rows, runVars, appendVars, cancelVars, received, breaks>>

\* The i-th of some sequence numbers.
Ith(S, i) == CHOOSE n \in S : Cardinality({m \in S : m < n}) = i - 1

\* The k first rows of the batch reach the client.
Deliver(r, k) ==
  received' = [received EXCEPT ![r] = @ \o
    [i \in 1 .. k |-> [id |-> Ith(batch[r], i), line |-> rows[Ith(batch[r], i)]]]]

\* Mutant of PollStatus: the end is sent after rows instead of after none.
PollStatusAfterRows(r) ==
  /\ at[r] = "status"
  /\ Deliver(r, Cardinality(batch[r]))
  /\ at' = [at EXCEPT ![r] = IF batch[r] # {} /\ ended THEN "end" ELSE "poll"]
  /\ batch' = [batch EXCEPT ![r] = {}]
  /\ UNCHANGED <<rows, runVars, appendVars, cancelVars, breaks>>

\* The status is read; rows are sent, or the end, or nothing.
PollStatus(r) ==
  /\ at[r] = "status"
  /\ Deliver(r, Cardinality(batch[r]))
  /\ at' = [at EXCEPT ![r] = IF batch[r] = {} /\ ended THEN "end" ELSE "poll"]
  /\ batch' = [batch EXCEPT ![r] = {}]
  /\ UNCHANGED <<rows, runVars, appendVars, cancelVars, breaks>>

\* The connection breaks when some of the events have arrived.
Break(r) ==
  /\ at[r] \in {"poll", "status"}
  /\ breaks < MaxBreaks
  /\ \E k \in 0 .. Cardinality(batch[r]) : Deliver(r, k)
  /\ at' = [at EXCEPT ![r] = "off"]
  /\ batch' = [batch EXCEPT ![r] = {}]
  /\ breaks' = breaks + 1
  /\ UNCHANGED <<rows, runVars, appendVars, cancelVars>>

-----------------------------------------------------------------------------
Appending(w) == ReadNumber(w) \/ Insert(w) \/ Retry(w) \/ GiveUp(w) \/ AppendFile(w)

Next ==
  \/ \E w \in Runners : Begin(w) \/ Appending(w) \/ Cancelled(w)
  \/ Start \/ Finish \/ CancelBegin \/ CancelRead \/ CancelWrite
  \/ \E r \in Readers : Connect(r) \/ PollRows(r) \/ PollStatus(r) \/ Break(r)

Spec == Init /\ [][Next]_vars

Fairness ==
  /\ \A w \in Runners : WF_vars(Appending(w))
  /\ \A r \in Readers : WF_vars(Connect(r) \/ PollRows(r) \/ PollStatus(r))

FairSpec == Spec /\ Fairness

-----------------------------------------------------------------------------
\* What a reader has received is the beginning of the log, nothing left out
\* and nothing twice, although it only remembers the last id, rows appear
\* while it polls, and connections break in the middle of a batch
\* (pipelines.py stream_run_events).
NothingSkipped ==
  \A r \in Readers : \A i \in DOMAIN received[r] :
    i \in DOMAIN rows /\ received[r][i] = [id |-> i, line |-> rows[i]]

\* No line is stored twice or after a later one of its Runner, whichever
\* inserts collided; a line that append gave up is not stored
\* (store.py append).
StoredInOrder ==
  /\ \A m, n \in DOMAIN rows :
       m < n /\ rows[m].by = rows[n].by => rows[m].nr < rows[n].nr
  /\ \A n \in DOMAIN rows :
       rows[n].by \in Runners => rows[n].nr \notin failed[rows[n].by]

\* An append that fails has lost a number to others each time: it gives a line
\* up only when they have added three since it began (store.py append).
LostOnlyToOthers ==
  \A w \in Runners :
    pc[w] = "insert" /\ number[w] \in DOMAIN rows => foreign[w] > tries[w]

\* The numbers that colliding writers give to lines lead readers through the
\* whole log in its order (store.py append, pipelines.py stream_run_events).
StreamIsSound ==
  /\ TypeOK
  /\ NothingSkipped
  /\ StoredInOrder
  /\ LostOnlyToOthers

\* The log that readers follow is an append-only log.
Followed == INSTANCE FollowedLog WITH
  Lines <- Line,
  log <- rows,
  received <- [r \in Readers |->
                 [i \in DOMAIN received[r] |-> received[r][i].line]]

IsFollowedLog == Followed!Spec

\* A line that is stored before its reader's stream begins a poll arrives,
\* however many lines, breaks and cancel requests come between, so the end is
\* not sent before it; and the stream of a run that is over ends, although
\* Runners that have lost their lease, or the handler of a run cancelled while
\* it was queued, may still log (pipelines.py stream_run_events).
EveryLineArrives ==
  \A r \in Readers :
    /\ \A l \in Line :
         at[r] \in {"off", "poll"} /\ (\E n \in DOMAIN rows : rows[n] = l)
           ~> \E i \in DOMAIN received[r] : received[r][i].line = l
    /\ ended ~> at[r] = "end"
=============================================================================
