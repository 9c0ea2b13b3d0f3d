---------------------------- MODULE MetricsQueue ----------------------------
(***************************************************************************)
(* Metrics tasks of the servers: every Runner process has a scheduler that *)
(* inserts a task for each server without one (runner/scheduler.py), and a *)
(* worker that claims the first free one of the oldest tasks               *)
(* (db/repositories.py lease_next) and samples the server                  *)
(* (runner/handlers.py MetricsTaskHandler).  All tasks have one priority   *)
(* and two attempts.  A claim is one step here, its races are those of     *)
(* TaskStore; the leases of live workers are renewed in time.              *)
(***************************************************************************)
EXTENDS Naturals, FiniteSets, SequencesExt

CONSTANTS
  Runners,    \* Runner processes
  Servers,    \* servers, in the order of the scheduler's SELECT
  Dead,       \* servers that never answer
  Window,     \* candidates that lease_next reads (20 in the code)
  MaxCrashes, \* bound: crashes of Runners
  MaxEdits    \* bound: edits of servers

ASSUME MetricsAssumption ==
  /\ Runners \cap {"none", "gone"} = {}
  /\ IsFiniteSet(Runners) /\ IsFiniteSet(Servers)
  /\ Window \in Nat \ {0}
  /\ MaxCrashes \in Nat /\ MaxEdits \in Nat

MaxAttempts == 2

VARIABLES
  ready,   \* servers that are enabled, with a host key and a credential
  queue,   \* the metrics tasks that have not ended, oldest first
  todo,    \* per scheduler: the servers its tick is about to insert tasks for
  ticking, \* per scheduler: in the middle of a tick
  busy,    \* per worker: its handler runs
  sampled, \* servers with a sample that the retention has not deleted
  crashes, edits

vars == <<ready, queue, todo, ticking, busy, sampled, crashes, edits>>

\* A task is pending, leased by a worker, or leased by one that is gone; then
\* it is held until its lease expires.
Task == [server : Servers, by : Runners \cup {"none", "gone"},
         held : BOOLEAN, attempts : 0 .. MaxAttempts]

TasksOf(s) == {i \in DOMAIN queue : queue[i].server = s}

TypeOK ==
  /\ ready \subseteq Servers /\ sampled \subseteq Servers
  /\ queue \in Seq(Task)
  /\ \A i \in DOMAIN queue : queue[i].by \in Runners => queue[i].held
  /\ \A r \in Runners :
       Cardinality({i \in DOMAIN queue : queue[i].by = r}) = IF busy[r] THEN 1 ELSE 0
  /\ todo \in [Runners -> SUBSET Servers]
  /\ ticking \in [Runners -> BOOLEAN]

Init ==
  /\ ready = Servers
  /\ queue = <<>>
  /\ todo = [r \in Runners |-> {}]
  /\ ticking = [r \in Runners |-> FALSE]
  /\ busy = [r \in Runners |-> FALSE]
  /\ sampled = {}
  /\ crashes = 0 /\ edits = 0

-----------------------------------------------------------------------------
(* The scheduler.                                                          *)

\* Mutant of HasTask: a task that has been claimed is forgotten.
HasPendingTask(s) == \E i \in TasksOf(s) : queue[i].by = "none"

HasTask(s) == TasksOf(s) # {}

\* The servers and the active tasks are read.
TickRead(r) ==
  /\ ~ticking[r]
  /\ ticking' = [ticking EXCEPT ![r] = TRUE]
  /\ todo' = [todo EXCEPT ![r] = {s \in ready : ~HasTask(s)}]
  /\ UNCHANGED <<ready, queue, busy, sampled, crashes, edits>>

NewTask(s) == [server |-> s, by |-> "none", held |-> FALSE, attempts |-> 0]

EndTick(r) ==
  /\ todo' = [todo EXCEPT ![r] = {}]
  /\ ticking' = [ticking EXCEPT ![r] = FALSE]
  /\ UNCHANGED <<ready, busy, crashes, edits>>

\* The tasks are inserted and old samples deleted in one transaction.
TickWrite(r) ==
  /\ ticking[r]
  /\ queue' = queue \o [i \in 1 .. Cardinality(todo[r]) |-> NewTask(SetToSeq(todo[r])[i])]
  /\ \E old \in SUBSET sampled : sampled' = sampled \ old
  /\ EndTick(r)

\* A tick that raises is logged, and the next one comes after the interval.
TickFails(r) ==
  /\ ticking[r]
  /\ EndTick(r)
  /\ UNCHANGED <<queue, sampled>>

-----------------------------------------------------------------------------
(* The queue.                                                              *)

Runnable(t) == ~t.held /\ t.attempts < MaxAttempts

\* The oldest runnable tasks, no more than the window.
Candidates ==
  {i \in DOMAIN queue : Runnable(queue[i])
     /\ Cardinality({j \in DOMAIN queue : j < i /\ Runnable(queue[j])}) < Window}

\* No other task of the server is held.
Free(i) == \A j \in TasksOf(queue[i].server) : j # i => ~queue[j].held

Claim(r) ==
  /\ ~busy[r]
  /\ \E i \in Candidates :
       /\ Free(i)
       /\ \A j \in Candidates : j < i => ~Free(j)
       /\ queue' = [queue EXCEPT ![i] =
                      [queue[i] EXCEPT !.by = r, !.held = TRUE, !.attempts = @ + 1]]
  /\ busy' = [busy EXCEPT ![r] = TRUE]
  /\ UNCHANGED <<ready, todo, ticking, sampled, crashes, edits>>

\* The tasks at the positions S, in their order.
Ith(S, k) == CHOOSE i \in S : Cardinality({j \in S : j < i}) = k - 1
Only(S) == [k \in 1 .. Cardinality(S) |-> queue[Ith(S, k)]]

Finish(r, s) ==
  \E i \in TasksOf(s) :
    /\ queue[i].by = r
    /\ queue' = Only(DOMAIN queue \ {i})
    /\ busy' = [busy EXCEPT ![r] = FALSE]
    /\ UNCHANGED <<ready, todo, ticking, crashes, edits>>

\* The handler stores a sample of the server.
Sample(r, s) ==
  /\ s \notin Dead
  /\ Finish(r, s)
  /\ sampled' = sampled \cup {s}

\* The server could not be sampled, and the task has failed.
HandlerFails(r, s) ==
  /\ Finish(r, s)
  /\ UNCHANGED sampled

\* Mutant of RecoverExpired: a task without attempts left stays.
RecoverRetryable ==
  /\ \E t \in ToSet(queue) : t.by = "gone" /\ ~t.held
  /\ queue' = [i \in DOMAIN queue |->
       IF queue[i].by = "gone" /\ ~queue[i].held /\ queue[i].attempts < MaxAttempts
         THEN [queue[i] EXCEPT !.by = "none"] ELSE queue[i]]
  /\ UNCHANGED <<ready, todo, ticking, busy, sampled, crashes, edits>>

\* recover_expired: an expired task is pending again or, without attempts
\* left, has failed.
RecoverExpired ==
  LET Expired(t) == t.by = "gone" /\ ~t.held
      Failed(t) == Expired(t) /\ t.attempts = MaxAttempts
      kept == Only({i \in DOMAIN queue : ~Failed(queue[i])})
  IN
  /\ \E t \in ToSet(queue) : Expired(t)
  /\ queue' = [i \in DOMAIN kept |->
       IF Expired(kept[i]) THEN [kept[i] EXCEPT !.by = "none"] ELSE kept[i]]
  /\ UNCHANGED <<ready, todo, ticking, busy, sampled, crashes, edits>>

-----------------------------------------------------------------------------
(* Crashes, time and edits.                                                *)

\* A Runner dies and is started again; its task is held by nobody.
Crash(r) ==
  /\ crashes < MaxCrashes
  /\ crashes' = crashes + 1
  /\ queue' = [i \in DOMAIN queue |->
       IF queue[i].by = r THEN [queue[i] EXCEPT !.by = "gone"] ELSE queue[i]]
  /\ busy' = [busy EXCEPT ![r] = FALSE]
  /\ todo' = [todo EXCEPT ![r] = {}]
  /\ ticking' = [ticking EXCEPT ![r] = FALSE]
  /\ UNCHANGED <<ready, sampled, edits>>

Expire ==
  /\ \E i \in DOMAIN queue :
       /\ queue[i].by = "gone" /\ queue[i].held
       /\ queue' = [queue EXCEPT ![i].held = FALSE]
  /\ UNCHANGED <<ready, todo, ticking, busy, sampled, crashes, edits>>

\* A server is edited so that it is not ready any more, or is again.
Edit(s) ==
  /\ edits < MaxEdits
  /\ edits' = edits + 1
  /\ ready' = IF s \in ready THEN ready \ {s} ELSE ready \cup {s}
  /\ UNCHANGED <<queue, todo, ticking, busy, sampled, crashes>>

-----------------------------------------------------------------------------
Tick(r) == TickRead(r) \/ TickWrite(r) \/ TickFails(r)

Handle(r) == \E s \in Servers : Sample(r, s) \/ HandlerFails(r, s)

Next ==
  \/ \E r \in Runners : Tick(r) \/ Claim(r) \/ Handle(r) \/ Crash(r)
  \/ RecoverExpired \/ Expire
  \/ \E s \in Servers : Edit(s)

Spec == Init /\ [][Next]_vars

\* Schedulers tick, workers poll and recover, handlers end, and leases run
\* out; ticks do not always fail, and a server that answers is sampled once
\* it is tried again and again.
Fairness ==
  /\ \A r \in Runners :
       WF_vars(Tick(r)) /\ SF_vars(TickWrite(r)) /\ WF_vars(Claim(r) \/ Handle(r))
  /\ \A s \in Servers \ Dead : SF_vars(\E r \in Runners : Sample(r, s))
  /\ WF_vars(RecoverExpired) /\ WF_vars(Expire)

FairSpec == Spec /\ Fairness

-----------------------------------------------------------------------------
\* Schedulers of several Runners may insert a task for the same server, as
\* they look and insert in separate steps, but tasks do not pile up: a server
\* has at most one per Runner, whatever crashes (scheduler.py tick).
OneTaskPerScheduler ==
  \A s \in Servers : Cardinality(TasksOf(s)) <= Cardinality(Runners)

\* Two tasks of one server are never held at a time, although the scheduler
\* may have inserted two (repositories.py lease_next).
SampledByOne ==
  \A s \in Servers : Cardinality({i \in TasksOf(s) : queue[i].held}) <= 1

\* However many schedulers and workers there are, a server's tasks neither pile
\* up nor run side by side (scheduler.py tick, repositories.py lease_next).
SamplesAreBounded ==
  /\ TypeOK
  /\ OneTaskPerScheduler
  /\ SampledByOne

\* A server that stays ready and answers has fresh samples again and again,
\* whatever crashes, although tasks of other servers, that never answer or
\* that wait for one another, may fill the window of candidates.
KeepsBeingSampled ==
  \A s \in Servers \ Dead : <>[](s \in ready) => []<>(s \in sampled)
=============================================================================
