--------------------------- MODULE MetricsProofs ---------------------------
(***************************************************************************)
(* Proofs about MetricsQueue, for any number of Runners, servers, crashes  *)
(* and edits, and any window.                                              *)
(***************************************************************************)
EXTENDS MetricsQueue, FiniteSetTheorems, TLAPS

-----------------------------------------------------------------------------
(* Positions and their order.                                              *)

\* Every position of a set has a rank of its own, and every rank a position.
LEMMA Ranks ==
  ASSUME NEW n \in Nat, NEW S \in SUBSET (1 .. n)
  PROVE  /\ IsFiniteSet(S) /\ Cardinality(S) \in Nat
         /\ \A k \in 1 .. Cardinality(S) :
              Ith(S, k) \in S /\ Cardinality({j \in S : j < Ith(S, k)}) = k - 1
         /\ \A i \in S : \E k \in 1 .. Cardinality(S) : Ith(S, k) = i
<1> DEFINE rank(i) == Cardinality({j \in S : j < i})
           size == Cardinality(S)
           f == [i \in S |-> rank(i) + 1]
<1>1. IsFiniteSet(S) /\ size \in Nat
  <2>1. IsFiniteSet(1 .. n)
    BY FS_Interval
  <2> QED BY <2>1, FS_Subset, FS_CardinalityType
<1>2. \A i \in S : rank(i) \in 0 .. size - 1
  <2> SUFFICES ASSUME NEW i \in S PROVE rank(i) \in 0 .. size - 1
    OBVIOUS
  <2> DEFINE B == {j \in S : j < i}
  <2>1. B \in SUBSET S /\ i \notin B /\ B # S
    OBVIOUS
  <2> HIDE DEF B
  <2>2. IsFiniteSet(B) /\ Cardinality(B) <= size /\ Cardinality(B) # size
    BY <1>1, <2>1, FS_Subset
  <2>3. Cardinality(B) \in Nat
    BY <2>2, FS_CardinalityType
  <2>4. Cardinality(B) \in 0 .. size - 1
    BY <1>1, <2>2, <2>3
  <2> QED BY <2>4 DEF B
<1>3. \A i, j \in S : i < j => rank(i) < rank(j)
  <2> SUFFICES ASSUME NEW i \in S, NEW j \in S, i < j PROVE rank(i) < rank(j)
    OBVIOUS
  <2> DEFINE B == {m \in S : m < i}
             C == {m \in S : m < j}
  <2>1. B \in SUBSET C /\ i \in C /\ i \notin B /\ C \in SUBSET S
    <3>1. i \in Int /\ j \in Int /\ \A m \in S : m \in Int
      OBVIOUS
    <3>2. \A m \in S : m < i => m < j
      BY <3>1
    <3>3. ~(i < i)
      BY <3>1
    <3> QED BY <3>2, <3>3
  <2> HIDE DEF B, C
  <2>2. IsFiniteSet(C) /\ IsFiniteSet(B)
    BY <1>1, <2>1, FS_Subset
  <2>3. Cardinality(B) <= Cardinality(C) /\ Cardinality(C) # Cardinality(B)
    BY <2>1, <2>2, FS_Subset
  <2>4. Cardinality(B) \in Nat /\ Cardinality(C) \in Nat
    BY <2>2, FS_CardinalityType
  <2>5. Cardinality(B) < Cardinality(C)
    BY <2>3, <2>4
  <2> QED BY <2>5 DEF B, C
<1> HIDE DEF rank, size
<1>4. f \in Injection(S, 1 .. size)
  <2>1. f \in [S -> 1 .. size]
    BY <1>1, <1>2
  <2>2. \A i, j \in S : rank(i) = rank(j) => i = j
    <3>1. \A i, j \in S : i < j \/ j < i \/ i = j
      OBVIOUS
    <3>2. \A i \in S : rank(i) \in Int
      BY <1>1, <1>2
    <3> QED BY <1>3, <3>1, <3>2
  <2>3. \A i, j \in S : f[i] = f[j] => i = j
    BY <1>1, <1>2, <2>2
  <2> QED BY <2>1, <2>3 DEF Injection, IsInjective
<1>5. f \in Surjection(S, 1 .. size)
  <2>1. IsFiniteSet(1 .. size) /\ Cardinality(1 .. size) = size
    BY <1>1, FS_Interval
  <2> QED BY <1>4, <2>1, FS_Injection DEF size
<1>6. \A k \in 1 .. size : \E i \in S : rank(i) = k - 1
  <2> SUFFICES ASSUME NEW k \in 1 .. size PROVE \E i \in S : rank(i) = k - 1
    OBVIOUS
  <2>1. PICK i \in S : f[i] = k
    BY <1>5 DEF Surjection
  <2>2. rank(i) + 1 = k /\ rank(i) \in Int /\ k \in Int
    BY <1>1, <1>2, <2>1
  <2>3. rank(i) = k - 1
    BY <2>2
  <2> QED BY <2>3
<1>7. \A k \in 1 .. size : Ith(S, k) \in S /\ rank(Ith(S, k)) = k - 1
  BY <1>6 DEF Ith, rank
<1>8. \A i \in S : Ith(S, rank(i) + 1) = i
  <2> SUFFICES ASSUME NEW i \in S PROVE Ith(S, rank(i) + 1) = i
    OBVIOUS
  <2>1. PICK k \in 1 .. size : k = rank(i) + 1 /\ k - 1 = rank(i)
    BY <1>1, <1>2
  <2>2. PICK m \in S : m = Ith(S, k) /\ rank(m) = k - 1
    BY <1>7
  <2>3. rank(m) = rank(i)
    BY <2>1, <2>2
  <2>4. m = i
    BY <1>4, <2>3 DEF Injection, IsInjective
  <2> QED BY <2>1, <2>2, <2>4
<1>9. \A i \in S : rank(i) + 1 \in 1 .. size
  BY <1>1, <1>2
<1> QED BY <1>1, <1>7, <1>8, <1>9 DEF rank, size

\* The elements of a finite set are listed once each.
LEMMA Listed ==
  ASSUME NEW S, IsFiniteSet(S)
  PROVE  /\ Cardinality(S) \in Nat
         /\ SetToSeq(S) \in [1 .. Cardinality(S) -> S]
         /\ IsInjective(SetToSeq(S))
<1>1. Cardinality(S) \in Nat /\ ExistsBijection(1 .. Cardinality(S), S)
  BY FS_CardinalityType
<1>2. \E f \in [1 .. Cardinality(S) -> S] : IsInjective(f)
  BY <1>1 DEF ExistsBijection, Bijection, Injection, IsInjective
<1> QED BY <1>1, <1>2 DEF SetToSeq

\* A queue with tasks appended, and one with a task replaced.
LEMMA Appended ==
  ASSUME NEW q \in Seq(Task), NEW new \in Seq(Task)
  PROVE  LET n == Len(q)
             m == Len(new)
         IN  /\ q \o new \in Seq(Task) /\ DOMAIN (q \o new) = 1 .. n + m
             /\ \A i \in 1 .. n : (q \o new)[i] = q[i]
             /\ \A k \in 1 .. m : (q \o new)[n + k] = new[k]
             /\ \A i \in 1 .. n + m : i \in 1 .. n \/ \E k \in 1 .. m : i = n + k
<1> DEFINE n == Len(q)
           m == Len(new)
<1>1. n \in Nat /\ m \in Nat
  OBVIOUS
<1>2. q \o new \in Seq(Task) /\ Len(q \o new) = n + m
  OBVIOUS
<1>3. \A i \in 1 .. n : (q \o new)[i] = q[i]
  OBVIOUS
<1>4. \A k \in 1 .. m : (q \o new)[n + k] = new[k]
  OBVIOUS
<1>5. \A i \in 1 .. n + m : i \in 1 .. n \/ \E k \in 1 .. m : i = n + k
  <2> SUFFICES ASSUME NEW i \in 1 .. n + m, i \notin 1 .. n
               PROVE  i - n \in 1 .. m /\ i = n + (i - n)
    OBVIOUS
  <2> QED BY <1>1
<1> QED BY <1>1, <1>2, <1>3, <1>4, <1>5

LEMMA Replaced ==
  ASSUME NEW q \in Seq(Task), NEW i \in DOMAIN q, NEW t \in Task
  PROVE  LET new == [q EXCEPT ![i] = t]
         IN  /\ new \in Seq(Task) /\ DOMAIN new = DOMAIN q /\ new[i] = t
             /\ \A j \in DOMAIN q : j # i => new[j] = q[j]
OBVIOUS

LEMMA NewTasks ==
  ASSUME NEW s \in Servers
  PROVE  /\ NewTask(s) \in Task /\ NewTask(s).server = s
         /\ NewTask(s).by = "none" /\ ~NewTask(s).held
<1>1. 0 \in 0 .. MaxAttempts
  BY DEF MaxAttempts
<1> QED BY <1>1 DEF NewTask, Task

LEMMA Claimed ==
  ASSUME NEW t \in Task, t.attempts < MaxAttempts, NEW r \in Runners
  PROVE  LET new == [t EXCEPT !.by = r, !.held = TRUE, !.attempts = @ + 1]
         IN  new \in Task /\ new.server = t.server /\ new.by = r /\ new.held
<1>1. PICK m : m = t.attempts + 1 /\ m \in 0 .. MaxAttempts
  BY DEF Task, MaxAttempts
<1>2. [t EXCEPT !.by = r, !.held = TRUE, !.attempts = @ + 1]
        = [t EXCEPT !.by = r, !.held = TRUE, !.attempts = m]
  BY <1>1
<1> QED BY <1>1, <1>2 DEF Task

-----------------------------------------------------------------------------
(* The inductive invariant.                                                *)

TypesInv ==
  /\ ready \subseteq Servers /\ sampled \subseteq Servers
  /\ queue \in Seq(Task)
  /\ todo \in [Runners -> SUBSET Servers]
  /\ ticking \in [Runners -> BOOLEAN]
  /\ busy \in [Runners -> BOOLEAN]

\* A worker is busy exactly while one task is its own.
BusyInv ==
  /\ \A i \in DOMAIN queue :
       queue[i].by \in Runners => queue[i].held /\ busy[queue[i].by]
  /\ \A i, j \in DOMAIN queue :
       queue[i].by \in Runners /\ queue[i].by = queue[j].by => i = j
  /\ \A r \in Runners : busy[r] => \E i \in DOMAIN queue : queue[i].by = r

HeldInv ==
  \A i, j \in DOMAIN queue :
    queue[i].held /\ queue[j].held /\ queue[i].server = queue[j].server => i = j

\* A scheduler that is about to insert a task has the place of one.
Inserting(s) == {r \in Runners : s \in todo[r]}

PlaceInv ==
  \A s \in Servers : Cardinality(TasksOf(s)) + Cardinality(Inserting(s)) <= Cardinality(Runners)

MetricsInv == TypesInv /\ BusyInv /\ HeldInv /\ PlaceInv

\* What is counted is finite.
LEMMA Counts ==
  ASSUME TypesInv
  PROVE  /\ Cardinality(Runners) \in Nat
         /\ \A s : /\ IsFiniteSet(TasksOf(s)) /\ Cardinality(TasksOf(s)) \in Nat
                   /\ IsFiniteSet(Inserting(s)) /\ Cardinality(Inserting(s)) \in Nat
                   /\ Cardinality(Inserting(s)) <= Cardinality(Runners)
<1>1. IsFiniteSet(Runners) /\ Cardinality(Runners) \in Nat
  BY MetricsAssumption, FS_CardinalityType
<1>2. IsFiniteSet(DOMAIN queue)
  <2>1. Len(queue) \in Nat /\ DOMAIN queue = 1 .. Len(queue)
    BY DEF TypesInv
  <2> QED BY <2>1, FS_Interval
<1> SUFFICES ASSUME NEW s
             PROVE  /\ IsFiniteSet(TasksOf(s)) /\ Cardinality(TasksOf(s)) \in Nat
                    /\ IsFiniteSet(Inserting(s)) /\ Cardinality(Inserting(s)) \in Nat
                    /\ Cardinality(Inserting(s)) <= Cardinality(Runners)
  BY <1>1
<1>3. TasksOf(s) \in SUBSET DOMAIN queue /\ Inserting(s) \in SUBSET Runners
  BY DEF TasksOf, Inserting
<1>4. IsFiniteSet(TasksOf(s))
  BY ONLY <1>2, <1>3, FS_Subset
<1>5. IsFiniteSet(Inserting(s)) /\ Cardinality(Inserting(s)) <= Cardinality(Runners)
  BY ONLY <1>1, <1>3, FS_Subset
<1> QED BY ONLY <1>4, <1>5, FS_CardinalityType

\* The invariant is what the runs check, and more.
LEMMA InvIsEnough == MetricsInv => SamplesAreBounded
<1> SUFFICES ASSUME MetricsInv PROVE SamplesAreBounded
  OBVIOUS
<1> USE DEF MetricsInv
<1>1. TypeOK
  <2>1. ASSUME NEW r \in Runners
        PROVE  Cardinality({i \in DOMAIN queue : queue[i].by = r}) = IF busy[r] THEN 1 ELSE 0
    <3>1. CASE busy[r]
      <4>1. PICK i \in DOMAIN queue : queue[i].by = r
        BY <3>1 DEF BusyInv
      <4>2. {j \in DOMAIN queue : queue[j].by = r} = {i}
        BY <4>1 DEF BusyInv
      <4> QED BY <3>1, <4>2, FS_Singleton
    <3>2. CASE ~busy[r]
      <4>1. {j \in DOMAIN queue : queue[j].by = r} = {}
        BY <3>2 DEF BusyInv
      <4> QED BY <3>2, <4>1, FS_EmptySet
    <3> QED BY <3>1, <3>2
  <2> QED BY <2>1 DEF TypeOK, TypesInv, BusyInv
<1>2. OneTaskPerScheduler
  <2> SUFFICES ASSUME NEW s \in Servers
               PROVE  Cardinality(TasksOf(s)) <= Cardinality(Runners)
    BY DEF OneTaskPerScheduler
  <2>1. Cardinality(TasksOf(s)) + Cardinality(Inserting(s)) <= Cardinality(Runners)
    BY DEF PlaceInv
  <2>2. /\ Cardinality(TasksOf(s)) \in Nat /\ Cardinality(Inserting(s)) \in Nat
        /\ Cardinality(Runners) \in Nat
    BY Counts
  <2> QED BY <2>1, <2>2
<1>3. SampledByOne
  <2> SUFFICES ASSUME NEW s \in Servers
               PROVE  Cardinality({i \in TasksOf(s) : queue[i].held}) <= 1
    BY DEF SampledByOne
  <2> DEFINE H == {i \in TasksOf(s) : queue[i].held}
  <2>1. \A i, j \in H : i = j
    BY DEF HeldInv, TasksOf
  <2> HIDE DEF H
  <2>2. H = {} \/ \E i : H = {i}
    <3> SUFFICES ASSUME NEW i \in H PROVE H = {i}
      OBVIOUS
    <3> QED BY <2>1
  <2>3. Cardinality(H) = 0 \/ Cardinality(H) = 1
    BY <2>2, FS_EmptySet, FS_Singleton
  <2>4. Cardinality(H) <= 1
    BY <2>3
  <2> QED BY <2>4 DEF H
<1> QED BY <1>1, <1>2, <1>3 DEF SamplesAreBounded

LEMMA InitMetrics == Init => MetricsInv
<1> SUFFICES ASSUME Init PROVE MetricsInv
  OBVIOUS
<1>1. TypesInv
  BY DEF Init, TypesInv
<1>2. DOMAIN queue = {}
  BY DEF Init
<1>3. BusyInv /\ HeldInv
  BY <1>2 DEF BusyInv, HeldInv, Init
<1>4. PlaceInv
  <2> SUFFICES ASSUME NEW s \in Servers
               PROVE  Cardinality(TasksOf(s)) + Cardinality(Inserting(s)) <= Cardinality(Runners)
    BY DEF PlaceInv
  <2>1. TasksOf(s) = {}
    BY <1>2 DEF TasksOf
  <2>2. Inserting(s) = {}
    BY DEF Init, Inserting
  <2>3. Cardinality(TasksOf(s)) = 0 /\ Cardinality(Inserting(s)) = 0
    BY <2>1, <2>2, FS_EmptySet
  <2>4. Cardinality(Runners) \in Nat
    BY <1>1, Counts
  <2> QED BY <2>3, <2>4
<1> QED BY <1>1, <1>3, <1>4 DEF MetricsInv

-----------------------------------------------------------------------------
(* Steps.                                                                  *)

\* Tasks that keep their places and servers: what a claim, an expiry, a crash
\* and a recovery without failures do.
LEMMA PlacesKept ==
  ASSUME TypesInv, TypesInv', PlaceInv,
         NEW q, queue' = q,
         DOMAIN q = DOMAIN queue, \A i \in DOMAIN queue : q[i].server = queue[i].server,
         \A r \in Runners : todo'[r] = todo[r] \/ todo'[r] = {}
  PROVE  PlaceInv'
<1> SUFFICES ASSUME NEW s \in Servers
             PROVE  Cardinality(TasksOf(s)') + Cardinality(Inserting(s)') <= Cardinality(Runners)
  BY DEF PlaceInv
<1>1. TasksOf(s)' = TasksOf(s)
  BY DEF TasksOf
<1>2. Inserting(s)' \in SUBSET Inserting(s)
  BY DEF Inserting
<1>3. /\ IsFiniteSet(Inserting(s)) /\ Cardinality(Inserting(s)) \in Nat
      /\ Cardinality(TasksOf(s)) \in Nat /\ Cardinality(Runners) \in Nat
  BY Counts
<1>4. Cardinality(Inserting(s)') <= Cardinality(Inserting(s))
  BY ONLY <1>2, <1>3, FS_Subset
<1>5. IsFiniteSet(Inserting(s)')
  BY ONLY <1>2, <1>3, FS_Subset
<1>6. Cardinality(Inserting(s)') \in Nat
  BY ONLY <1>5, FS_CardinalityType
<1>7. Cardinality(TasksOf(s)) + Cardinality(Inserting(s)) <= Cardinality(Runners)
  BY DEF PlaceInv
<1> QED BY ONLY <1>1, <1>3, <1>4, <1>6, <1>7

\* Tasks that are left after others have ended.
LEMMA OnlyKeeps ==
  ASSUME TypesInv, NEW S \in SUBSET DOMAIN queue
  PROVE  \E h \in [1 .. Cardinality(S) -> S] :
           /\ Cardinality(S) \in Nat
           /\ \A k, l \in 1 .. Cardinality(S) : h[k] = h[l] => k = l
           /\ \A i \in S : \E k \in 1 .. Cardinality(S) : h[k] = i
           /\ Only(S) = [k \in 1 .. Cardinality(S) |-> queue[h[k]]]
           /\ Only(S) \in Seq(Task)
<1>1. PICK n \in Nat : DOMAIN queue = 1 .. n /\ \A i \in 1 .. n : queue[i] \in Task
  BY DEF TypesInv
<1>2. S \in SUBSET (1 .. n)
  BY <1>1
<1>3. /\ Cardinality(S) \in Nat
      /\ \A k \in 1 .. Cardinality(S) :
           Ith(S, k) \in S /\ Cardinality({j \in S : j < Ith(S, k)}) = k - 1
      /\ \A i \in S : \E k \in 1 .. Cardinality(S) : Ith(S, k) = i
  BY ONLY <1>2, Ranks
<1> DEFINE h == [k \in 1 .. Cardinality(S) |-> Ith(S, k)]
<1>4. h \in [1 .. Cardinality(S) -> S]
  BY <1>3
<1>5. \A k, l \in 1 .. Cardinality(S) : h[k] = h[l] => k = l
  <2> SUFFICES ASSUME NEW k \in 1 .. Cardinality(S), NEW l \in 1 .. Cardinality(S), h[k] = h[l]
               PROVE  k = l
    OBVIOUS
  <2>1. Ith(S, k) = Ith(S, l)
    OBVIOUS
  <2>2. k - 1 = l - 1
    BY <1>3, <2>1
  <2> QED BY <1>3, <2>2
<1>6. \A i \in S : \E k \in 1 .. Cardinality(S) : h[k] = i
  BY <1>3
<1>7. Only(S) = [k \in 1 .. Cardinality(S) |-> queue[h[k]]]
  BY DEF Only
<1> HIDE DEF h
<1>8. Only(S) \in Seq(Task)
  <2>1. \A k \in 1 .. Cardinality(S) : queue[h[k]] \in Task
    BY <1>1, <1>2, <1>4
  <2> QED BY <1>3, <1>7, <2>1
<1> QED BY <1>3, <1>4, <1>5, <1>6, <1>7, <1>8

LEMMA PlacesLeft ==
  ASSUME TypesInv, PlaceInv, todo' = todo,
         NEW n \in Nat, DOMAIN queue' = 1 .. n,
         NEW h \in [1 .. n -> DOMAIN queue],
         \A k, l \in 1 .. n : h[k] = h[l] => k = l,
         \A k \in 1 .. n : queue'[k].server = queue[h[k]].server
  PROVE  PlaceInv'
<1> SUFFICES ASSUME NEW s \in Servers
             PROVE  Cardinality(TasksOf(s)') + Cardinality(Inserting(s)') <= Cardinality(Runners)
  BY DEF PlaceInv
<1>1. Inserting(s)' = Inserting(s)
  BY DEF Inserting
<1> DEFINE T == TasksOf(s)'
           f == [k \in T |-> h[k]]
<1>2. T \in SUBSET (1 .. n) /\ \A k \in T : h[k] \in TasksOf(s)
  BY DEF TasksOf
<1> HIDE DEF T
<1>3. f \in [T -> TasksOf(s)]
  BY <1>2
<1>4. \A k, l \in T : f[k] = f[l] => k = l
  BY <1>2
<1> HIDE DEF f
<1>5. f \in Injection(T, TasksOf(s))
  BY <1>3, <1>4 DEF Injection, IsInjective
<1>6. /\ Cardinality(Inserting(s)) \in Nat /\ Cardinality(Runners) \in Nat
      /\ IsFiniteSet(TasksOf(s)) /\ Cardinality(TasksOf(s)) \in Nat
  BY Counts
<1>7. IsFiniteSet(T) /\ Cardinality(T) <= Cardinality(TasksOf(s))
  BY ONLY <1>5, <1>6, FS_Injection
<1>8. Cardinality(T) \in Nat
  BY ONLY <1>7, FS_CardinalityType
<1>9. Cardinality(TasksOf(s)) + Cardinality(Inserting(s)) <= Cardinality(Runners)
  BY DEF PlaceInv
<1>10. Cardinality(T) + Cardinality(Inserting(s)) <= Cardinality(Runners)
  BY ONLY <1>6, <1>7, <1>8, <1>9
<1> QED BY <1>1, <1>10 DEF T

\* A scheduler looks for servers without a task: when it finds one, every
\* scheduler may still insert one.
LEMMA TickReadStep ==
  ASSUME MetricsInv, NEW r \in Runners, TickRead(r)
  PROVE  MetricsInv'
<1> USE DEF MetricsInv
<1>1. /\ todo' = [todo EXCEPT ![r] = {s \in ready : ~HasTask(s)}]
      /\ queue' = queue /\ busy' = busy
  BY DEF TickRead
<1>2. TypesInv'
  BY DEF TypesInv, TickRead
<1>3. BusyInv' /\ HeldInv'
  BY <1>1 DEF BusyInv, HeldInv
<1>4. PlaceInv'
  <2> SUFFICES ASSUME NEW s \in Servers
               PROVE  Cardinality(TasksOf(s)') + Cardinality(Inserting(s)') <= Cardinality(Runners)
    BY DEF PlaceInv
  <2>1. TasksOf(s)' = TasksOf(s)
    BY <1>1 DEF TasksOf
  <2>2. /\ Cardinality(TasksOf(s)) \in Nat /\ Cardinality(Inserting(s)) \in Nat
        /\ IsFiniteSet(Inserting(s)) /\ Cardinality(Runners) \in Nat
    BY Counts
  <2>3. Cardinality(Inserting(s)') \in Nat /\ Cardinality(Inserting(s)') <= Cardinality(Runners)
    <3>1. IsFiniteSet(Inserting(s)') /\ Cardinality(Inserting(s)') <= Cardinality(Runners)
      <4>1. Inserting(s)' \in SUBSET Runners
        BY DEF Inserting
      <4> QED BY ONLY <4>1, MetricsAssumption, FS_Subset DEF MetricsAssumption
    <3> QED BY ONLY <3>1, FS_CardinalityType
  <2>4. CASE HasTask(s) \/ s \notin ready
    <3>1. Inserting(s)' \in SUBSET Inserting(s)
      BY <1>1, <2>4 DEF Inserting, TypesInv
    <3>2. Cardinality(Inserting(s)') <= Cardinality(Inserting(s))
      BY ONLY <2>2, <3>1, FS_Subset
    <3>3. Cardinality(TasksOf(s)) + Cardinality(Inserting(s)) <= Cardinality(Runners)
      BY DEF PlaceInv
    <3> QED BY ONLY <2>1, <2>2, <2>3, <3>2, <3>3
  <2>5. CASE ~HasTask(s)
    <3>1. Cardinality(TasksOf(s)) = 0
      BY <2>5, FS_EmptySet DEF HasTask
    <3> QED BY ONLY <2>1, <2>2, <2>3, <3>1
  <2> QED BY <2>4, <2>5
<1> QED BY <1>2, <1>3, <1>4

\* The tasks are inserted: each takes the place its scheduler had.
LEMMA TickWriteStep ==
  ASSUME MetricsInv, NEW r \in Runners, TickWrite(r)
  PROVE  MetricsInv'
<1> USE DEF MetricsInv
<1> DEFINE size == Cardinality(todo[r])
           list == SetToSeq(todo[r])
           new == [i \in 1 .. size |-> NewTask(list[i])]
<1>1. /\ queue' = queue \o new
      /\ todo' = [todo EXCEPT ![r] = {}]
      /\ ticking' = [ticking EXCEPT ![r] = FALSE]
      /\ sampled' \subseteq sampled
      /\ ready' = ready /\ busy' = busy
  BY DEF TickWrite, EndTick
<1>2. size \in Nat /\ list \in [1 .. size -> todo[r]] /\ IsInjective(list)
  <2>1. todo[r] \in SUBSET Servers
    BY DEF TypesInv
  <2>2. IsFiniteSet(todo[r])
    BY ONLY <2>1, MetricsAssumption, FS_Subset DEF MetricsAssumption
  <2> QED BY ONLY <2>2, Listed
<1> HIDE DEF list, size
<1>3. PICK n \in Nat : n = Len(queue) /\ DOMAIN queue = 1 .. n
  BY DEF TypesInv
<1>4. \A k \in 1 .. size :
        /\ list[k] \in Servers /\ new[k] \in Task /\ new[k].server = list[k]
        /\ new[k].by = "none" /\ ~new[k].held
  <2>1. \A k \in 1 .. size : new[k] = NewTask(list[k]) /\ list[k] \in Servers
    BY <1>2 DEF TypesInv
  <2> QED BY ONLY <2>1, NewTasks
<1>5. new \in Seq(Task) /\ Len(new) = size
  <2>1. new = [k \in 1 .. size |-> new[k]]
    OBVIOUS
  <2> HIDE DEF new
  <2> QED BY ONLY <1>2, <1>4, <2>1
<1> HIDE DEF new
<1>6. /\ queue' \in Seq(Task) /\ DOMAIN queue' = 1 .. n + size
      /\ \A i \in 1 .. n : queue'[i] = queue[i]
      /\ \A k \in 1 .. size : queue'[n + k] = new[k]
      /\ \A i \in 1 .. n + size : i \in 1 .. n \/ \E k \in 1 .. size : i = n + k
  <2>1. queue \in Seq(Task)
    BY DEF TypesInv
  <2>2. queue' = queue \o new
    BY <1>1
  <2>3. /\ queue \o new \in Seq(Task)
        /\ DOMAIN (queue \o new) = 1 .. Len(queue) + Len(new)
        /\ \A i \in 1 .. Len(queue) : (queue \o new)[i] = queue[i]
        /\ \A k \in 1 .. Len(new) : (queue \o new)[Len(queue) + k] = new[k]
        /\ \A i \in 1 .. Len(queue) + Len(new) :
             i \in 1 .. Len(queue) \/ \E k \in 1 .. Len(new) : i = Len(queue) + k
    BY ONLY <1>5, <2>1, Appended
  <2> QED BY ONLY <1>3, <1>5, <2>2, <2>3
<1>12. PICK m \in Nat : m = n + size
  BY <1>2
<1>13. \A i \in 1 .. n : i \in 1 .. m
  BY <1>2, <1>12
<1>7. TypesInv'
  BY <1>1, <1>6 DEF TypesInv
<1>8. \A i \in 1 .. m :
        i \notin 1 .. n => queue'[i].by \notin Runners /\ ~queue'[i].held
  <2>1. "none" \notin Runners
    BY MetricsAssumption
  <2> QED BY ONLY <1>4, <1>6, <1>12, <2>1
<1>9. BusyInv'
  <2>1. \A i \in DOMAIN queue' : queue'[i].by \in Runners => i \in 1 .. n
    BY ONLY <1>6, <1>8, <1>12
  <2>2. DOMAIN queue' = 1 .. m /\ busy' = busy /\ \A i \in 1 .. n : queue'[i] = queue[i]
    BY <1>1, <1>6, <1>12
  <2>3. BusyInv
    OBVIOUS
  <2> QED BY ONLY <1>3, <1>13, <2>1, <2>2, <2>3 DEF BusyInv
<1>10. HeldInv'
  <2>1. \A i \in DOMAIN queue' : queue'[i].held => i \in 1 .. n
    BY ONLY <1>6, <1>8, <1>12
  <2> QED BY <1>3, <1>6, <2>1 DEF HeldInv
<1>11. PlaceInv'
  <2> SUFFICES ASSUME NEW s \in Servers
               PROVE  Cardinality(TasksOf(s)') + Cardinality(Inserting(s)') <= Cardinality(Runners)
    BY DEF PlaceInv
  <2>1. /\ Cardinality(TasksOf(s)) \in Nat /\ Cardinality(Inserting(s)) \in Nat
        /\ IsFiniteSet(TasksOf(s)) /\ IsFiniteSet(Inserting(s)) /\ Cardinality(Runners) \in Nat
        /\ Cardinality(TasksOf(s)) + Cardinality(Inserting(s)) <= Cardinality(Runners)
    BY Counts DEF PlaceInv
  <2>2. TasksOf(s) = {i \in 1 .. n : queue[i].server = s}
    BY <1>3 DEF TasksOf
  <2>3. TasksOf(s)' = {i \in 1 .. m : queue'[i].server = s}
    BY <1>6, <1>12 DEF TasksOf
  <2>6. \A i \in 1 .. m :
          i \in TasksOf(s)' =>
            i \in TasksOf(s) \/ \E k \in 1 .. size : i = n + k /\ list[k] = s
    BY ONLY <1>4, <1>6, <1>12, <2>2, <2>3
  <2>7. TasksOf(s) \in SUBSET TasksOf(s)'
    BY ONLY <1>6, <1>13, <2>2, <2>3
  <2>4. CASE s \notin todo[r]
    <3>1. TasksOf(s)' = TasksOf(s)
      <4>1. \A k \in 1 .. size : list[k] # s
        BY <1>2, <2>4
      <4> QED BY ONLY <2>3, <2>6, <2>7, <4>1
    <3>2. Inserting(s)' = Inserting(s)
      BY <1>1, <2>4 DEF Inserting, TypesInv
    <3> QED BY <2>1, <3>1, <3>2
  <2>5. CASE s \in todo[r]
    <3>1. \E x : TasksOf(s)' \in SUBSET (TasksOf(s) \cup {x})
      <4>1. CASE \E k \in 1 .. size : list[k] = s
        <5>1. PICK k \in 1 .. size : list[k] = s
          BY <4>1
        <5>2. \A l \in 1 .. size : list[l] = s => l = k
          BY <1>2, <5>1 DEF IsInjective
        <5>3. TasksOf(s)' \in SUBSET (TasksOf(s) \cup {n + k})
          BY ONLY <2>3, <2>6, <5>2
        <5> QED BY <5>3
      <4>2. CASE \A k \in 1 .. size : list[k] # s
        <5>1. TasksOf(s)' \in SUBSET (TasksOf(s) \cup {0})
          BY ONLY <2>3, <2>6, <4>2
        <5> QED BY <5>1
      <4> QED BY <4>1, <4>2
    <3>2. PICK x : TasksOf(s)' \in SUBSET (TasksOf(s) \cup {x})
      BY <3>1
    <3>3. IsFiniteSet(TasksOf(s) \cup {x})
          /\ Cardinality(TasksOf(s) \cup {x}) <= Cardinality(TasksOf(s)) + 1
      <4>1. IsFiniteSet(TasksOf(s) \cup {x})
            /\ Cardinality(TasksOf(s) \cup {x}) =
                 IF x \in TasksOf(s) THEN Cardinality(TasksOf(s)) ELSE Cardinality(TasksOf(s)) + 1
        BY ONLY <2>1, FS_AddElement
      <4> QED BY <2>1, <4>1
    <3>4. IsFiniteSet(TasksOf(s)')
          /\ Cardinality(TasksOf(s)') <= Cardinality(TasksOf(s) \cup {x})
      BY ONLY <3>2, <3>3, FS_Subset
    <3>5. Cardinality(TasksOf(s)') \in Nat /\ Cardinality(TasksOf(s) \cup {x}) \in Nat
      BY ONLY <3>3, <3>4, FS_CardinalityType
    <3>6. Inserting(s)' = Inserting(s) \ {r} /\ r \in Inserting(s)
      BY <1>1, <2>5 DEF Inserting, TypesInv
    <3>7. Cardinality(Inserting(s) \ {r}) = Cardinality(Inserting(s)) - 1
      BY ONLY <2>1, <3>6, FS_RemoveElement
    <3> QED BY ONLY <2>1, <3>3, <3>4, <3>5, <3>6, <3>7
  <2> QED BY <2>4, <2>5
<1> QED BY <1>7, <1>9, <1>10, <1>11

\* A claim takes a task whose server has no other that is held.
LEMMA ClaimStep ==
  ASSUME MetricsInv, NEW r \in Runners, Claim(r)
  PROVE  MetricsInv'
<1> USE DEF MetricsInv
<1>1. PICK i \in Candidates :
        /\ Free(i)
        /\ queue' = [queue EXCEPT ![i] =
                       [queue[i] EXCEPT !.by = r, !.held = TRUE, !.attempts = @ + 1]]
  BY DEF Claim
<1>2. /\ ~busy[r] /\ busy' = [busy EXCEPT ![r] = TRUE]
      /\ UNCHANGED <<ready, todo, ticking, sampled>>
  BY DEF Claim
<1>3. i \in DOMAIN queue /\ ~queue[i].held /\ queue[i].attempts < MaxAttempts
  BY DEF Candidates, Runnable
<1>4. queue[i] \in Task
  BY <1>3 DEF TypesInv
<1>5. PICK t \in Task :
        /\ queue' = [queue EXCEPT ![i] = t]
        /\ t.server = queue[i].server /\ t.by = r /\ t.held
  <2> DEFINE t == [queue[i] EXCEPT !.by = r, !.held = TRUE, !.attempts = @ + 1]
  <2>1. queue' = [queue EXCEPT ![i] = t]
    BY <1>1
  <2>2. t \in Task /\ t.server = queue[i].server /\ t.by = r /\ t.held
    BY ONLY <1>3, <1>4, Claimed
  <2> QED BY ONLY <2>1, <2>2
<1>6. /\ queue' \in Seq(Task) /\ DOMAIN queue' = DOMAIN queue /\ queue'[i] = t
      /\ \A j \in DOMAIN queue : j # i => queue'[j] = queue[j]
  <2>1. queue \in Seq(Task)
    BY DEF TypesInv
  <2> QED BY ONLY <1>3, <1>5, <2>1, Replaced
<1>7. TypesInv'
  BY <1>2, <1>6 DEF TypesInv
<1>8. BusyInv'
  <2>1. \A j \in DOMAIN queue : queue[j].by # r
    BY <1>2 DEF BusyInv
  <2>2. queue[i].by \notin Runners
    BY <1>3 DEF BusyInv
  <2>3. busy'[r] /\ \A w \in Runners : w # r => busy'[w] = busy[w]
    BY <1>2 DEF TypesInv
  <2>4. BusyInv
    OBVIOUS
  <2>5. ASSUME NEW w \in Runners, busy'[w]
        PROVE  \E j \in DOMAIN queue' : queue'[j].by = w
    <3>1. CASE w = r
      BY ONLY <1>3, <1>5, <1>6, <3>1
    <3>2. CASE w # r
      <4>1. PICK j \in DOMAIN queue : queue[j].by = w
        BY <2>3, <2>5, <3>2 DEF BusyInv
      <4> QED BY ONLY <1>6, <2>2, <3>2, <4>1
    <3> QED BY <3>1, <3>2
  <2> QED BY ONLY <1>3, <1>5, <1>6, <2>1, <2>2, <2>3, <2>4, <2>5 DEF BusyInv
<1>9. HeldInv'
  <2>1. HeldInv /\ \A j \in DOMAIN queue :
                      queue[j].server = queue[i].server /\ j # i => ~queue[j].held
    BY <1>1 DEF Free, TasksOf
  <2> QED BY ONLY <1>3, <1>5, <1>6, <2>1 DEF HeldInv
<1>10. PlaceInv'
  <2>1. \A j \in DOMAIN queue : queue'[j].server = queue[j].server
    BY ONLY <1>5, <1>6
  <2> QED BY <1>2, <1>6, <1>7, <2>1, PlacesKept
<1> QED BY <1>7, <1>8, <1>9, <1>10

\* A handler ends and its task with it.
LEMMA FinishStep ==
  ASSUME MetricsInv, NEW r \in Runners, NEW s \in Servers, Finish(r, s),
         sampled' \subseteq Servers
  PROVE  MetricsInv'
<1> USE DEF MetricsInv
<1>1. PICK i \in DOMAIN queue :
        queue[i].by = r /\ queue' = Only(DOMAIN queue \ {i})
  BY DEF Finish, TasksOf
<1>2. busy' = [busy EXCEPT ![r] = FALSE] /\ UNCHANGED <<ready, todo, ticking>>
  BY DEF Finish
<1> DEFINE S == DOMAIN queue \ {i}
<1> DEFINE n == Cardinality(S)
<1>3. n \in Nat /\ \E h \in [1 .. n -> S] :
        /\ \A k, l \in 1 .. n : h[k] = h[l] => k = l
        /\ \A j \in S : \E k \in 1 .. n : h[k] = j
        /\ Only(S) = [k \in 1 .. n |-> queue[h[k]]]
        /\ Only(S) \in Seq(Task)
  <2>1. S \in SUBSET DOMAIN queue
    OBVIOUS
  <2> HIDE DEF S
  <2>2. TypesInv
    OBVIOUS
  <2> QED BY ONLY <2>1, <2>2, OnlyKeeps
<1> HIDE DEF n
<1>9. PICK h \in [1 .. n -> S] :
        /\ \A k, l \in 1 .. n : h[k] = h[l] => k = l
        /\ \A j \in S : \E k \in 1 .. n : h[k] = j
        /\ queue' = [k \in 1 .. n |-> queue[h[k]]]
        /\ queue' \in Seq(Task)
  BY <1>1, <1>3
<1>4. /\ DOMAIN queue' = 1 .. n
      /\ \A k \in 1 .. n : queue'[k] = queue[h[k]] /\ h[k] \in DOMAIN queue /\ h[k] # i
  BY <1>9
<1>5. TypesInv'
  BY <1>2, <1>9 DEF TypesInv
<1>6. BusyInv'
  <2>1. \A j \in DOMAIN queue : queue[j].by = r => j = i
    BY <1>1 DEF BusyInv
  <2>2. \A k \in 1 .. n : queue'[k].by # r
    BY <1>4, <2>1
  <2>3. ASSUME NEW k \in DOMAIN queue', queue'[k].by \in Runners
        PROVE  queue'[k].held /\ busy'[queue'[k].by]
    BY <1>2, <1>4, <2>2, <2>3 DEF BusyInv, TypesInv
  <2>4. ASSUME NEW k \in DOMAIN queue', NEW l \in DOMAIN queue',
               queue'[k].by \in Runners, queue'[k].by = queue'[l].by
        PROVE  k = l
    <3>1. h[k] = h[l]
      BY <1>4, <2>4 DEF BusyInv
    <3> QED BY <1>3, <1>9, <1>4, <3>1
  <2>5. ASSUME NEW w \in Runners, busy'[w]
        PROVE  \E k \in DOMAIN queue' : queue'[k].by = w
    <3>1. w # r /\ busy[w]
      BY <1>2, <2>5 DEF TypesInv
    <3>2. PICK j \in DOMAIN queue : queue[j].by = w
      BY <3>1 DEF BusyInv
    <3>3. j \in S
      BY <1>1, <3>1, <3>2
    <3> QED BY <1>3, <1>9, <1>4, <3>2, <3>3
  <2> QED BY <2>3, <2>4, <2>5 DEF BusyInv
<1>7. HeldInv'
  <2> SUFFICES ASSUME NEW k \in DOMAIN queue', NEW l \in DOMAIN queue',
                      queue'[k].held, queue'[l].held, queue'[k].server = queue'[l].server
               PROVE  k = l
    BY DEF HeldInv
  <2>1. h[k] = h[l]
    BY <1>4 DEF HeldInv
  <2> QED BY <1>3, <1>9, <1>4, <2>1
<1>8. PlaceInv'
  <2>1. h \in [1 .. n -> DOMAIN queue] /\ \A k \in 1 .. n : queue'[k].server = queue[h[k]].server
    BY <1>3, <1>9, <1>4
  <2>2. TypesInv /\ PlaceInv /\ todo' = todo
    BY <1>2
  <2> QED BY ONLY <1>3, <1>9, <1>4, <2>1, <2>2, PlacesLeft
<1> QED BY <1>5, <1>6, <1>7, <1>8

\* Expired tasks are pending again or, when they have failed, gone.
LEMMA RecoverStep ==
  ASSUME MetricsInv, RecoverExpired
  PROVE  MetricsInv'
<1> USE DEF MetricsInv
<1> DEFINE Lapsed(t) == t.by = "gone" /\ ~t.held
           S == {i \in DOMAIN queue : ~(Lapsed(queue[i]) /\ queue[i].attempts = MaxAttempts)}
           kept == Only(S)
<1>1. /\ queue' = [i \in DOMAIN kept |->
            IF Lapsed(kept[i]) THEN [kept[i] EXCEPT !.by = "none"] ELSE kept[i]]
      /\ UNCHANGED <<ready, todo, ticking, busy, sampled>>
  BY DEF RecoverExpired
<1> DEFINE n == Cardinality(S)
<1>10. n \in Nat /\ \E h \in [1 .. n -> S] :
        /\ \A k, l \in 1 .. n : h[k] = h[l] => k = l
        /\ \A j \in S : \E k \in 1 .. n : h[k] = j
        /\ kept = [k \in 1 .. n |-> queue[h[k]]]
        /\ kept \in Seq(Task)
  <2>1. S \in SUBSET DOMAIN queue
    OBVIOUS
  <2> HIDE DEF S
  <2>2. TypesInv
    OBVIOUS
  <2> QED BY ONLY <2>1, <2>2, OnlyKeeps
<1> HIDE DEF n
<1>2. PICK h \in [1 .. n -> S] :
        /\ \A k, l \in 1 .. n : h[k] = h[l] => k = l
        /\ \A j \in S : \E k \in 1 .. n : h[k] = j
        /\ kept = [k \in 1 .. n |-> queue[h[k]]]
        /\ kept \in Seq(Task)
  BY <1>10
<1>3. S \in SUBSET DOMAIN queue /\ \A i \in DOMAIN queue : queue[i].by # "gone" => i \in S
  OBVIOUS
<1> HIDE DEF S, kept
<1>4. /\ DOMAIN queue' = 1 .. n
      /\ \A k \in 1 .. n :
           /\ h[k] \in DOMAIN queue /\ kept[k] = queue[h[k]] /\ kept[k] \in Task
           /\ queue'[k] = IF Lapsed(kept[k]) THEN [kept[k] EXCEPT !.by = "none"] ELSE kept[k]
  <2>1. DOMAIN kept = 1 .. n /\ \A k \in 1 .. n : kept[k] = queue[h[k]] /\ kept[k] \in Task
    BY ONLY <1>2, <1>10
  <2>2. \A k \in 1 .. n : h[k] \in DOMAIN queue
    BY ONLY <1>2, <1>3
  <2>3. queue' = [k \in 1 .. n |->
                   IF Lapsed(kept[k]) THEN [kept[k] EXCEPT !.by = "none"] ELSE kept[k]]
    BY ONLY <1>1, <2>1
  <2> QED BY ONLY <2>1, <2>2, <2>3
<1>5. \A k \in 1 .. n :
        /\ queue'[k] \in Task
        /\ queue'[k].server = queue[h[k]].server /\ queue'[k].held = queue[h[k]].held
        /\ queue'[k].by \in Runners => queue'[k].by = queue[h[k]].by
        /\ queue[h[k]].by \in Runners => queue'[k].by = queue[h[k]].by
  <2> SUFFICES ASSUME NEW k \in 1 .. n
               PROVE  /\ queue'[k] \in Task
                      /\ queue'[k].server = queue[h[k]].server /\ queue'[k].held = queue[h[k]].held
                      /\ queue'[k].by \in Runners => queue'[k].by = queue[h[k]].by
                      /\ queue[h[k]].by \in Runners => queue'[k].by = queue[h[k]].by
    OBVIOUS
  <2>1. "none" \notin Runners /\ "gone" \notin Runners
    BY MetricsAssumption
  <2>2. CASE Lapsed(kept[k])
    BY <1>4, <2>1, <2>2 DEF Task
  <2>3. CASE ~Lapsed(kept[k])
    BY <1>4, <2>3
  <2> QED BY <2>2, <2>3
<1>6. TypesInv'
  <2>1. queue' = [k \in 1 .. n |-> queue'[k]]
    BY <1>1, <1>2, <1>4
  <2>2. queue' \in Seq(Task)
    BY ONLY <1>5, <1>10, <2>1
  <2> QED BY <1>1, <2>2 DEF TypesInv
<1>7. BusyInv'
  <2>1. ASSUME NEW k \in DOMAIN queue', queue'[k].by \in Runners
        PROVE  queue'[k].held /\ busy'[queue'[k].by]
    BY <1>1, <1>4, <1>5, <2>1 DEF BusyInv
  <2>2. ASSUME NEW k \in DOMAIN queue', NEW l \in DOMAIN queue',
               queue'[k].by \in Runners, queue'[k].by = queue'[l].by
        PROVE  k = l
    <3>1. h[k] = h[l]
      BY <1>4, <1>5, <2>2 DEF BusyInv
    <3> QED BY <1>2, <1>4, <3>1
  <2>3. ASSUME NEW w \in Runners, busy'[w]
        PROVE  \E k \in DOMAIN queue' : queue'[k].by = w
    <3>1. PICK j \in DOMAIN queue : queue[j].by = w
      BY <1>1, <2>3 DEF BusyInv
    <3>2. j \in S
      BY <1>3, <3>1, MetricsAssumption
    <3>3. PICK k \in 1 .. n : h[k] = j
      BY <1>2, <3>2
    <3> QED BY <1>4, <1>5, <3>1, <3>3
  <2> QED BY <2>1, <2>2, <2>3 DEF BusyInv
<1>8. HeldInv'
  <2> SUFFICES ASSUME NEW k \in DOMAIN queue', NEW l \in DOMAIN queue',
                      queue'[k].held, queue'[l].held, queue'[k].server = queue'[l].server
               PROVE  k = l
    BY DEF HeldInv
  <2>1. h[k] = h[l]
    BY <1>4, <1>5 DEF HeldInv
  <2> QED BY <1>2, <1>4, <2>1
<1>9. PlaceInv'
  <2>1. h \in [1 .. n -> DOMAIN queue] /\ \A k \in 1 .. n : queue'[k].server = queue[h[k]].server
    BY <1>2, <1>3, <1>5
  <2>2. TypesInv /\ PlaceInv /\ todo' = todo
    BY <1>1
  <2> QED BY ONLY <1>2, <1>4, <1>10, <2>1, <2>2, PlacesLeft
<1> QED BY <1>6, <1>7, <1>8, <1>9

\* A Runner dies, and its lease runs out.
LEMMA CrashStep ==
  ASSUME MetricsInv, NEW r \in Runners, Crash(r)
  PROVE  MetricsInv'
<1> USE DEF MetricsInv
<1>1. /\ queue' = [i \in DOMAIN queue |->
            IF queue[i].by = r THEN [queue[i] EXCEPT !.by = "gone"] ELSE queue[i]]
      /\ busy' = [busy EXCEPT ![r] = FALSE] /\ todo' = [todo EXCEPT ![r] = {}]
      /\ ticking' = [ticking EXCEPT ![r] = FALSE] /\ UNCHANGED <<ready, sampled>>
  BY DEF Crash
<1>2. PICK n \in Nat : DOMAIN queue = 1 .. n /\ \A i \in 1 .. n : queue[i] \in Task
  BY DEF TypesInv
<1>3. "gone" \notin Runners
  BY MetricsAssumption
<1>4. /\ DOMAIN queue' = 1 .. n
      /\ \A i \in 1 .. n :
           /\ queue'[i] \in Task
           /\ queue'[i].server = queue[i].server /\ queue'[i].held = queue[i].held
           /\ queue'[i].by = IF queue[i].by = r THEN "gone" ELSE queue[i].by
  BY <1>1, <1>2 DEF Task
<1>5. TypesInv'
  <2>1. queue' \in Seq(Task)
    <3>1. queue' = [i \in 1 .. n |-> queue'[i]]
      BY <1>1, <1>2, <1>4
    <3> QED BY <1>4, <3>1
  <2> QED BY <1>1, <2>1 DEF TypesInv
<1>6. BusyInv'
  BY <1>1, <1>2, <1>3, <1>4 DEF BusyInv, TypesInv
<1>7. HeldInv'
  BY <1>2, <1>4 DEF HeldInv
<1>8. PlaceInv'
  <2>1. \A w \in Runners : todo'[w] = todo[w] \/ todo'[w] = {}
    BY <1>1 DEF TypesInv
  <2> QED BY <1>2, <1>4, <1>5, <2>1, PlacesKept
<1> QED BY <1>5, <1>6, <1>7, <1>8

LEMMA ExpireStep ==
  ASSUME MetricsInv, Expire
  PROVE  MetricsInv'
<1> USE DEF MetricsInv
<1>1. PICK i \in DOMAIN queue :
        queue[i].by = "gone" /\ queue' = [queue EXCEPT ![i].held = FALSE]
  BY DEF Expire
<1>2. UNCHANGED <<ready, todo, ticking, busy, sampled>>
  BY DEF Expire
<1>3. PICK n \in Nat : DOMAIN queue = 1 .. n /\ \A j \in 1 .. n : queue[j] \in Task
  BY DEF TypesInv
<1>4. /\ DOMAIN queue' = 1 .. n
      /\ \A j \in 1 .. n :
           /\ queue'[j] \in Task
           /\ queue'[j].server = queue[j].server /\ queue'[j].by = queue[j].by
           /\ j # i => queue'[j].held = queue[j].held
           /\ queue'[j].held => queue[j].held
  BY <1>1, <1>3 DEF Task
<1>5. TypesInv'
  <2>1. queue' \in Seq(Task)
    <3>1. queue' = [j \in 1 .. n |-> queue'[j]]
      BY <1>1, <1>3, <1>4
    <3> QED BY <1>4, <3>1
  <2> QED BY <1>2, <2>1 DEF TypesInv
<1>6. BusyInv'
  BY <1>1, <1>2, <1>3, <1>4, MetricsAssumption DEF BusyInv
<1>7. HeldInv'
  BY <1>3, <1>4 DEF HeldInv
<1>8. PlaceInv'
  BY <1>2, <1>3, <1>4, <1>5, PlacesKept
<1> QED BY <1>5, <1>6, <1>7, <1>8

\* The other steps write no task.
LEMMA OtherMetricsSteps ==
  ASSUME MetricsInv,
         \/ \E r \in Runners : TickFails(r)
         \/ \E s \in Servers : Edit(s)
         \/ UNCHANGED vars
  PROVE  MetricsInv'
<1> USE DEF MetricsInv
<1>1. queue' = queue /\ busy' = busy
  BY DEF TickFails, EndTick, Edit, vars
<1>2. \A r \in Runners : todo'[r] = todo[r] \/ todo'[r] = {}
  BY DEF TickFails, EndTick, Edit, vars, TypesInv
<1>3. TypesInv'
  BY DEF TypesInv, TickFails, EndTick, Edit, vars
<1>4. BusyInv' /\ HeldInv'
  BY <1>1 DEF BusyInv, HeldInv
<1>5. PlaceInv'
  BY <1>1, <1>2, <1>3, PlacesKept
<1> QED BY <1>3, <1>4, <1>5

-----------------------------------------------------------------------------
\* However many schedulers insert tasks at a time and whatever crashes, tasks
\* of a server neither pile up nor run side by side (scheduler.py tick,
\* repositories.py lease_next).
THEOREM SamplesStayBounded == Spec => []SamplesAreBounded
<1>1. MetricsInv /\ [Next]_vars => MetricsInv'
  <2> SUFFICES ASSUME MetricsInv, [Next]_vars PROVE MetricsInv'
    OBVIOUS
  <2>1. ASSUME NEW r \in Runners, Tick(r) PROVE MetricsInv'
    BY <2>1, TickReadStep, TickWriteStep, OtherMetricsSteps DEF Tick
  <2>2. ASSUME NEW r \in Runners, NEW s \in Servers, Sample(r, s) \/ HandlerFails(r, s)
        PROVE  MetricsInv'
    <3>1. Finish(r, s)
      BY <2>2 DEF Sample, HandlerFails
    <3>2. sampled' \subseteq Servers
      BY <2>2 DEF Sample, HandlerFails, MetricsInv, TypesInv
    <3> QED BY <3>1, <3>2, FinishStep
  <2> QED BY <2>1, <2>2, ClaimStep, CrashStep, RecoverStep, ExpireStep, OtherMetricsSteps
          DEF Next, Handle
<1> QED BY InitMetrics, <1>1, InvIsEnough, PTL DEF Spec
=============================================================================
