--------------------------- MODULE WebhookProofs ---------------------------
(***************************************************************************)
(* Proofs about WebhookDeliveries, for any number of deliveries and posts, *)
(* edits of the project, crashes and lost answers.                         *)
(***************************************************************************)
EXTENDS WebhookDeliveries, TLAPS

Verdicts ==
  {"accepted", "ignored_event", "ignored_commit", "ignored_branch", "invalid_payload",
   "invalid_environment", "invalid_server"}

\* TypeOK does not say what its functions return.
RangeInv ==
  /\ key \in [Deliveries -> SUBSET Posts]
  /\ rows \in [Deliveries -> [status : Verdicts \cup {"none"}, run : Nat]]
  /\ verdict \in [Posts -> Verdicts \cup {"none"}]
  /\ answer \in [Posts -> Answers]
  /\ environment \in {"none", "foreign", "unready", "ready"}

\* A delivery has a run if and only if it is recorded as accepted.
RowInv ==
  \A d \in Deliveries :
    /\ rows[d].status = "none" => rows[d] = NoRow
    /\ rows[d].status # "accepted" => rows[d].run = 0

\* The key of a delivery is held by one open transaction, and only while the
\* delivery has no row: a row is never written twice.
KeyInv ==
  /\ \A d \in Deliveries : \A p, q \in key[d] : p = q
  /\ \A q \in Posts :
       /\ at[q] \in {"decide", "commit"} => rows[Of(q)] = NoRow
       /\ at[q] = "commit" => verdict[q] \in Verdicts

\* An answer repeats what the row says, or there is none.
Repeats(a, d) ==
  /\ a.code = "accepted" => rows[d] # NoRow /\ a.run = rows[d].run
  /\ a.code = "duplicate" => \/ rows[d] # NoRow /\ a.run = rows[d].run
                             \/ a.run = 0 /\ d \in misled
  /\ a.code = "ignored" => rows[d].status \notin {"none", "accepted"}
  /\ a.code \notin {"accepted", "duplicate"} => a.run = 0

AnswerInv ==
  /\ \A q \in Posts : Repeats(answer[q], Of(q))
  /\ \A d \in Deliveries : Repeats(told[d], d)

DeliveryInv == TypeOK /\ RangeInv /\ RowInv /\ KeyInv /\ AnswerInv /\ OneRunEach

LEMMA PostOf == \A q \in Posts : Of(q) \in Deliveries
BY DEF Posts, Of

LEMMA InitDelivery == Init => DeliveryInv
<1> SUFFICES ASSUME Init PROVE DeliveryInv
  OBVIOUS
<1> USE PostOf DEF Init, NoRow, NoAnswer
<1>1. TypeOK
  BY DEF TypeOK, Answers
<1>2. RangeInv
  BY DEF RangeInv, Answers
<1>3. RowInv /\ KeyInv /\ AnswerInv
  BY DEF RowInv, KeyInv, AnswerInv, Repeats
<1>4. OneRunEach
  BY DEF OneRunEach
<1> QED BY <1>1, <1>2, <1>3, <1>4 DEF DeliveryInv

\* The invariant says what an answer must.
LEMMA AnswersAreTrue == DeliveryInv => DeliveryCountsOnce
<1> SUFFICES ASSUME DeliveryInv PROVE AnswersHold
  BY DEF DeliveryInv, DeliveryCountsOnce
<1> USE DEF DeliveryInv
<1> SUFFICES ASSUME NEW d \in Deliveries, NEW a \in Answers, Repeats(a, d)
             PROVE  /\ a.run # 0 => a.run \in DOMAIN runs /\ runs[a.run] = d
                    /\ a.code \in {"accepted", "duplicate"} /\ a.run = 0 =>
                         \/ rows[d].status # "accepted"
                         \/ a.code = "duplicate" /\ d \in misled
                    /\ a.code = "ignored" => d \notin ToSet(runs)
  BY DEF AnswersHold, AnswerInv, RangeInv, TypeOK
<1>1. a.run # 0 => rows[d].status = "accepted" /\ a.run = rows[d].run
  BY DEF Repeats, RowInv
<1>2. a.run # 0 => a.run \in DOMAIN runs /\ runs[a.run] = d
  BY <1>1 DEF OneRunEach
<1>3. rows[d].status = "accepted" => rows[d].run \in DOMAIN runs
  BY DEF OneRunEach
<1>4. 0 \notin DOMAIN runs
  BY DEF TypeOK
<1>5. a.code \in {"accepted", "duplicate"} /\ a.run = 0 =>
        rows[d].status # "accepted" \/ (a.code = "duplicate" /\ d \in misled)
  BY <1>3, <1>4 DEF Repeats
<1>6. a.code = "ignored" => d \notin ToSet(runs)
  <2>1. \A n \in DOMAIN runs : runs[n] = d => rows[d] = [status |-> "accepted", run |-> n]
    BY DEF OneRunEach
  <2>2. ASSUME NEW n \in DOMAIN runs, runs[n] = d PROVE rows[d].status = "accepted"
    <3>1. rows[d] = [status |-> "accepted", run |-> n]
      BY <2>1, <2>2
    <3> QED BY <3>1
  <2> QED BY <2>2 DEF Repeats, ToSet
<1> QED BY <1>2, <1>5, <1>6
-----------------------------------------------------------------------------
(* The steps of a handler.                                                 *)

\* The variables that a step of a handler leaves alone unless it inserts or
\* commits.
quietVars == <<kind, project, environment, rows, runs, key, told>>

\* More deliveries may have been taken for duplicates.
MisledGrows == misled' \subseteq Deliveries /\ misled \subseteq misled'

\* A handler answers what the row says, without a transaction of its own.
LEMMA AnswerStep ==
  ASSUME DeliveryInv, NEW q \in Posts,
         at[q] \in {"lookup", "project", "insert", "orphaned", "conflict"},
         NEW code \in {"duplicate", "refused", "error"}, NEW run \in Nat,
         Repeats([code |-> code, run |-> run], Of(q))',
         Answer(q, code, run), UNCHANGED quietVars, MisledGrows
  PROVE  DeliveryInv'
<1> USE PostOf DEF DeliveryInv, quietVars, Answer, MisledGrows
<1>1. OneRunEach' /\ RowInv'
  BY DEF OneRunEach, RowInv
<1>2. at' \in [Posts -> {"idle", "lookup", "project", "insert", "orphaned", "conflict",
                       "decide", "commit", "answered"}]
  BY DEF TypeOK
<1>3. /\ answer' \in [Posts -> Answers]
      /\ \A p \in Posts : at'[p] = "answered" <=> answer'[p] # NoAnswer
  BY DEF TypeOK, RangeInv, Answers, NoAnswer
<1>4. \A p \in Posts : at'[p] \in {"decide", "commit"} <=> at[p] \in {"decide", "commit"}
  BY DEF TypeOK
<1>5. TypeOK'
  BY <1>2, <1>3, <1>4 DEF TypeOK
<1>6. RangeInv'
  BY <1>3 DEF RangeInv
<1>7. KeyInv'
  BY DEF TypeOK, RangeInv, KeyInv
<1>8. AnswerInv'
  BY DEF TypeOK, RangeInv, AnswerInv, Repeats
<1> QED BY <1>1, <1>5, <1>6, <1>7, <1>8

\* A handler goes on, without a transaction of its own.
LEMMA GoToStep ==
  ASSUME DeliveryInv, NEW q \in Posts,
         at[q] \in {"idle", "lookup", "project", "insert", "orphaned"},
         NEW step \in {"lookup", "project", "insert", "conflict"},
         GoTo(q, step), UNCHANGED <<quietVars, misled>>
  PROVE  DeliveryInv'
<1> USE PostOf DEF DeliveryInv, quietVars, GoTo
<1>1. OneRunEach' /\ RowInv' /\ RangeInv' /\ AnswerInv'
  BY DEF OneRunEach, RowInv, RangeInv, AnswerInv, Repeats
<1>2. at' \in [Posts -> {"idle", "lookup", "project", "insert", "orphaned", "conflict",
                       "decide", "commit", "answered"}]
  BY DEF TypeOK
<1>3. \A p \in Posts : /\ at'[p] \in {"decide", "commit"} <=> at[p] \in {"decide", "commit"}
                       /\ at'[p] = "answered" <=> at[p] = "answered"
  BY DEF TypeOK
<1>4. TypeOK'
  BY <1>2, <1>3 DEF TypeOK
<1>5. KeyInv'
  BY DEF TypeOK, KeyInv
<1> QED BY <1>1, <1>4, <1>5

\* What a delivery is answered that is recorded, or was taken to be.
LEMMA DuplicateRepeats ==
  ASSUME DeliveryInv, NEW d \in Deliveries, rows[d] # NoRow \/ d \in misled', UNCHANGED rows
  PROVE  \E n \in Nat : n = RunOfRow(d) /\ Repeats([code |-> "duplicate", run |-> n], d)'
<1>1. PICK n \in Nat : n = rows[d].run
  BY DEF DeliveryInv, RangeInv
<1>2. rows[d] = NoRow => n = 0
  BY <1>1 DEF NoRow
<1>3. Repeats([code |-> "duplicate", run |-> n], d)'
  BY <1>1, <1>2 DEF Repeats, NoRow
<1> QED BY <1>1, <1>3 DEF RunOfRow

\* Steps that write no row and take no key.
LEMMA HandlerSteps ==
  ASSUME DeliveryInv, NEW q \in Posts,
         Post(q) \/ Lookup(q) \/ FindProject(q) \/ InsertTimesOut(q) \/ Conflict(q)
  PROVE  DeliveryInv'
<1>1. Of(q) \in Deliveries
  BY PostOf
<1>2. UNCHANGED quietVars
  BY DEF quietVars, Post, Lookup, FindProject, InsertTimesOut, Conflict, setup, heard
<1>3. \A code \in {"refused", "error"} : Repeats([code |-> code, run |-> 0], Of(q))'
  BY DEF Repeats
<1>4. misled \subseteq Deliveries
  BY DEF DeliveryInv, TypeOK
<1>5. CASE Post(q)
  BY <1>5, <1>2, GoToStep DEF Post, heard
<1>6. CASE Lookup(q)
  <2>1. MisledGrows /\ UNCHANGED <<rows, misled>>
    BY <1>6, <1>4 DEF Lookup, heard, MisledGrows
  <2>2. CASE kind[Of(q)] # "no_repository" /\ rows[Of(q)] # NoRow
    <3>1. at[q] = "lookup" /\ Answer(q, "duplicate", RunOfRow(Of(q)))
      BY <1>6, <2>2 DEF Lookup
    <3>2. PICK n \in Nat :
            n = RunOfRow(Of(q)) /\ Repeats([code |-> "duplicate", run |-> n], Of(q))'
      BY <1>1, <2>1, <2>2, DuplicateRepeats
    <3> QED BY <1>2, <2>1, <3>1, <3>2, AnswerStep
  <2>3. CASE kind[Of(q)] = "no_repository" \/ rows[Of(q)] = NoRow
    BY <2>1, <2>3, <1>6, <1>2, <1>3, GoToStep, AnswerStep DEF Lookup
  <2> QED BY <2>2, <2>3
<1>7. CASE FindProject(q)
  <2>1. MisledGrows /\ UNCHANGED misled
    BY <1>7, <1>4 DEF FindProject, heard, MisledGrows
  <2> QED BY <2>1, <1>7, <1>2, <1>3, GoToStep, AnswerStep DEF FindProject
<1>8. CASE InsertTimesOut(q)
  <2>1. MisledGrows
    BY <1>8, <1>4 DEF InsertTimesOut, heard, MisledGrows
  <2> QED BY <2>1, <1>8, <1>2, <1>3, AnswerStep DEF InsertTimesOut
<1>9. CASE Conflict(q)
  <2>1. MisledGrows /\ UNCHANGED rows /\ (rows[Of(q)] # NoRow \/ Of(q) \in misled')
    BY <1>9, <1>1, <1>4 DEF Conflict, MisledGrows
  <2>2. at[q] = "conflict" /\ Answer(q, "duplicate", RunOfRow(Of(q)))
    BY <1>9 DEF Conflict
  <2>3. PICK n \in Nat :
          n = RunOfRow(Of(q)) /\ Repeats([code |-> "duplicate", run |-> n], Of(q))'
    BY <1>1, <2>1, DuplicateRepeats
  <2> QED BY <1>2, <2>1, <2>2, <2>3, AnswerStep
<1> QED BY <1>5, <1>6, <1>7, <1>8, <1>9

\* The verdict is one that can be committed.
LEMMA DecideStep ==
  ASSUME DeliveryInv, NEW q \in Posts, Decide(q)
  PROVE  DeliveryInv'
<1> USE PostOf DEF DeliveryInv, Decide, setup, heard, bounds
<1>1. OneRunEach' /\ RowInv' /\ AnswerInv'
  BY DEF OneRunEach, RowInv, AnswerInv, Repeats
<1>2. Verdict(Of(q)) \in Verdicts
  BY DEF Verdict, Verdicts
<1>3. at' \in [Posts -> {"idle", "lookup", "project", "insert", "orphaned", "conflict",
                       "decide", "commit", "answered"}]
  BY DEF TypeOK
<1>4. \A p \in Posts : /\ at'[p] \in {"decide", "commit"} <=> at[p] \in {"decide", "commit"}
                       /\ at'[p] = "answered" <=> at[p] = "answered"
  BY DEF TypeOK
<1>5. TypeOK'
  BY <1>3, <1>4 DEF TypeOK
<1>6. RangeInv'
  BY <1>2 DEF RangeInv
<1>7. KeyInv'
  BY <1>2 DEF TypeOK, RangeInv, KeyInv
<1> QED BY <1>1, <1>5, <1>6, <1>7

\* The insert waits until no transaction holds the key.
LEMMA InsertStep ==
  ASSUME DeliveryInv, NEW q \in Posts, Insert(q)
  PROVE  DeliveryInv'
<1>1. CASE rows[Of(q)] # NoRow \/ at[q] = "orphaned"
  BY <1>1, GoToStep DEF Insert, quietVars, setup, heard
<1>2. CASE ~(rows[Of(q)] # NoRow \/ at[q] = "orphaned")
  <2> USE PostOf DEF DeliveryInv, Insert, setup, heard, bounds, GoTo
  <2>1. RowInv' /\ OneRunEach' /\ AnswerInv'
    BY <1>2 DEF RowInv, OneRunEach, AnswerInv, Repeats
  <2>2. RangeInv'
    BY <1>2 DEF RangeInv
  <2>3. at' \in [Posts -> {"idle", "lookup", "project", "insert", "orphaned", "conflict",
                         "decide", "commit", "answered"}]
    BY <1>2 DEF TypeOK
  <2>4. \A p \in Posts : at'[p] = "answered" <=> at[p] = "answered"
    BY <1>2 DEF TypeOK
  <2>5. ASSUME NEW d \in Deliveries
        PROVE  key'[d] = {p \in Posts : Of(p) = d /\ at'[p] \in {"decide", "commit"}}
    <3>1. CASE d = Of(q)
      BY <1>2, <3>1 DEF TypeOK, RangeInv
    <3>2. CASE d # Of(q)
      BY <1>2, <3>2 DEF TypeOK, RangeInv
    <3> QED BY <3>1, <3>2
  <2>6. TypeOK'
    BY <1>2, <2>3, <2>4, <2>5 DEF TypeOK
  <2>7. KeyInv'
    <3>1. ASSUME NEW d \in Deliveries, NEW p \in key'[d], NEW r \in key'[d] PROVE p = r
      BY <1>2, <3>1 DEF RangeInv, KeyInv
    <3>2. ASSUME NEW p \in Posts
          PROVE  /\ at'[p] \in {"decide", "commit"} => rows'[Of(p)] = NoRow
                 /\ at'[p] = "commit" => verdict'[p] \in Verdicts
      BY <1>2 DEF TypeOK, KeyInv
    <3> QED BY <3>1, <3>2 DEF KeyInv
  <2> QED BY <2>1, <2>2, <2>6, <2>7
<1> QED BY <1>1, <1>2

\* Row and run are committed together by the one post that holds the key.
LEMMA CommitStep ==
  ASSUME DeliveryInv, NEW q \in Posts, Commit(q)
  PROVE  DeliveryInv'
<1> DEFINE d == Of(q)
           run == IF verdict[q] = "accepted" THEN Len(runs) + 1 ELSE 0
           code == Code(verdict[q])
<1> USE DEF DeliveryInv
<1>1. /\ at[q] = "commit" /\ d \in Deliveries /\ run \in Nat
      /\ runs \in Seq(Deliveries \cup {"manual"})
      /\ runs' = IF run = 0 THEN runs ELSE Append(runs, d)
      /\ rows' = [rows EXCEPT ![d] = [status |-> verdict[q], run |-> run]]
      /\ key' = [key EXCEPT ![d] = @ \ {q}]
      /\ Answer(q, code, run)
      /\ UNCHANGED <<setup, told, misled>>
  BY PostOf DEF Commit, TypeOK, heard
<1>2. rows[d] = NoRow /\ verdict[q] \in Verdicts
  BY <1>1 DEF KeyInv
<1>3. code \in {"accepted", "ignored", "refused"}
  BY DEF Code
<1>4. \A p \in Posts \ {q} : Of(p) = d => at[p] \notin {"decide", "commit"}
  <2>1. key[d] = {p \in Posts : Of(p) = d /\ at[p] \in {"decide", "commit"}}
    BY <1>1 DEF TypeOK
  <2> QED BY <2>1, <1>1 DEF KeyInv
<1>5. RangeInv'
  BY <1>1, <1>2, <1>3 DEF RangeInv, Answer, Answers, setup
<1>6. RowInv'
  BY <1>1, <1>2 DEF RowInv, RangeInv, NoRow, Verdicts
<1>7. TypeOK'
  <2>1. runs' \in Seq(Deliveries \cup {"manual"})
    BY <1>1
  <2>2. at' \in [Posts -> {"idle", "lookup", "project", "insert", "orphaned", "conflict",
                         "decide", "commit", "answered"}]
    BY <1>1 DEF TypeOK, Answer
  <2>3. \A p \in Posts : answer'[p] \in Answers /\ (at'[p] = "answered" <=> answer'[p] # NoAnswer)
    BY <1>1, <1>3 DEF TypeOK, RangeInv, Answer, Answers, NoAnswer
  <2>4. ASSUME NEW e \in Deliveries
        PROVE  key'[e] = {p \in Posts : Of(p) = e /\ at'[p] \in {"decide", "commit"}}
    BY <1>1 DEF TypeOK, RangeInv, Answer
  <2>5. DOMAIN rows' = Deliveries
    BY <1>1 DEF TypeOK
  <2> QED BY <1>1, <2>1, <2>2, <2>3, <2>4, <2>5 DEF TypeOK, setup
<1>8. KeyInv'
  <2>1. ASSUME NEW e \in Deliveries, NEW p \in key'[e], NEW r \in key'[e] PROVE p = r
    BY <1>1, <2>1 DEF RangeInv, KeyInv
  <2>2. ASSUME NEW p \in Posts
        PROVE  /\ at'[p] \in {"decide", "commit"} => rows'[Of(p)] = NoRow
               /\ at'[p] = "commit" => verdict'[p] \in Verdicts
    <3>1. CASE p = q
      BY <1>1, <3>1 DEF TypeOK, Answer
    <3>2. CASE p # q
      <4>1. at'[p] = at[p] /\ verdict'[p] = verdict[p]
        BY <1>1, <3>2 DEF TypeOK, RangeInv, Answer
      <4>2. Of(p) # d => rows'[Of(p)] = rows[Of(p)]
        BY <1>1, PostOf DEF TypeOK
      <4>3. Of(p) = d => rows'[Of(p)] # NoRow
        BY <1>1, <1>2 DEF TypeOK, Verdicts, NoRow
      <4> QED BY <3>2, <4>1, <4>2, <4>3, <1>4 DEF KeyInv
    <3> QED BY <3>1, <3>2
  <2> QED BY <2>1, <2>2 DEF KeyInv
<1>9. AnswerInv'
  <2>1. ASSUME NEW a, NEW e \in Deliveries, Repeats(a, e) PROVE Repeats(a, e)'
    <3>1. CASE e = d
      <4>1. rows[d] = NoRow /\ rows[d].status = "none" /\ misled' = misled
        BY <1>1, <1>2 DEF NoRow
      <4>2. /\ a.code \notin {"accepted", "ignored"}
            /\ a.code = "duplicate" => a.run = 0 /\ d \in misled
            /\ a.code \notin {"accepted", "duplicate"} => a.run = 0
        BY <2>1, <3>1, <4>1 DEF Repeats
      <4> QED BY <3>1, <4>1, <4>2 DEF Repeats
    <3>2. CASE e # d
      BY <2>1, <3>2, <1>1 DEF Repeats, TypeOK
    <3> QED BY <3>1, <3>2
  <2>2. Repeats(answer[q], Of(q))'
    BY <1>1, <1>2 DEF Repeats, Answer, Code, Verdicts, TypeOK, RangeInv, NoRow
  <2>3. \A p \in Posts \ {q} : answer'[p] = answer[p] /\ Of(p) \in Deliveries
    BY <1>1, PostOf DEF RangeInv, Answer
  <2> QED BY <1>1, <2>1, <2>2, <2>3 DEF AnswerInv
<1>10. OneRunEach'
  <2>1. \A n \in DOMAIN runs : runs[n] # d
    <3>1. ASSUME NEW n \in DOMAIN runs, runs[n] = d PROVE FALSE
      <4>1. rows[d] = [status |-> "accepted", run |-> n]
        BY <1>1, <3>1 DEF OneRunEach
      <4> QED BY <4>1, <1>2 DEF NoRow
    <3> QED BY <3>1
  <2>2. ASSUME NEW e \in Deliveries \ {d}
        PROVE  /\ rows'[e] = rows[e]
               /\ \A n \in DOMAIN runs' : runs'[n] = e => n \in DOMAIN runs /\ runs[n] = e
               /\ \A n \in DOMAIN runs : n \in DOMAIN runs' /\ runs'[n] = runs[n]
    BY <1>1 DEF TypeOK
  <2>3. CASE run = 0
    BY <1>1, <2>1, <2>2, <2>3 DEF OneRunEach, TypeOK
  <2>4. CASE run # 0
    <3>1. run = Len(runs) + 1 /\ runs' = Append(runs, d) /\ verdict[q] = "accepted"
      BY <1>1, <2>4
    <3>2. \A n \in DOMAIN runs' : runs'[n] = d <=> n = run
      BY <1>1, <2>1, <3>1
    <3>3. rows'[d] = [status |-> "accepted", run |-> run] /\ run \in DOMAIN runs'
      BY <1>1, <3>1 DEF TypeOK
    <3> QED BY <1>1, <2>2, <3>2, <3>3 DEF OneRunEach
  <2> QED BY <2>3, <2>4
<1> QED BY <1>5, <1>6, <1>7, <1>8, <1>9, <1>10

-----------------------------------------------------------------------------
(* The others.                                                             *)

\* A manual run leaves the runs of deliveries where they are.
LEMMA TriggerStep ==
  ASSUME DeliveryInv, TriggerRun
  PROVE  DeliveryInv'
<1> USE DEF DeliveryInv, TriggerRun, setup, heard
<1>1. RangeInv' /\ RowInv' /\ KeyInv' /\ AnswerInv'
  BY DEF RangeInv, RowInv, KeyInv, AnswerInv, Repeats
<1>2. TypeOK'
  BY DEF TypeOK
<1>3. OneRunEach'
  <2>1. \A n \in DOMAIN runs : n \in DOMAIN runs' /\ runs'[n] = runs[n]
    BY DEF TypeOK
  <2>2. ASSUME NEW d \in Deliveries, NEW n \in DOMAIN runs', runs'[n] = d
        PROVE  n \in DOMAIN runs /\ runs[n] = d
    BY <2>2, WebhookAssumption DEF TypeOK
  <2> QED BY <2>1, <2>2 DEF OneRunEach
<1> QED BY <1>1, <1>2, <1>3

\* Edits of the project, and answers that arrive or are lost.
LEMMA ProviderSteps ==
  ASSUME DeliveryInv, Change \/ DeleteProject \/ Crash \/ \E q \in Posts : Receive(q) \/ Lose(q)
  PROVE  DeliveryInv'
<1> USE PostOf DEF DeliveryInv, setup, heard, bounds, Forget
<1>1. UNCHANGED <<rows, runs>>
  BY DEF Change, DeleteProject, Crash, Receive, Lose
<1>2. OneRunEach' /\ RowInv'
  BY <1>1 DEF OneRunEach, RowInv
<1>3. CASE Change
  <2>1. /\ UNCHANGED <<kind, rows, runs, key, at, verdict, answer, told, misled>>
        /\ project' \in {"ok", "missing", "no_image", "no_secret"}
        /\ environment' \in {"none", "foreign", "unready", "ready"}
    BY <1>3 DEF Change, TypeOK, heard
  <2> QED BY <1>2, <2>1 DEF TypeOK, RangeInv, KeyInv, AnswerInv, Repeats
<1>4. CASE Crash
  BY <1>2, <1>4 DEF Crash, TypeOK, RangeInv, KeyInv, AnswerInv, Repeats, NoAnswer, Answers
<1>5. ASSUME NEW q \in Posts, Receive(q) PROVE DeliveryInv'
  BY <1>2, <1>5 DEF Receive, TypeOK, RangeInv, KeyInv, AnswerInv, Repeats, NoAnswer, Answers
<1>6. ASSUME NEW q \in Posts, Lose(q) PROVE DeliveryInv'
  BY <1>2, <1>6 DEF Lose, TypeOK, RangeInv, KeyInv, AnswerInv, Repeats, NoAnswer, Answers
<1>7. CASE DeleteProject
  <2>1. /\ UNCHANGED <<kind, environment, rows, runs, key, verdict, answer, told, misled>>
        /\ project' = "missing"
        /\ at' = [q \in Posts |-> IF at[q] = "insert" THEN "orphaned" ELSE at[q]]
    BY <1>7 DEF DeleteProject, heard
  <2>2. \A q \in Posts : /\ at'[q] \in {"decide", "commit"} <=> at[q] \in {"decide", "commit"}
                         /\ at'[q] = "commit" <=> at[q] = "commit"
                         /\ at'[q] = "answered" <=> at[q] = "answered"
    BY <2>1
  <2>3. at' \in [Posts -> {"idle", "lookup", "project", "insert", "orphaned", "conflict",
                          "decide", "commit", "answered"}]
    BY <2>1 DEF TypeOK
  <2>4. TypeOK'
    BY <2>1, <2>2, <2>3 DEF TypeOK
  <2>5. RangeInv' /\ AnswerInv'
    BY <2>1 DEF RangeInv, AnswerInv, Repeats
  <2>6. KeyInv'
    BY <2>1, <2>2 DEF KeyInv
  <2> QED BY <1>2, <2>4, <2>5, <2>6
<1> QED BY <1>3, <1>4, <1>5, <1>6, <1>7
-----------------------------------------------------------------------------
\* However often and closely a delivery is posted, it starts one run at most,
\* and every answer to it names that run (webhooks.py _handle).
THEOREM DeliveriesCountOnce == Spec => []DeliveryCountsOnce
<1>1. DeliveryInv /\ [Next]_vars => DeliveryInv'
  <2> SUFFICES ASSUME DeliveryInv, [Next]_vars PROVE DeliveryInv'
    OBVIOUS
  <2>1. ASSUME NEW q \in Posts,
               Post(q) \/ Handle(q) \/ InsertTimesOut(q) \/ Receive(q) \/ Lose(q)
        PROVE  DeliveryInv'
    BY <2>1, HandlerSteps, InsertStep, DecideStep, CommitStep, ProviderSteps DEF Handle
  <2>2. CASE TriggerRun \/ Change \/ DeleteProject \/ Crash
    BY <2>2, TriggerStep, ProviderSteps
  <2>3. CASE UNCHANGED vars
    BY <2>3 DEF vars, setup, heard, bounds, DeliveryInv, TypeOK, RangeInv, RowInv, KeyInv, AnswerInv,
                Repeats, OneRunEach
  <2> QED BY <2>1, <2>2, <2>3 DEF Next
<1> QED BY InitDelivery, AnswersAreTrue, <1>1, PTL DEF Spec
=============================================================================
