--------------------------- MODULE RunLogsProofs ---------------------------
(***************************************************************************)
(* Proofs about RunLogs, for any number of Runners, lines, cancel requests,*)
(* readers and broken connections, and any size of batches.                *)
(***************************************************************************)
EXTENDS RunLogs, FiniteSetTheorems, TLAPS

-----------------------------------------------------------------------------
(* Lemmas about the operators.                                             *)

\* The highest number of a log without gaps.
LEMMA MaxOfLog == \A n \in Nat : Max(1 .. n \cup {0}) = n
<1> SUFFICES ASSUME NEW n \in Nat PROVE Max(1 .. n \cup {0}) = n
  OBVIOUS
<1>1. n \in 1 .. n \cup {0} /\ \A y \in 1 .. n \cup {0} : n >= y
  OBVIOUS
<1>2. \A x \in 1 .. n \cup {0} : (\A y \in 1 .. n \cup {0} : x >= y) => x = n
  BY <1>1
<1> QED BY <1>1, <1>2 DEF Max

LEMMA SizeOfRange ==
  ASSUME NEW a \in Nat, NEW b \in Nat, a <= b
  PROVE  Cardinality(a + 1 .. b) = b - a
<1>1. a + 1 \in Int /\ b \in Int
  OBVIOUS
<1>2. Cardinality(a + 1 .. b) = IF a + 1 > b THEN 0 ELSE b - (a + 1) + 1
  BY ONLY <1>1, FS_Interval
<1> QED BY <1>2

LEMMA SizeOfLog == \A n \in Nat : Cardinality(1 .. n) = n
<1> SUFFICES ASSUME NEW n \in Nat PROVE Cardinality(1 .. n) = n
  OBVIOUS
<1>1. 1 \in Int /\ n \in Int
  OBVIOUS
<1>2. Cardinality(1 .. n) = IF 1 > n THEN 0 ELSE n - 1 + 1
  BY <1>1, FS_Interval
<1> QED BY <1>2

\* How many elements of a range are below one of them.
LEMMA BelowInRange ==
  ASSUME NEW a \in Nat, NEW b \in Nat, NEW n \in a + 1 .. b
  PROVE  Cardinality({m \in a + 1 .. b : m < n}) = n - a - 1
<1>1. {m \in a + 1 .. b : m < n} = a + 1 .. n - 1
  OBVIOUS
<1>2. n - 1 \in Nat /\ a <= n - 1
  OBVIOUS
<1>3. Cardinality(a + 1 .. n - 1) = n - 1 - a
  BY <1>2, SizeOfRange
<1>4. n - 1 - a = n - a - 1
  OBVIOUS
<1> QED BY <1>1, <1>3, <1>4, Zenon

\* A poll reads the range that follows the cursor, up to its limit.
LEMMA FirstOfRange ==
  ASSUME NEW a \in Nat, NEW b \in Nat, a <= b, NEW k \in Nat
  PROVE  \E e \in a .. b : FirstRows(a + 1 .. b, k) = a + 1 .. e
<1> DEFINE e == IF a + k <= b THEN a + k ELSE b
<1>1. FirstRows(a + 1 .. b, k) = {n \in a + 1 .. b : n - a - 1 < k}
  BY BelowInRange DEF FirstRows
<1>2. {n \in a + 1 .. b : n - a - 1 < k} = a + 1 .. e
  OBVIOUS
<1>3. e \in a .. b
  OBVIOUS
<1> QED BY <1>1, <1>2, <1>3

\* The rows of a batch are numbered from the one after the cursor.
LEMMA IthOfRange ==
  ASSUME NEW a \in Nat, NEW b \in Nat, NEW i \in 1 .. b - a
  PROVE  Ith(a + 1 .. b, i) = a + i
<1>1. a + i \in a + 1 .. b
  OBVIOUS
<1>2. \A n \in a + 1 .. b : Cardinality({m \in a + 1 .. b : m < n}) = n - a - 1
  BY BelowInRange
<1>3. \A n \in a + 1 .. b : Cardinality({m \in a + 1 .. b : m < n}) = i - 1 <=> n = a + i
  BY <1>1, <1>2
<1> QED BY <1>1, <1>3 DEF Ith

-----------------------------------------------------------------------------
(* The inductive invariant.                                                *)

Size == Cardinality(DOMAIN rows)

\* The numbers of an append or a cancel request are old or the next one.
NumberInv ==
  /\ Size \in Nat /\ DOMAIN rows = 1 .. Size
  /\ \A w \in Runners : pc[w] = "insert" => number[w] \in 1 .. Size + 1
  /\ cancel # 0 => cancel \in 1 .. Size + 1

\* An append has lost a number to others each time it tries again.
TriesInv ==
  \A w \in Runners :
    /\ pc[w] \in {"number", "insert"} => foreign[w] >= tries[w]
    /\ pc[w] \notin {"number", "insert"} => tries[w] = 0
    /\ pc[w] = "insert" /\ number[w] \in DOMAIN rows => foreign[w] > tries[w]

\* The line that is being appended is newer than all that its writer has stored
\* or given up.
LinesInv ==
  /\ begun \in [Runners -> Nat]
  /\ \A w \in Runners :
       /\ pc[w] # "idle" => begun[w] >= 1
       /\ \A f \in failed[w] :
            f <= begun[w] /\ (pc[w] \in {"number", "insert"} => f < begun[w])
  /\ \A n \in DOMAIN rows : \A w \in Runners :
       rows[n].by = w =>
         rows[n].nr <= begun[w] /\ (pc[w] \in {"number", "insert"} => rows[n].nr < begun[w])
  /\ \A n \in DOMAIN rows :
       rows[n].by = "api" =>
         rows[n].nr <= cancels /\ (found # "none" => rows[n].nr < cancels)
  /\ found # "none" => cancels >= 1
  /\ cancel # 0 => found # "none"

\* What a stream has read follows what its client has.
BatchInv ==
  \A r \in Readers :
    \E e \in Len(received[r]) .. Size : batch[r] = Len(received[r]) + 1 .. e

StreamInv ==
  /\ TypeOK /\ NumberInv /\ TriesInv /\ LinesInv /\ BatchInv
  /\ StoredInOrder /\ NothingSkipped

LEMMA InitStream == Init => StreamInv
<1> SUFFICES ASSUME Init PROVE StreamInv
  OBVIOUS
<1> USE LogsAssumption DEF Init
<1>1. DOMAIN rows = 1 .. 1 /\ Size = 1
  <2>1. DOMAIN rows = {1} /\ {1} = 1 .. 1
    OBVIOUS
  <2>2. Cardinality({1}) = 1
    BY FS_Singleton
  <2> QED BY <2>1, <2>2 DEF Size
<1>2. rows[1] = [by |-> "api", nr |-> 0] /\ rows[1] \in Line
  BY DEF Line
<1>3. TypeOK
  <2>1. rows \in [1 .. Cardinality(DOMAIN rows) -> Line]
    BY <1>1, <1>2 DEF Size
  <2>2. /\ tries \in [Runners -> 0 .. Attempts - 1]
        /\ \A w \in Runners : begun[w] \in 0 .. MaxLines[w]
        /\ cancels \in 0 .. MaxCancels /\ breaks \in 0 .. MaxBreaks
    BY DEF Attempts
  <2>3. received \in [Readers -> Seq(Event)] /\ batch \in [Readers -> SUBSET DOMAIN rows]
    OBVIOUS
  <2> QED BY <2>1, <2>2, <2>3 DEF TypeOK
<1>4. NumberInv /\ TriesInv /\ LinesInv
  BY <1>1, <1>2 DEF NumberInv, TriesInv, LinesInv
<1>5. BatchInv
  <2> SUFFICES ASSUME NEW r \in Readers
               PROVE  \E e \in Len(received[r]) .. Size : batch[r] = Len(received[r]) + 1 .. e
    BY DEF BatchInv
  <2>1. Len(received[r]) = 0 /\ batch[r] = 1 .. 0 /\ 0 \in 0 .. Size
    BY <1>1
  <2> QED BY <2>1
<1>6. StoredInOrder /\ NothingSkipped
  BY <1>1, <1>2 DEF StoredInOrder, NothingSkipped
<1> QED BY <1>3, <1>4, <1>5, <1>6 DEF StreamInv

LEMMA InvImpliesSound == StreamInv => StreamIsSound
BY DEF StreamInv, StreamIsSound, TriesInv, LostOnlyToOthers
\* What a line is.
LEMMA LineFields == \A l \in Line : l.nr \in Nat /\ l.by \in Runners \cup {"api"}
<1> SUFFICES ASSUME NEW l \in Line PROVE l.nr \in Nat /\ l.by \in Runners \cup {"api"}
  OBVIOUS
<1>1. CASE l \in [by : {"api"}, nr : 0 .. MaxCancels]
  BY <1>1, LogsAssumption
<1>2. CASE \E w \in Runners : l \in [by : {w}, nr : 1 .. MaxLines[w]]
  <2>1. PICK w \in Runners : l \in [by : {w}, nr : 1 .. MaxLines[w]]
    BY <1>2
  <2>2. l.by = w /\ l.nr \in 1 .. MaxLines[w] /\ MaxLines[w] \in Nat
    BY <2>1, LogsAssumption
  <2> QED BY <2>2
<1> QED BY <1>1, <1>2 DEF Line

LEMMA RowFields ==
  TypeOK => \A n \in DOMAIN rows :
              rows[n] \in Line /\ rows[n].nr \in Nat /\ rows[n].by \in Runners \cup {"api"}
<1> SUFFICES ASSUME TypeOK, NEW n \in DOMAIN rows
             PROVE  rows[n] \in Line
  BY LineFields
<1> QED BY DEF TypeOK

-----------------------------------------------------------------------------
(* Steps that leave the rows alone.                                        *)

\* The number that append and cancel_run read is the next one.
LEMMA NextIsNew == StreamInv => NextNumber = Size + 1
BY MaxOfLog DEF StreamInv, NumberInv, NextNumber

\* What readers have stays right while rows and readers are left alone.
LEMMA ReadersIdle ==
  ASSUME StreamInv, UNCHANGED <<rows, readerVars>>
  PROVE  Size' = Size /\ BatchInv' /\ NothingSkipped'
BY DEF StreamInv, Size, BatchInv, NothingSkipped, readerVars

\* An append begins, reads its number, or reads it once more.
LEMMA AppendSteps ==
  ASSUME StreamInv, NEW w \in Runners, Begin(w) \/ ReadNumber(w) \/ Retry(w)
  PROVE  StreamInv' /\ UNCHANGED <<rows, readerVars>>
<1> USE DEF StreamInv
<1>1. UNCHANGED <<rows, runVars, failed, foreign, cancelVars, readerVars>>
  BY DEF Begin, ReadNumber, Retry
<1>2. Size' = Size /\ BatchInv' /\ NothingSkipped' /\ StoredInOrder'
  BY <1>1, ReadersIdle DEF StoredInOrder
<1>3. TypeOK'
  <2>1. tries' \in [Runners -> 0 .. Attempts - 1]
    BY DEF TypeOK, Attempts, Begin, ReadNumber, Retry
  <2>2. number' \in [Runners -> Nat]
    <3>1. NextNumber \in Nat
      BY NextIsNew DEF NumberInv
    <3>2. number \in [Runners -> Nat]
      BY DEF TypeOK
    <3>3. \/ UNCHANGED number
          \/ number' = [number EXCEPT ![w] = NextNumber]
          \/ number' = [number EXCEPT ![w] = 0]
      BY DEF Begin, ReadNumber, Retry
    <3> QED BY <3>1, <3>2, <3>3
  <2>3. \A v \in Runners : begun'[v] \in 0 .. MaxLines[v]
    <3>1. CASE Begin(w)
      <4>1. begun[w] + 1 \in 0 .. MaxLines[w]
        <5>1. begun[w] \in Nat /\ MaxLines[w] \in Nat /\ begun[w] < MaxLines[w]
          BY <3>1, LogsAssumption DEF Begin, LinesInv
        <5> QED BY <5>1
      <4> QED BY <3>1, <4>1 DEF Begin, TypeOK, LinesInv
    <3>2. CASE UNCHANGED begun
      BY <3>2 DEF TypeOK
    <3> QED BY <3>1, <3>2 DEF Begin, ReadNumber, Retry
  <2>4. pc' \in [Runners -> {"idle", "insert", "number", "file"}]
    BY DEF TypeOK, Begin, ReadNumber, Retry
  <2> QED BY <1>1, <2>1, <2>2, <2>3, <2>4 DEF TypeOK, runVars, cancelVars, readerVars
<1>4. NumberInv'
  <2>1. ASSUME NEW v \in Runners, pc'[v] = "insert" PROVE number'[v] \in 1 .. Size + 1
    <3>1. CASE v = w
      BY <2>1, <3>1, NextIsNew DEF NumberInv, TypeOK, Begin, ReadNumber, Retry
    <3>2. CASE v # w
      <4>1. pc'[v] = pc[v] /\ number'[v] = number[v]
        BY <3>2 DEF TypeOK, Begin, ReadNumber, Retry
      <4> QED BY <2>1, <4>1 DEF NumberInv
    <3> QED BY <3>1, <3>2
  <2> QED BY <1>1, <1>2, <2>1 DEF NumberInv, cancelVars
<1>5. TriesInv'
  <2> SUFFICES ASSUME NEW v \in Runners
               PROVE  /\ pc'[v] \in {"number", "insert"} => foreign[v] >= tries'[v]
                      /\ pc'[v] \notin {"number", "insert"} => tries'[v] = 0
                      /\ pc'[v] = "insert" /\ number'[v] \in DOMAIN rows => foreign[v] > tries'[v]
    BY <1>1 DEF TriesInv
  <2>1. CASE v # w
    <3>1. pc'[v] = pc[v] /\ number'[v] = number[v] /\ tries'[v] = tries[v]
      BY <2>1 DEF TypeOK, Begin, ReadNumber, Retry
    <3> QED BY <3>1 DEF TriesInv
  <2>2. CASE v = w /\ Begin(w)
    BY <2>2 DEF Begin, TriesInv, TypeOK
  <2>3. CASE v = w /\ ReadNumber(w)
    <3>1. number'[w] \notin DOMAIN rows
      BY <2>3, NextIsNew DEF ReadNumber, TypeOK, NumberInv
    <3> QED BY <2>3, <3>1 DEF ReadNumber, TriesInv, TypeOK
  <2>4. CASE v = w /\ Retry(w)
    <3>0. foreign[w] \in Nat /\ tries[w] \in 0 .. Attempts - 1 /\ Attempts - 1 = 2
      BY DEF TypeOK, Attempts
    <3>1. foreign[w] > tries[w] /\ foreign[w] \in Nat /\ tries[w] \in Nat
      BY <2>4, <3>0 DEF Retry, TriesInv
    <3>2. pc'[w] = "number" /\ tries'[w] = tries[w] + 1
      BY <2>4 DEF Retry, TypeOK
    <3> QED BY <2>4, <3>1, <3>2
  <2> QED BY <2>1, <2>2, <2>3, <2>4
<1>6. LinesInv'
  <2>1. CASE Begin(w)
    <3>1. begun' \in [Runners -> Nat] /\ begun'[w] = begun[w] + 1
      BY <2>1 DEF Begin, LinesInv
    <3>2. \A v \in Runners \ {w} : begun'[v] = begun[v] /\ pc'[v] = pc[v]
      BY <2>1 DEF Begin, LinesInv, TypeOK
    <3>3. \A v \in Runners :
            /\ pc'[v] # "idle" => begun'[v] >= 1
            /\ \A f \in failed[v] :
                 f <= begun'[v] /\ (pc'[v] \in {"number", "insert"} => f < begun'[v])
      <4> SUFFICES ASSUME NEW v \in Runners
                   PROVE  /\ pc'[v] # "idle" => begun'[v] >= 1
                          /\ \A f \in failed[v] :
                               f <= begun'[v] /\ (pc'[v] \in {"number", "insert"} => f < begun'[v])
        OBVIOUS
      <4>1. begun[v] \in Nat /\ \A f \in failed[v] : f \in Nat /\ f <= begun[v]
        BY DEF LinesInv, TypeOK
      <4>2. CASE v = w
        BY <3>1, <4>1, <4>2
      <4>3. CASE v # w
        BY <3>2, <4>3 DEF LinesInv
      <4> QED BY <4>2, <4>3
    <3>4. ASSUME NEW n \in DOMAIN rows, NEW v \in Runners, rows[n].by = v
          PROVE  /\ rows[n].nr <= begun'[v]
                 /\ pc'[v] \in {"number", "insert"} => rows[n].nr < begun'[v]
      <4>1. rows[n].nr \in Nat
        BY RowFields
      <4> QED BY <3>1, <3>2, <3>4, <4>1 DEF LinesInv
    <3> QED BY <1>1, <3>1, <3>3, <3>4 DEF LinesInv, cancelVars
  <2>2. CASE ReadNumber(w) \/ Retry(w)
    BY <1>1, <2>2 DEF LinesInv, TypeOK, ReadNumber, Retry, cancelVars
  <2> QED BY <2>1, <2>2
<1> QED BY <1>1, <1>2, <1>3, <1>4, <1>5, <1>6

\* An append ends: its line is stored, given up or cut off.
LEMMA LeaveSteps ==
  ASSUME StreamInv, NEW w \in Runners, GiveUp(w) \/ AppendFile(w) \/ Cancelled(w)
  PROVE  StreamInv' /\ UNCHANGED <<rows, readerVars>>
<1> USE DEF StreamInv
<1>1. Leave(w) /\ UNCHANGED <<rows, runVars, begun, cancelVars, readerVars>>
  BY DEF GiveUp, AppendFile, Cancelled, Leave
<1>2. Size' = Size /\ BatchInv' /\ NothingSkipped'
  BY <1>1, ReadersIdle
<1>3. \/ UNCHANGED failed
      \/ pc[w] = "insert" /\ failed' = [failed EXCEPT ![w] = @ \cup {begun[w]}]
  BY DEF GiveUp, AppendFile, Cancelled
<1>4. TypeOK'
  <2>1. failed' \in [Runners -> SUBSET Nat]
    <3>1. begun[w] \in Nat
      BY DEF LinesInv
    <3>2. CASE UNCHANGED failed
      BY <3>2 DEF TypeOK
    <3>3. CASE failed' = [failed EXCEPT ![w] = @ \cup {begun[w]}]
      <4>1. failed \in [Runners -> SUBSET Nat] /\ failed[w] \cup {begun[w]} \in SUBSET Nat
        BY <3>1 DEF TypeOK
      <4> QED BY <3>3, <4>1
    <3> QED BY <1>3, <3>2, <3>3
  <2>2. /\ pc' \in [Runners -> {"idle", "insert", "number", "file"}]
        /\ number' \in [Runners -> Nat] /\ foreign' \in [Runners -> Nat]
        /\ tries' \in [Runners -> 0 .. Attempts - 1]
    BY <1>1 DEF TypeOK, Leave, Attempts
  <2> QED BY <1>1, <2>1, <2>2 DEF TypeOK, runVars, cancelVars, readerVars
<1>5. NumberInv' /\ TriesInv'
  BY <1>1, <1>2 DEF NumberInv, TriesInv, TypeOK, Leave, cancelVars
<1>6. LinesInv'
  <2>1. \A v \in Runners : pc'[v] = IF v = w THEN "idle" ELSE pc[v]
    BY <1>1 DEF Leave, TypeOK
  <2>2. ASSUME NEW v \in Runners, NEW f \in failed'[v]
        PROVE  f <= begun[v] /\ (pc'[v] \in {"number", "insert"} => f < begun[v])
    <3>1. f \in failed[v] \/ (v = w /\ f = begun[w])
      BY <1>3, <2>2 DEF TypeOK
    <3> QED BY <2>1, <3>1 DEF LinesInv
  <2> QED BY <1>1, <2>1, <2>2 DEF LinesInv, cancelVars
<1>7. StoredInOrder'
  <2>1. ASSUME NEW n \in DOMAIN rows, rows[n].by \in Runners
        PROVE  rows[n].nr \notin failed'[rows[n].by]
    <3>1. CASE rows[n].by = w
      <4>1. pc[w] = "insert" => rows[n].nr < begun[w]
        BY <3>1 DEF LinesInv
      <4>2. rows[n].nr \in Nat /\ begun[w] \in Nat
        BY RowFields DEF LinesInv
      <4> QED BY <1>3, <2>1, <3>1, <4>1, <4>2 DEF StoredInOrder, TypeOK
    <3>2. CASE rows[n].by # w
      BY <1>3, <2>1, <3>2 DEF StoredInOrder, TypeOK
    <3> QED BY <3>1, <3>2
  <2> QED BY <1>1, <2>1 DEF StoredInOrder
<1> QED BY <1>1, <1>2, <1>4, <1>5, <1>6, <1>7

\* The run begins or ends; a cancel request begins or reads its number.
LEMMA RunSteps ==
  ASSUME StreamInv, Start \/ Finish \/ CancelBegin \/ CancelRead
  PROVE  StreamInv' /\ UNCHANGED <<rows, readerVars>>
<1> USE DEF StreamInv
<1>1. UNCHANGED <<rows, appendVars, readerVars>>
  BY DEF Start, Finish, CancelBegin, CancelRead
<1>2. Size' = Size /\ BatchInv' /\ NothingSkipped' /\ StoredInOrder' /\ TriesInv'
  BY <1>1, ReadersIdle DEF StoredInOrder, TriesInv, appendVars
<1>3. CASE Start \/ Finish
  BY <1>1, <1>2, <1>3 DEF Start, Finish, TypeOK, NumberInv, LinesInv, appendVars, cancelVars,
                          readerVars
<1>4. CASE CancelBegin
  <2>1. /\ cancels' = cancels + 1 /\ cancels' \in 0 .. MaxCancels
        /\ cancel' = cancel /\ found' \in {"queued", "running"}
    BY <1>4, LogsAssumption DEF CancelBegin, TypeOK
  <2>2. TypeOK'
    BY <1>1, <1>4, <2>1 DEF CancelBegin, TypeOK, appendVars, readerVars, runVars
  <2>3. NumberInv'
    BY <1>1, <1>2, <2>1 DEF NumberInv, appendVars
  <2>4. LinesInv'
    <3>1. cancels \in Nat
      BY DEF TypeOK
    <3>2. ASSUME NEW n \in DOMAIN rows, rows[n].by = "api"
          PROVE  rows[n].nr <= cancels' /\ rows[n].nr < cancels'
      <4>1. rows[n].nr \in Nat
        BY RowFields
      <4> QED BY <2>1, <3>1, <3>2, <4>1 DEF LinesInv
    <3> QED BY <1>1, <2>1, <3>1, <3>2 DEF LinesInv, appendVars
  <2> QED BY <1>1, <1>2, <2>2, <2>3, <2>4
<1>5. CASE CancelRead
  <2>1. cancel' = Size + 1 /\ found # "none" /\ UNCHANGED <<runVars, found, cancels>>
    BY <1>5, NextIsNew DEF CancelRead
  <2>2. TypeOK'
    <3>1. cancel' \in Nat
      BY <2>1 DEF NumberInv
    <3> QED BY <1>1, <2>1, <3>1 DEF TypeOK, appendVars, readerVars, runVars
  <2>3. NumberInv'
    BY <1>1, <1>2, <2>1 DEF NumberInv, appendVars
  <2>4. LinesInv'
    BY <1>1, <2>1 DEF LinesInv, appendVars
  <2> QED BY <1>1, <1>2, <2>2, <2>3, <2>4
<1> QED BY <1>3, <1>4, <1>5
-----------------------------------------------------------------------------
(* Steps that add a row.                                                   *)

\* A number that is not taken is the next one.
LEMMA RowAdded ==
  ASSUME StreamInv, NEW k \in 1 .. Size + 1, k \notin DOMAIN rows, NEW line \in Line,
         InsertRow(k, line)
  PROVE  /\ Size \in Nat /\ Size' = Size + 1
         /\ DOMAIN rows = 1 .. Size /\ DOMAIN rows' = 1 .. Size + 1
         /\ rows' \in [1 .. Cardinality(DOMAIN rows') -> Line]
         /\ rows'[Size + 1] = line
         /\ \A n \in 1 .. Size : rows'[n] = rows[n]
<1>1. Size \in Nat /\ DOMAIN rows = 1 .. Size
  BY DEF StreamInv, NumberInv
<1>2. k = Size + 1
  BY <1>1
<1>3. DOMAIN rows' = 1 .. Size \cup {k}
  BY <1>1 DEF InsertRow
<1>4. 1 .. Size \cup {k} = 1 .. Size + 1
  BY <1>1, <1>2
<1>5. Size + 1 \in Nat
  BY <1>1
<1>6. Size' = Size + 1
  <2>1. Cardinality(1 .. Size + 1) = Size + 1
    BY ONLY <1>5, SizeOfLog
  <2>2. Size' = Cardinality(DOMAIN rows')
    BY DEF Size
  <2> QED BY ONLY <1>3, <1>4, <2>1, <2>2
<1>7. rows'[Size + 1] = line /\ \A n \in 1 .. Size : rows'[n] = rows[n]
  BY <1>1, <1>2 DEF InsertRow
<1>8. \A n \in 1 .. Size : rows[n] \in Line
  BY <1>1, RowFields DEF StreamInv
<1>9. rows' \in [1 .. Size + 1 -> Line]
  <2>1. rows' = [n \in 1 .. Size + 1 |-> IF n = k THEN line ELSE rows[n]]
    BY <1>1, <1>4 DEF InsertRow
  <2> QED BY <1>1, <1>2, <1>8, <2>1
<1>10. Cardinality(DOMAIN rows') = Size + 1
  BY <1>6 DEF Size
<1> QED BY <1>1, <1>3, <1>4, <1>6, <1>7, <1>9, <1>10

\* What an added row means for those who did not add it.
LEMMA RowsGrow ==
  ASSUME StreamInv, NEW k \in 1 .. Size + 1, k \notin DOMAIN rows, NEW line \in Line,
         InsertRow(k, line), UNCHANGED readerVars
  PROVE  /\ BatchInv' /\ NothingSkipped'
         /\ batch' \in [Readers -> SUBSET DOMAIN rows']
         /\ \A w \in Runners \ {line.by} :
              pc[w] = "insert" => number[w] \in 1 .. Size' + 1 /\ number[w] \in Nat
<1> USE RowAdded DEF StreamInv, readerVars
<1>1. BatchInv'
  <2>1. \A r \in Readers : Len(received[r]) \in Nat
    BY DEF TypeOK
  <2> SUFFICES ASSUME NEW r \in Readers
               PROVE  \E e \in Len(received[r]) .. Size + 1 : batch[r] = Len(received[r]) + 1 .. e
    BY DEF BatchInv
  <2>2. PICK e \in Len(received[r]) .. Size : batch[r] = Len(received[r]) + 1 .. e
    BY DEF BatchInv
  <2>3. e \in Len(received[r]) .. Size + 1
    BY <2>1
  <2> QED BY <2>2, <2>3
<1>2. NothingSkipped'
  <2> SUFFICES ASSUME NEW r \in Readers, NEW i \in DOMAIN received[r]
               PROVE  i \in DOMAIN rows' /\ received[r][i] = [id |-> i, line |-> rows'[i]]
    BY DEF NothingSkipped
  <2>1. i \in 1 .. Size /\ received[r][i] = [id |-> i, line |-> rows[i]]
    BY DEF NothingSkipped
  <2>2. rows'[i] = rows[i] /\ i \in 1 .. Size + 1
    BY <2>1
  <2> QED BY <2>1, <2>2
<1>3. batch' \in [Readers -> SUBSET DOMAIN rows']
  <2>1. DOMAIN rows \subseteq DOMAIN rows'
    OBVIOUS
  <2> QED BY <2>1 DEF TypeOK
<1>4. \A w \in Runners : pc[w] = "insert" => number[w] \in 1 .. Size + 1
  BY DEF NumberInv
<1> QED BY <1>1, <1>2, <1>3, <1>4

\* A row is added after all the others, and readers wait.
Extends ==
  /\ Size' = Size + 1
  /\ \A n \in 1 .. Size : rows'[n] = rows[n]
  /\ UNCHANGED readerVars

\* A line that is newer than all of its writer keeps them in order.
LEMMA OrderKept ==
  ASSUME StreamInv, NEW k \in 1 .. Size + 1, k \notin DOMAIN rows, NEW line \in Line,
         InsertRow(k, line), UNCHANGED failed,
         \A n \in DOMAIN rows : rows[n].by = line.by => rows[n].nr < line.nr,
         line.by \in Runners => line.nr \notin failed[line.by]
  PROVE  StoredInOrder'
<1> USE RowAdded DEF StreamInv
<1>1. ASSUME NEW m \in DOMAIN rows', NEW n \in DOMAIN rows', m < n, rows'[m].by = rows'[n].by
      PROVE  rows'[m].nr < rows'[n].nr
  <2>1. m \in 1 .. Size
    BY <1>1
  <2>2. CASE n = Size + 1
    BY <1>1, <2>1, <2>2
  <2>3. CASE n # Size + 1
    <3>1. n \in 1 .. Size
      BY <2>3
    <3> QED BY <1>1, <2>1, <3>1 DEF StoredInOrder
  <2> QED BY <2>2, <2>3
<1>2. ASSUME NEW n \in DOMAIN rows', rows'[n].by \in Runners
      PROVE  rows'[n].nr \notin failed[rows'[n].by]
  <2>1. CASE n = Size + 1
    BY <1>2, <2>1
  <2>2. CASE n # Size + 1
    <3>1. n \in 1 .. Size
      BY <2>2
    <3> QED BY <1>2, <3>1 DEF StoredInOrder
  <2> QED BY <2>1, <2>2
<1> QED BY <1>1, <1>2 DEF StoredInOrder
\* A Runner stores its line under the next number.
LEMMA InsertStep ==
  ASSUME StreamInv, NEW w \in Runners, Insert(w)
  PROVE  StreamInv' /\ Extends
<1> DEFINE line == [by |-> w, nr |-> begun[w]]
<1> USE DEF StreamInv
<1>1. line \in Line /\ line.by = w /\ line.nr = begun[w]
  <2>1. begun[w] \in 1 .. MaxLines[w]
    BY LogsAssumption DEF Insert, TypeOK, LinesInv
  <2>2. line \in [by : {w}, nr : 1 .. MaxLines[w]]
    BY <2>1
  <2> QED BY <2>2 DEF Line
<1>2. /\ number[w] \in 1 .. Size + 1 /\ number[w] \notin DOMAIN rows
      /\ InsertRow(number[w], line) /\ UNCHANGED readerVars
      /\ UNCHANGED <<runVars, begun, failed, cancelVars>>
      /\ pc[w] = "insert"
  BY DEF Insert, Stored, NumberInv
<1> HIDE DEF line
<1>3. /\ Size \in Nat /\ Size' = Size + 1
      /\ DOMAIN rows = 1 .. Size /\ DOMAIN rows' = 1 .. Size + 1
      /\ rows' \in [1 .. Cardinality(DOMAIN rows') -> Line]
      /\ rows'[Size + 1] = line
      /\ \A n \in 1 .. Size : rows'[n] = rows[n]
  BY <1>1, <1>2, RowAdded
<1>4. /\ BatchInv' /\ NothingSkipped'
      /\ batch' \in [Readers -> SUBSET DOMAIN rows']
      /\ \A v \in Runners \ {w} : pc[v] = "insert" => number[v] \in 1 .. Size' + 1
  BY <1>1, <1>2, RowsGrow
<1>5. StoredInOrder'
  <2>1. \A n \in DOMAIN rows : rows[n].by = w => rows[n].nr < begun[w]
    BY <1>2 DEF LinesInv
  <2>2. begun[w] \notin failed[w]
    BY <1>2 DEF LinesInv
  <2> QED BY <1>1, <1>2, <2>1, <2>2, OrderKept
<1>6. /\ pc' = [pc EXCEPT ![w] = "file"]
      /\ number' = [number EXCEPT ![w] = 0] /\ tries' = [tries EXCEPT ![w] = 0]
      /\ foreign' = [v \in Runners |->
           IF v # w /\ pc[v] \in {"number", "insert"} THEN foreign[v] + 1 ELSE 0]
  BY <1>1, <1>2 DEF Insert, Stored, InsertRow
<1>7. TypeOK'
  BY <1>2, <1>3, <1>4, <1>6 DEF TypeOK, Attempts, runVars, cancelVars, readerVars
<1>8. NumberInv'
  BY <1>2, <1>3, <1>4, <1>6 DEF NumberInv, TypeOK, cancelVars
<1>9. TriesInv'
  <2> SUFFICES ASSUME NEW v \in Runners
               PROVE  /\ pc'[v] \in {"number", "insert"} => foreign'[v] > tries'[v]
                      /\ pc'[v] \notin {"number", "insert"} => tries'[v] = 0
                      /\ tries'[v] \in Nat /\ foreign'[v] \in Nat
    BY DEF TriesInv
  <2>1. tries[v] \in Nat /\ foreign[v] \in Nat
    <3>1. tries[v] \in 0 .. 2
      BY DEF TypeOK, Attempts
    <3>2. foreign[v] \in Nat
      BY DEF TypeOK
    <3> QED BY <3>1, <3>2
  <2>2. CASE v = w
    BY <1>6, <2>2 DEF TypeOK
  <2>3. CASE v # w
    <3>1. pc'[v] = pc[v] /\ tries'[v] = tries[v]
      BY <1>6, <2>3 DEF TypeOK
    <3>2. pc[v] \in {"number", "insert"} => foreign'[v] = foreign[v] + 1
      BY <1>6, <2>3
    <3>3. foreign'[v] \in {0, foreign[v] + 1}
      BY <1>6
    <3> QED BY <2>1, <3>1, <3>2, <3>3 DEF TriesInv
  <2> QED BY <2>2, <2>3
<1>10. LinesInv'
  <2>1. \A v \in Runners : pc'[v] = IF v = w THEN "file" ELSE pc[v]
    BY <1>6 DEF TypeOK
  <2>2. begun[w] >= 1 /\ begun[w] \in Nat
    BY <1>2 DEF LinesInv
  <2>3. \A v \in Runners :
          /\ pc'[v] # "idle" => begun[v] >= 1
          /\ \A f \in failed[v] :
               f <= begun[v] /\ (pc'[v] \in {"number", "insert"} => f < begun[v])
    BY <1>2, <2>1 DEF LinesInv
  <2>4. ASSUME NEW n \in DOMAIN rows', NEW v \in Runners, rows'[n].by = v
        PROVE  /\ rows'[n].nr <= begun[v]
               /\ pc'[v] \in {"number", "insert"} => rows'[n].nr < begun[v]
    <3>1. CASE n = Size + 1
      BY <1>1, <1>3, <2>1, <2>2, <2>4, <3>1
    <3>2. CASE n # Size + 1
      <4>1. n \in DOMAIN rows /\ rows'[n] = rows[n]
        BY <1>3, <3>2
      <4> QED BY <2>1, <2>4, <4>1 DEF LinesInv
    <3> QED BY <3>1, <3>2
  <2>5. ASSUME NEW n \in DOMAIN rows', rows'[n].by = "api"
        PROVE  rows'[n].nr <= cancels /\ (found # "none" => rows'[n].nr < cancels)
    <3>1. n # Size + 1
      BY <1>1, <1>3, <2>5, LogsAssumption
    <3>2. n \in DOMAIN rows /\ rows'[n] = rows[n]
      BY <1>3, <3>1
    <3> QED BY <2>5, <3>2 DEF LinesInv
  <2> QED BY <1>2, <2>3, <2>4, <2>5 DEF LinesInv, cancelVars
<1> QED BY <1>2, <1>3, <1>4, <1>5, <1>7, <1>8, <1>9, <1>10 DEF Extends

\* A cancel request stores its line or fails.
LEMMA CancelStep ==
  ASSUME StreamInv, CancelWrite
  PROVE  StreamInv' /\ (Extends \/ UNCHANGED <<rows, readerVars>>)
<1> DEFINE line == [by |-> "api", nr |-> cancels]
<1> USE DEF StreamInv
<1>1. CASE cancel \in DOMAIN rows
  <2>1. /\ UNCHANGED <<rows, readerVars>> /\ found' = "none" /\ cancel' = 0
        /\ UNCHANGED <<runVars, appendVars, cancels>>
    BY <1>1 DEF CancelWrite, appendVars
  <2>2. Size' = Size /\ BatchInv' /\ NothingSkipped'
    BY <2>1, ReadersIdle
  <2> QED BY <2>1, <2>2 DEF TypeOK, NumberInv, TriesInv, LinesInv, StoredInOrder, appendVars,
                            runVars, readerVars
<1>2. CASE cancel \notin DOMAIN rows
  <2>1. line \in Line /\ line.by = "api" /\ line.nr = cancels
    BY DEF Line, TypeOK
  <2>2. /\ cancel # 0 /\ cancel \in 1 .. Size + 1 /\ InsertRow(cancel, line)
        /\ found # "none" /\ found' = "none" /\ cancel' = 0
        /\ ended' \in BOOLEAN /\ handler' \in {"waiting", "working", "done"}
        /\ UNCHANGED <<pc, number, tries, begun, failed, cancels, readerVars>>
    BY <1>2 DEF CancelWrite, NumberInv, LinesInv, TypeOK
  <2> HIDE DEF line
  <2>3. /\ Size \in Nat /\ Size' = Size + 1
        /\ DOMAIN rows = 1 .. Size /\ DOMAIN rows' = 1 .. Size + 1
        /\ rows' \in [1 .. Cardinality(DOMAIN rows') -> Line]
        /\ rows'[Size + 1] = line
        /\ \A n \in 1 .. Size : rows'[n] = rows[n]
    BY <1>2, <2>1, <2>2, RowAdded
  <2>4. /\ BatchInv' /\ NothingSkipped'
        /\ batch' \in [Readers -> SUBSET DOMAIN rows']
        /\ \A v \in Runners : pc[v] = "insert" => number[v] \in 1 .. Size' + 1
    BY <1>2, <2>1, <2>2, RowsGrow, LogsAssumption
  <2>5. StoredInOrder'
    <3>1. \A n \in DOMAIN rows : rows[n].by = "api" => rows[n].nr < cancels
      BY <2>2 DEF LinesInv
    <3> QED BY <1>2, <2>1, <2>2, <3>1, OrderKept, LogsAssumption
  <2>6. foreign' = [v \in Runners |->
          IF pc[v] \in {"number", "insert"} THEN foreign[v] + 1 ELSE 0]
    BY <2>1, <2>2, LogsAssumption DEF InsertRow
  <2>7. TypeOK'
    BY <2>2, <2>3, <2>4, <2>6 DEF TypeOK, readerVars
  <2>8. NumberInv'
    BY <2>2, <2>3, <2>4 DEF NumberInv
  <2>9. TriesInv'
    <3> SUFFICES ASSUME NEW v \in Runners
                 PROVE  /\ pc[v] \in {"number", "insert"} => foreign'[v] > tries[v]
                        /\ pc[v] \notin {"number", "insert"} => tries[v] = 0
                        /\ tries[v] \in Nat /\ foreign'[v] \in Nat
      BY <2>2 DEF TriesInv
    <3>1. tries[v] \in Nat /\ foreign[v] \in Nat
      BY DEF TypeOK, Attempts
    <3> QED BY <2>6, <3>1 DEF TriesInv
  <2>10. LinesInv'
    <3>1. ASSUME NEW n \in DOMAIN rows', NEW v \in Runners, rows'[n].by = v
          PROVE  /\ rows'[n].nr <= begun[v]
                 /\ pc[v] \in {"number", "insert"} => rows'[n].nr < begun[v]
      <4>1. n # Size + 1
        BY <2>1, <2>3, <3>1, LogsAssumption
      <4>2. n \in DOMAIN rows /\ rows'[n] = rows[n]
        BY <2>3, <4>1
      <4> QED BY <3>1, <4>2 DEF LinesInv
    <3>2. ASSUME NEW n \in DOMAIN rows', rows'[n].by = "api"
          PROVE  rows'[n].nr <= cancels
      <4>1. CASE n = Size + 1
        BY <2>1, <2>3, <4>1 DEF TypeOK
      <4>2. CASE n # Size + 1
        <5>1. n \in DOMAIN rows /\ rows'[n] = rows[n]
          BY <2>3, <4>2
        <5> QED BY <3>2, <5>1 DEF LinesInv
      <4> QED BY <4>1, <4>2
    <3> QED BY <2>2, <3>1, <3>2 DEF LinesInv
  <2> QED BY <2>2, <2>3, <2>4, <2>5, <2>7, <2>8, <2>9, <2>10 DEF Extends
<1> QED BY <1>1, <1>2
-----------------------------------------------------------------------------
(* Steps of a reader.                                                      *)

\* The cursor is the number of events that the client has.
LEMMA CursorCounts ==
  ASSUME StreamInv, NEW r \in Readers
  PROVE  Cursor(r) = Len(received[r]) /\ Len(received[r]) \in 0 .. Size /\ Size \in Nat
<1> USE DEF StreamInv
<1>1. received[r] \in Seq(Event) /\ Size \in Nat /\ DOMAIN rows = 1 .. Size
  BY DEF TypeOK, NumberInv
<1>2. CASE received[r] = <<>>
  BY <1>1, <1>2 DEF Cursor
<1>3. CASE received[r] # <<>>
  <2>1. Len(received[r]) \in DOMAIN received[r]
    BY <1>1, <1>3
  <2>2. /\ Len(received[r]) \in DOMAIN rows
        /\ received[r][Len(received[r])] =
             [id |-> Len(received[r]), line |-> rows[Len(received[r])]]
    BY <2>1 DEF NothingSkipped
  <2> QED BY <1>1, <1>3, <2>2 DEF Cursor
<1> QED BY <1>2, <1>3

\* A client may receive more, the others stay as they are.
Grows(r) ==
  /\ Len(received'[r]) >= Len(received[r])
  /\ \A s \in Readers \ {r} : received'[s] = received[s]

\* Some of a batch reach the client.
LEMMA DeliverStep ==
  ASSUME StreamInv, NEW r \in Readers, NEW k \in 0 .. Cardinality(batch[r]), Deliver(r, k),
         batch' = [batch EXCEPT ![r] = {}],
         UNCHANGED <<rows, runVars, appendVars, cancelVars>>,
         at' \in [Readers -> {"off", "poll", "status", "end"}], breaks' \in 0 .. MaxBreaks
  PROVE  StreamInv' /\ Grows(r)
<1> DEFINE c == Len(received[r])
           new == [i \in 1 .. k |->
                     [id |-> Ith(batch[r], i), line |-> rows[Ith(batch[r], i)]]]
<1> USE DEF StreamInv
<1>1. received[r] \in Seq(Event) /\ c \in 0 .. Size /\ Size \in Nat /\ DOMAIN rows = 1 .. Size
  BY CursorCounts DEF TypeOK, NumberInv
<1>2. PICK e \in c .. Size : batch[r] = c + 1 .. e
  BY DEF BatchInv
<1>3. k \in 0 .. e - c
  <2>1. c \in Nat /\ e \in Nat /\ c <= e
    BY <1>1, <1>2
  <2>2. Cardinality(c + 1 .. e) = e - c
    BY ONLY <2>1, SizeOfRange
  <2> QED BY <1>2, <2>2
<1>4. ASSUME NEW i \in 1 .. k PROVE Ith(batch[r], i) = c + i /\ c + i \in 1 .. Size
  <2>1. c \in Nat /\ e \in Nat /\ i \in 1 .. e - c
    BY <1>1, <1>2, <1>3
  <2>2. Ith(c + 1 .. e, i) = c + i
    BY ONLY <2>1, IthOfRange
  <2> QED BY <1>1, <1>2, <2>1, <2>2
<1>5. new = [i \in 1 .. k |-> [id |-> c + i, line |-> rows[c + i]]]
  BY <1>4
<1>6. \A i \in 1 .. k : [id |-> c + i, line |-> rows[c + i]] \in Event
  BY <1>1, <1>4, RowFields DEF Event
<1>7. k \in Nat /\ new \in Seq(Event) /\ Len(new) = k
  <2>1. k \in Nat
    BY <1>1, <1>2, <1>3
  <2>2. new \in [1 .. k -> Event]
    BY <1>5, <1>6
  <2> HIDE DEF new
  <2> QED BY ONLY <2>1, <2>2
<1>8. received' = [received EXCEPT ![r] = received[r] \o new]
  BY DEF Deliver
<1> HIDE DEF new
<1>9. received'[r] = received[r] \o new /\ received' \in [Readers -> Seq(Event)]
  BY <1>1, <1>7, <1>8 DEF TypeOK
<1>10. /\ Len(received'[r]) = c + k
       /\ \A i \in 1 .. c : received'[r][i] = received[r][i]
       /\ \A i \in c + 1 .. c + k : received'[r][i] = new[i - c]
  <2>1. received[r] \in Seq(Event)
    BY <1>1
  <2>2. received'[r] = received[r] \o new
    BY <1>9
  <2>3. k \in Nat /\ new \in Seq(Event) /\ Len(new) = k
    BY <1>7
  <2> DEFINE old == received[r]
  <2>4. \A i \in 1 .. Len(old) + Len(new) :
          (old \o new)[i] = IF i <= Len(old) THEN old[i] ELSE new[i - Len(old)]
    BY ONLY <2>1, <2>3
  <2>5. Len(old \o new) = Len(old) + Len(new) /\ Len(old) \in Nat
    BY ONLY <2>1, <2>3
  <2>6. Len(received'[r]) = c + k
    BY ONLY <2>2, <2>3, <2>5
  <2>7. ASSUME NEW i \in 1 .. c PROVE received'[r][i] = received[r][i]
    BY ONLY <2>2, <2>3, <2>4, <2>5
  <2>8. ASSUME NEW i \in c + 1 .. c + k PROVE received'[r][i] = new[i - c]
    BY ONLY <2>2, <2>3, <2>4, <2>5
  <2> QED BY <2>6, <2>7, <2>8
<1>11. Size' = Size /\ UNCHANGED <<StoredInOrder, NumberInv, TriesInv, LinesInv>>
  BY DEF Size, StoredInOrder, NumberInv, TriesInv, LinesInv, appendVars, cancelVars
<1>12. NothingSkipped'
  <2>1. ASSUME NEW i \in DOMAIN received'[r]
        PROVE  i \in 1 .. Size /\ received'[r][i] = [id |-> i, line |-> rows[i]]
    <3>1. CASE i <= c
      <4>1. i \in DOMAIN received[r] /\ received'[r][i] = received[r][i]
        BY <1>1, <1>7, <1>9, <3>1
      <4> QED BY <1>1, <4>1 DEF NothingSkipped
    <3>2. CASE i > c
      <4>1. i - c \in 1 .. k /\ received'[r][i] = new[i - c] /\ c + (i - c) = i
        <5>1. i \in 1 .. c + k
          BY <1>9, <1>10, <1>1, <1>7
        <5>2. c \in Nat /\ k \in Nat
          BY <1>1, <1>7
        <5>3. i \in c + 1 .. c + k
          BY <3>2, <5>1, <5>2
        <5>4. received'[r][i] = new[i - c]
          BY <1>10, <5>3
        <5> QED BY <5>2, <5>3, <5>4
      <4> QED BY <1>4, <1>5, <4>1 DEF new
    <3> QED BY <1>1, <1>9, <3>1, <3>2
  <2>2. \A s \in Readers \ {r} : received'[s] = received[s]
    BY <1>8 DEF TypeOK
  <2> QED BY <1>1, <2>1, <2>2 DEF NothingSkipped
<1>13. BatchInv'
  <2> SUFFICES ASSUME NEW s \in Readers
               PROVE  \E f \in Len(received'[s]) .. Size : batch'[s] = Len(received'[s]) + 1 .. f
    BY <1>11 DEF BatchInv
  <2>1. CASE s = r
    <3>1. c + k \in c + k .. Size /\ batch'[r] = c + k + 1 .. c + k
      BY <1>1, <1>2, <1>3 DEF TypeOK
    <3> QED BY <1>10, <2>1, <3>1
  <2>2. CASE s # r
    <3>1. received'[s] = received[s] /\ batch'[s] = batch[s]
      BY <1>8, <2>2 DEF TypeOK
    <3> QED BY <3>1 DEF BatchInv
  <2> QED BY <2>1, <2>2
<1>14. TypeOK'
  BY <1>9 DEF TypeOK, appendVars, runVars, cancelVars
<1>15. Grows(r)
  <2>1. \A s \in Readers \ {r} : received'[s] = received[s]
    BY <1>8 DEF TypeOK
  <2>2. c \in Nat /\ k \in Nat /\ Len(received'[r]) = c + k
    BY <1>1, <1>7, <1>10
  <2> QED BY <2>1, <2>2 DEF Grows
<1> QED BY <1>11, <1>12, <1>13, <1>14, <1>15

\* Connecting, polling, delivering and breaking.
LEMMA ReaderSteps ==
  ASSUME StreamInv, NEW r \in Readers, Connect(r) \/ PollRows(r) \/ PollStatus(r) \/ Break(r)
  PROVE  StreamInv' /\ Grows(r) /\ rows' = rows
<1>0. Connect(r) \/ PollRows(r) => Grows(r) /\ rows' = rows
  <2>1. Len(received[r]) \in Nat
    BY CursorCounts
  <2> QED BY <2>1 DEF Connect, PollRows, Grows
<1>1. CASE Connect(r)
  BY <1>0, <1>1 DEF Connect, StreamInv, TypeOK, NumberInv, TriesInv, LinesInv, BatchInv, StoredInOrder,
     NothingSkipped, Size, appendVars, runVars, cancelVars
<1>2. CASE PollRows(r)
  <2> USE DEF StreamInv
  <2>1. Cursor(r) = Len(received[r]) /\ Len(received[r]) \in 0 .. Size /\ Size \in Nat
        /\ DOMAIN rows = 1 .. Size
    BY CursorCounts DEF NumberInv
  <2>2. Above(Cursor(r)) = Len(received[r]) + 1 .. Size
    BY <2>1 DEF Above
  <2>3. PICK e \in Len(received[r]) .. Size :
          FirstRows(Above(Cursor(r)), Batch) = Len(received[r]) + 1 .. e
    <3>1. Len(received[r]) \in Nat /\ Len(received[r]) <= Size /\ Size \in Nat /\ Batch \in Nat
      BY <2>1, LogsAssumption
    <3>2. \E e \in Len(received[r]) .. Size :
            FirstRows(Len(received[r]) + 1 .. Size, Batch) = Len(received[r]) + 1 .. e
      BY ONLY <3>1, FirstOfRange
    <3> QED BY <2>2, <3>2
  <2>4. batch' = [batch EXCEPT ![r] = Len(received[r]) + 1 .. e]
    BY <1>2, <2>3 DEF PollRows
  <2>5. Len(received[r]) + 1 .. e \subseteq DOMAIN rows
    BY <2>1
  <2>6. TypeOK'
    BY <1>2, <2>4, <2>5 DEF PollRows, TypeOK, appendVars, runVars, cancelVars
  <2>7. BatchInv'
    BY <1>2, <2>4 DEF PollRows, BatchInv, TypeOK, Size
  <2>8. UNCHANGED <<NumberInv, TriesInv, LinesInv, StoredInOrder, NothingSkipped>>
    BY <1>2 DEF PollRows, NumberInv, TriesInv, LinesInv, StoredInOrder, NothingSkipped, Size,
                appendVars, cancelVars
  <2> QED BY <1>0, <1>2, <2>6, <2>7, <2>8
<1>3. CASE PollStatus(r) \/ Break(r)
  <2>1. Cardinality(batch[r]) \in Nat
    <3>1. Len(received[r]) \in Nat /\ Size \in Nat
      BY CursorCounts
    <3>2. PICK e \in Len(received[r]) .. Size : batch[r] = Len(received[r]) + 1 .. e
      BY DEF StreamInv, BatchInv
    <3>3. e \in Nat /\ Len(received[r]) <= e
      BY <3>1, <3>2
    <3>4. Cardinality(Len(received[r]) + 1 .. e) = e - Len(received[r])
      BY ONLY <3>1, <3>3, SizeOfRange
    <3> QED BY <3>1, <3>2, <3>3, <3>4
  <2>2. PICK k \in 0 .. Cardinality(batch[r]) : Deliver(r, k)
    BY <1>3, <2>1 DEF PollStatus, Break
  <2>3. /\ batch' = [batch EXCEPT ![r] = {}]
        /\ UNCHANGED <<rows, runVars, appendVars, cancelVars>>
    BY <1>3 DEF PollStatus, Break, Deliver
  <2>4. at' \in [Readers -> {"off", "poll", "status", "end"}]
    BY <1>3 DEF PollStatus, Break, StreamInv, TypeOK
  <2>5. breaks' \in 0 .. MaxBreaks
    <3>1. breaks \in Nat /\ MaxBreaks \in Nat /\ breaks <= MaxBreaks
      BY LogsAssumption DEF StreamInv, TypeOK
    <3>2. breaks' = breaks \/ (breaks' = breaks + 1 /\ breaks < MaxBreaks)
      <4>1. CASE PollStatus(r)
        BY <4>1 DEF PollStatus
      <4>2. CASE Break(r)
        BY <4>2 DEF Break
      <4> QED BY <1>3, <4>1, <4>2
    <3> QED BY <3>1, <3>2
  <2> QED BY <2>2, <2>3, <2>4, <2>5, DeliverStep
<1> QED BY <1>1, <1>2, <1>3

-----------------------------------------------------------------------------
(* The log as its readers follow it.                                       *)

\* The lines that each reader has.
Lines(r) == [i \in DOMAIN received[r] |-> received[r][i].line]
Followers == [r \in Readers |-> Lines(r)]

\* They are the first of the log.
PrefixInv ==
  \A r \in Readers :
    /\ rows \in Seq(Line) /\ Len(rows) = Size
    /\ Len(received[r]) \in 0 .. Len(rows)
    /\ Lines(r) = SubSeq(rows, 1, Len(received[r])) /\ Len(Lines(r)) = Len(received[r])

LEMMA LinesArePrefix == StreamInv => PrefixInv
<1> SUFFICES ASSUME StreamInv, NEW r \in Readers
             PROVE  /\ rows \in Seq(Line) /\ Len(rows) = Size
                    /\ Len(received[r]) \in 0 .. Len(rows)
                    /\ Lines(r) = SubSeq(rows, 1, Len(received[r]))
                    /\ Len(Lines(r)) = Len(received[r])
  BY DEF PrefixInv
<1>1. /\ Size \in Nat /\ rows \in [1 .. Size -> Line] /\ received[r] \in Seq(Event)
      /\ Len(received[r]) \in 0 .. Size
  BY CursorCounts DEF StreamInv, TypeOK, Size
<1>2. rows \in Seq(Line) /\ Len(rows) = Size
  BY <1>1
<1>3. DOMAIN received[r] = 1 .. Len(received[r])
  BY <1>1
<1>4. Lines(r) = [i \in 1 .. Len(received[r]) |-> rows[i]]
  <2>1. \A i \in 1 .. Len(received[r]) : received[r][i] = [id |-> i, line |-> rows[i]]
    BY <1>3 DEF StreamInv, NothingSkipped
  <2>2. \A i \in 1 .. Len(received[r]) : received[r][i].line = rows[i]
    <3> SUFFICES ASSUME NEW i \in 1 .. Len(received[r]) PROVE received[r][i].line = rows[i]
      OBVIOUS
    <3>1. received[r][i] = [id |-> i, line |-> rows[i]]
      BY <2>1
    <3> QED BY ONLY <3>1
  <2>3. Lines(r) = [i \in 1 .. Len(received[r]) |-> received[r][i].line]
    BY <1>3 DEF Lines
  <2> QED BY <2>2, <2>3
<1>5. SubSeq(rows, 1, Len(received[r])) = [i \in 1 .. Len(received[r]) |-> rows[i]]
  BY <1>1, <1>2
<1>6. Len(Lines(r)) = Len(received[r])
  BY <1>1, <1>4
<1> QED BY <1>1, <1>2, <1>4, <1>5, <1>6

\* A new row is a line added to the log.
LEMMA RowIsAdd ==
  ASSUME StreamInv, StreamInv', Extends
  PROVE  \E line \in Line : Followed!Add(line)
<1>1. /\ Size \in Nat /\ rows \in [1 .. Size -> Line]
      /\ Size' = Size + 1 /\ rows' \in [1 .. Size' -> Line]
  BY DEF StreamInv, TypeOK, NumberInv, Size, Extends
<1>2. rows' = [n \in 1 .. Size + 1 |-> IF n = Size + 1 THEN rows'[Size + 1] ELSE rows[n]]
  BY <1>1 DEF Extends
<1>3. rows'[Size + 1] \in Line
  BY <1>1
<1>4. rows' = Append(rows, rows'[Size + 1])
  BY <1>1, <1>2, <1>3
<1>5. Followers' = Followers
  BY DEF Followers, Lines, Extends, readerVars
<1> QED BY <1>3, <1>4, <1>5 DEF Followed!Add, Followers, Lines

\* What reaches a client is the next lines of the log, or nothing.
LEMMA GrowthIsReceipt ==
  ASSUME PrefixInv, PrefixInv', NEW r \in Readers, Grows(r), rows' = rows
  PROVE  Followers' = Followers \/ \E n \in 1 .. Len(rows) : Followed!Receive(r, n)
<1>1. \A s \in Readers \ {r} : Lines(s)' = Lines(s)
  BY DEF Grows, Lines
<1>2. /\ Len(received[r]) \in 0 .. Len(rows) /\ Len(rows) \in Nat
      /\ Lines(r) = SubSeq(rows, 1, Len(received[r])) /\ Len(Lines(r)) = Len(received[r])
  BY DEF PrefixInv
<1>3. Len(received'[r]) \in 0 .. Len(rows) /\ Lines(r)' = SubSeq(rows, 1, Len(received'[r]))
  BY DEF PrefixInv
<1>4. CASE Len(received'[r]) = Len(received[r])
  BY <1>1, <1>2, <1>3, <1>4 DEF Followers
<1>5. CASE Len(received'[r]) # Len(received[r])
  <2>1. PICK n \in 1 .. Len(rows) : n = Len(received'[r]) /\ n > Len(received[r])
    BY <1>2, <1>3, <1>5 DEF Grows
  <2>2. Followers' = [Followers EXCEPT ![r] = SubSeq(rows, 1, n)]
    BY <1>1, <1>3, <2>1 DEF Followers
  <2>3. n > Len(Followers[r])
    BY <1>2, <2>1 DEF Followers
  <2> QED BY <2>2, <2>3 DEF Followed!Receive, Followers, Lines
<1> QED BY <1>4, <1>5

\* Every step of the run's log is one of the log that it promises to be, or
\* does not show.
LEMMA StepIsFollowed ==
  ASSUME StreamInv, StreamInv', PrefixInv, PrefixInv', [Next]_vars
  PROVE  Followed!Next \/ UNCHANGED <<rows, Followers>>
<1>1. CASE UNCHANGED <<rows, readerVars>>
  BY <1>1 DEF Followers, Lines, readerVars
<1>2. CASE Extends
  BY <1>2, RowIsAdd DEF Followed!Next
<1>3. ASSUME NEW r \in Readers, Connect(r) \/ PollRows(r) \/ PollStatus(r) \/ Break(r)
      PROVE  Followed!Next \/ UNCHANGED <<rows, Followers>>
  <2>1. Grows(r) /\ rows' = rows
    BY <1>3, ReaderSteps
  <2> QED BY <2>1, GrowthIsReceipt DEF Followed!Next
<1>4. ASSUME NEW w \in Runners, Begin(w) \/ Appending(w) \/ Cancelled(w)
      PROVE  Extends \/ UNCHANGED <<rows, readerVars>>
  BY <1>4, AppendSteps, InsertStep, LeaveSteps DEF Appending
<1>5. CASE Start \/ Finish \/ CancelBegin \/ CancelRead \/ CancelWrite
  BY <1>1, <1>2, <1>5, RunSteps, CancelStep
<1>6. CASE UNCHANGED vars
  BY <1>1, <1>6 DEF vars
<1> QED BY <1>1, <1>2, <1>3, <1>4, <1>5, <1>6 DEF Next

-----------------------------------------------------------------------------
(* Theorems.                                                               *)

\* The invariant.
LEMMA StreamInvariant == Spec => []StreamInv
<1>1. StreamInv /\ [Next]_vars => StreamInv'
  <2> SUFFICES ASSUME StreamInv, [Next]_vars PROVE StreamInv'
    OBVIOUS
  <2>1. ASSUME NEW w \in Runners, Begin(w) \/ Appending(w) \/ Cancelled(w) PROVE StreamInv'
    BY <2>1, AppendSteps, InsertStep, LeaveSteps DEF Appending
  <2>2. CASE Start \/ Finish \/ CancelBegin \/ CancelRead \/ CancelWrite
    BY <2>2, RunSteps, CancelStep
  <2>3. ASSUME NEW r \in Readers, Connect(r) \/ PollRows(r) \/ PollStatus(r) \/ Break(r)
        PROVE  StreamInv'
    BY <2>3, ReaderSteps
  <2>4. CASE UNCHANGED vars
    BY <2>4 DEF vars, appendVars, cancelVars, runVars, readerVars, StreamInv, TypeOK, NumberInv, TriesInv,
                LinesInv, BatchInv, StoredInOrder, NothingSkipped, Size
  <2> QED BY <2>1, <2>2, <2>3, <2>4 DEF Next
<1> QED BY InitStream, <1>1, PTL DEF Spec

\* However writers collide and connections break, a reader receives the log
\* from its start without gap or repetition, lines are stored once and in
\* their order, and one is lost only to three others (store.py append,
\* pipelines.py stream_run_events).
THEOREM StreamStaysSound == Spec => []StreamIsSound
BY StreamInvariant, InvImpliesSound, PTL

\* The rows that colliding writers number and the events that broken streams
\* deliver implement the log that a run promises: lines are only added at its
\* end and every reader receives them in their order.
THEOREM RowsImplementLog == Spec => IsFollowedLog
<1>1. Init => Followed!Init
  <2> SUFFICES ASSUME Init PROVE rows \in Seq(Line) /\ Followers = [r \in Readers |-> <<>>]
    BY DEF Followed!Init, Followers, Lines
  <2>1. StreamInv
    BY InitStream
  <2>2. rows \in Seq(Line)
    <3>1. Size \in Nat /\ rows \in [1 .. Size -> Line]
      BY <2>1 DEF StreamInv, TypeOK, NumberInv, Size
    <3> QED BY <3>1
  <2>3. \A r \in Readers : received[r] = <<>>
    BY DEF Init
  <2>4. \A r \in Readers : Lines(r) = <<>>
    BY <2>3 DEF Lines
  <2> QED BY <2>2, <2>4 DEF Followers
<1>2. StreamInv /\ StreamInv' /\ PrefixInv /\ PrefixInv' /\ [Next]_vars =>
        [Followed!Next]_<<rows, Followers>>
  BY StepIsFollowed
<1>3. [Followed!Next]_<<rows, Followers>> =>
        [Followed!Next]_<<rows, [r \in Readers |->
                                   [i \in DOMAIN received[r] |-> received[r][i].line]]>>
  BY DEF Followers, Lines
<1> QED BY <1>1, <1>2, <1>3, StreamInvariant, LinesArePrefix, PTL DEF Spec, IsFollowedLog, Followed!Spec
=============================================================================
