------------------------ MODULE CommandRunnerProofs ------------------------
(***************************************************************************)
(* Proofs about CommandRunner, for any output, cut into any chunks, and    *)
(* whenever the command exits, times out or is cancelled: what the caller  *)
(* gets is true, and what the log shows is a masked prefix of the output.  *)
(***************************************************************************)
EXTENDS CommandRunner, SequenceTheorems, FiniteSetTheorems, WellFoundedInduction,
        TLAPS

-----------------------------------------------------------------------------
(* Least numbers, and induction from the end of a sequence.                *)

\* A set of numbers has a least one.
LEMMA NatMin ==
  ASSUME NEW T \in SUBSET Nat, T # {}
  PROVE  \E x \in T : \A y \in T : x <= y
<1> DEFINE R == OpToRel(<, Nat)
<1>1. IsWellFoundedOn(R, Nat)
  BY NatLessThanWellFounded
<1>2. \A x, y \in Nat : x < y => <<x, y>> \in R
  BY DEF OpToRel
<1> HIDE DEF R
<1>3. PICK x \in T : \A y \in T : <<y, x>> \notin R
  <2>1. T \subseteq Nat /\ T # {}
    OBVIOUS
  <2> QED BY ONLY <1>1, <2>1, WFMin
<1>4. \A y \in T : ~(y < x)
  BY <1>2, <1>3
<1>5. \A y \in T : x <= y
  BY <1>4
<1> QED BY <1>5

\* What holds at a position when it holds at all later ones holds everywhere.
LEMMA DownInduction ==
  ASSUME NEW n \in Nat, NEW S,
         \A p \in 1 .. n : (\A q \in 1 .. n : p < q => q \in S) => p \in S
  PROVE  \A p \in 1 .. n : p \in S
<1> SUFFICES ASSUME NEW p \in 1 .. n, p \notin S PROVE FALSE
  OBVIOUS
<1> DEFINE T == {k \in Nat : k < n /\ n - k \notin S}
<1>1. n - p \in Nat /\ n - p < n /\ n - (n - p) = p
  OBVIOUS
<1>2. n - p \in T
  BY <1>1
<1>3. PICK k \in T : \A l \in T : k <= l
  <2>1. T \in SUBSET Nat /\ T # {}
    BY <1>2
  <2> HIDE DEF T
  <2> QED BY ONLY <2>1, NatMin
<1>4. PICK m \in 1 .. n : m = n - k /\ m \notin S
  OBVIOUS
<1>5. \A q \in 1 .. n : m < q => q \in S
  <2> SUFFICES ASSUME NEW q \in 1 .. n, m < q, q \notin S PROVE FALSE
    OBVIOUS
  <2>1. n - q \in T
    <3>1. n - q \in Nat /\ n - q < n /\ n - (n - q) = q
      OBVIOUS
    <3> QED BY <3>1
  <2>2. k <= n - q
    BY <1>3, <2>1
  <2> QED BY <1>4, <2>2
<1> QED BY <1>4, <1>5

\* A bounded set of numbers has a greatest one.
LEMMA Greatest ==
  ASSUME NEW T \in SUBSET Nat, T # {}, NEW m \in Nat, \A x \in T : x <= m
  PROVE  \E x \in T : \A y \in T : y <= x
<1> DEFINE D == {m - x : x \in T}
<1>1. D \in SUBSET Nat /\ D # {}
  <2>1. \A x \in T : m - x \in Nat
    OBVIOUS
  <2>2. PICK x \in T : TRUE
    OBVIOUS
  <2>3. m - x \in D
    OBVIOUS
  <2> QED BY <2>1, <2>3
<1>2. PICK d \in D : \A e \in D : d <= e
  <2> HIDE DEF D
  <2> QED BY ONLY <1>1, NatMin
<1>3. PICK x \in T : d = m - x
  OBVIOUS
<1>4. \A y \in T : m - x <= m - y
  BY <1>2, <1>3
<1>5. \A y \in T : y <= x
  BY <1>4
<1> QED BY <1>5

\* Max of a bounded set.
LEMMA MaxIs ==
  ASSUME NEW T \in SUBSET Nat, T # {}, NEW m \in Nat, \A x \in T : x <= m
  PROVE  Max(T) \in T /\ \A x \in T : x <= Max(T)
<1>1. PICK x \in T : \A y \in T : y <= x
  BY Greatest
<1>2. \A y \in T : x >= y
  BY <1>1
<1>3. Max(T) \in T /\ \A y \in T : Max(T) >= y
  BY <1>2 DEF Max
<1> QED BY <1>3

\* Max and Min as the code uses them.
LEMMA MaxOfTwo == \A n \in Int : Max({0, n}) = IF n > 0 THEN n ELSE 0
<1> SUFFICES ASSUME NEW n \in Int PROVE Max({0, n}) = IF n > 0 THEN n ELSE 0
  OBVIOUS
<1> DEFINE m == IF n > 0 THEN n ELSE 0
<1>1. m \in {0, n} /\ \A y \in {0, n} : m >= y
  OBVIOUS
<1>2. \A x \in {0, n} : (\A y \in {0, n} : x >= y) => x = m
  OBVIOUS
<1> QED BY <1>1, <1>2 DEF Max

LEMMA MinOfTwo == \A a, b \in Int : Min({a, b}) = IF a < b THEN a ELSE b
<1> SUFFICES ASSUME NEW a \in Int, NEW b \in Int PROVE Min({a, b}) = IF a < b THEN a ELSE b
  OBVIOUS
<1> DEFINE m == IF a < b THEN a ELSE b
<1>1. m \in {a, b} /\ \A y \in {a, b} : m =< y
  OBVIOUS
<1>2. \A x \in {a, b} : (\A y \in {a, b} : x =< y) => x = m
  OBVIOUS
<1> QED BY <1>1, <1>2 DEF Min

\* Finitely many numbers are bounded.
LEMMA Bounded ==
  ASSUME NEW n \in Nat, NEW f \in [1 .. n -> Nat]
  PROVE  \E m \in Nat : \A i \in 1 .. n : f[i] <= m
<1> DEFINE S == {p \in 1 .. n + 1 : \E m \in Nat : \A i \in p .. n : f[i] <= m}
<1>1. \A p \in 1 .. n + 1 : (\A q \in 1 .. n + 1 : p < q => q \in S) => p \in S
  <2> SUFFICES ASSUME NEW p \in 1 .. n + 1, \A q \in 1 .. n + 1 : p < q => q \in S
               PROVE  \E m \in Nat : \A i \in p .. n : f[i] <= m
    OBVIOUS
  <2>1. CASE p = n + 1
    <3>1. \A i \in p .. n : f[i] <= 0
      BY <2>1
    <3> QED BY <3>1
  <2>2. CASE p # n + 1
    <3>1. p + 1 \in S
      <4>1. p + 1 \in 1 .. n + 1 /\ p < p + 1
        BY <2>2
      <4> HIDE DEF S
      <4> QED BY <4>1
    <3>2. PICK m \in Nat : \A i \in p + 1 .. n : f[i] <= m
      BY <3>1
    <3>3. f[p] \in Nat
      BY <2>2
    <3>4. \A i \in p .. n : f[i] <= m + f[p]
      <4> SUFFICES ASSUME NEW i \in p .. n PROVE f[i] <= m + f[p]
        OBVIOUS
      <4>1. i = p \/ i \in p + 1 .. n
        OBVIOUS
      <4>2. f[i] \in Nat
        OBVIOUS
      <4> QED BY <3>2, <3>3, <4>1, <4>2
    <3>5. m + f[p] \in Nat
      BY <3>3
    <3> QED BY <3>4, <3>5
  <2> QED BY <2>1, <2>2
<1>2. n + 1 \in Nat /\ 1 \in 1 .. n + 1
  OBVIOUS
<1>3. 1 \in S
  <2> HIDE DEF S
  <2> QED BY ONLY <1>1, <1>2, DownInduction
<1> QED BY <1>3

\* What a stream keeps back is all but a byte of the longest secret.
LEMMA Retains ==
  Retained \in Nat /\ \A s \in Secrets : Len(s) \in Nat \ {0} /\ Len(s) <= Retained + 1
<1> DEFINE T == {Len(s) : s \in Secrets} \cup {0}
<1>1. \A s \in Secrets : Len(s) \in Nat \ {0}
  BY RedactionAssumption, EmptySeq DEF RedactionAssumption
<1>2. \E m \in Nat : \A s \in Secrets : Len(s) <= m
  <2>1. PICK n \in Nat : ExistsBijection(1 .. n, Secrets)
    BY RedactionAssumption, FS_CardinalityType DEF RedactionAssumption
  <2>2. PICK f \in [1 .. n -> Secrets] : \A s \in Secrets : \E i \in 1 .. n : f[i] = s
    BY <2>1 DEF ExistsBijection, Bijection, Surjection
  <2> DEFINE g == [i \in 1 .. n |-> Len(f[i])]
  <2>3. g \in [1 .. n -> Nat]
    BY <1>1
  <2>4. PICK m \in Nat : \A i \in 1 .. n : g[i] <= m
    <3> HIDE DEF g
    <3> QED BY ONLY <2>3, Bounded
  <2>5. \A s \in Secrets : Len(s) <= m
    BY <2>2, <2>4
  <2> QED BY <2>5
<1>3. PICK m \in Nat : \A x \in T : x <= m
  BY <1>2
<1>4. T \in SUBSET Nat /\ T # {} /\ 0 \in T /\ \A s \in Secrets : Len(s) \in T
  BY <1>1
<1> HIDE DEF T
<1>5. Max(T) \in T /\ \A x \in T : x <= Max(T)
  BY ONLY <1>3, <1>4, MaxIs
<1>6. MaxSecretLength = Max(T)
  BY DEF MaxSecretLength, T
<1>7. MaxSecretLength \in Nat /\ \A x \in T : x <= MaxSecretLength
  BY <1>4, <1>5, <1>6
<1>8. Retained = IF MaxSecretLength - 1 > 0 THEN MaxSecretLength - 1 ELSE 0
  <2>1. MaxSecretLength - 1 \in Int
    BY <1>7
  <2> QED BY <2>1, MaxOfTwo DEF Retained
<1> QED BY <1>1, <1>4, <1>7, <1>8

-----------------------------------------------------------------------------
(* Where a secret starts, and what becomes of it.                          *)

\* Secrets are texts that are not empty.
LEMMA SecretsAre ==
  \A s \in Secrets : s \in Seq(Bytes) /\ Len(s) \in Nat \ {0}
<1> SUFFICES ASSUME NEW s \in Secrets
             PROVE  s \in Seq(Bytes) /\ Len(s) \in Nat \ {0}
  OBVIOUS
<1>1. s \in Seq(Bytes) /\ s # <<>>
  BY RedactionAssumption DEF RedactionAssumption
<1>2. Len(s) \in Nat \ {0}
  BY ONLY <1>1, EmptySeq
<1> QED BY <1>1, <1>2

\* Those that can be masked have no star.
LEMMA MaskableAre ==
  \A s \in Maskable : s \in Secrets /\ \A i \in 1 .. Len(s) : s[i] # Star
<1> SUFFICES ASSUME NEW s \in Maskable
             PROVE  s \in Secrets /\ \A i \in 1 .. Len(s) : s[i] # Star
  OBVIOUS
<1>1. s \in Secrets /\ \A i \in DOMAIN s : s[i] # Star
  BY DEF Maskable
<1>2. s \in Seq(Bytes)
  BY <1>1, SecretsAre
<1> QED BY <1>1, <1>2

\* A piece of a sequence, by its first and last position.
LEMMA Span ==
  ASSUME NEW v \in Seq(Bytes), NEW p \in Nat \ {0}, NEW n \in Nat, p + n <= Len(v) + 1
  PROVE  /\ SubSeq(v, p, p + n - 1) \in Seq(Bytes)
         /\ Len(SubSeq(v, p, p + n - 1)) = n
         /\ \A i \in 1 .. n : SubSeq(v, p, p + n - 1)[i] = v[p + i - 1]
<1>1. PICK m \in Int : m = p + n - 1 /\ p \in Int
  OBVIOUS
<1>2. \A i \in p .. m : v[i] \in Bytes
  BY <1>1
<1>3. /\ SubSeq(v, p, m) \in Seq(Bytes)
      /\ Len(SubSeq(v, p, m)) = IF p <= m THEN m - p + 1 ELSE 0
      /\ \A i \in 1 .. m - p + 1 : SubSeq(v, p, m)[i] = v[p + i - 1]
  BY ONLY <1>1, <1>2, SubSeqProperties
<1> QED BY <1>1, <1>3

\* A secret starts at a position if its bytes are there.
LEMMA StartsAtIs ==
  ASSUME NEW v \in Seq(Bytes), NEW s \in Seq(Bytes), NEW p \in Nat \ {0}
  PROVE  StartsAt(v, s, p) <=>
           p + Len(s) <= Len(v) + 1 /\ \A i \in 1 .. Len(s) : v[p + i - 1] = s[i]
<1>1. Len(s) \in Nat /\ Len(v) \in Nat
  OBVIOUS
<1>2. p + Len(s) - 1 =< Len(v) <=> p + Len(s) <= Len(v) + 1
  BY <1>1
<1>3. CASE p + Len(s) <= Len(v) + 1
  <2>1. /\ SubSeq(v, p, p + Len(s) - 1) \in Seq(Bytes)
        /\ Len(SubSeq(v, p, p + Len(s) - 1)) = Len(s)
        /\ \A i \in 1 .. Len(s) : SubSeq(v, p, p + Len(s) - 1)[i] = v[p + i - 1]
    BY <1>1, <1>3, Span
  <2>2. SubSeq(v, p, p + Len(s) - 1) = s <=>
          \A i \in 1 .. Len(s) : SubSeq(v, p, p + Len(s) - 1)[i] = s[i]
    BY <2>1, SeqEqual
  <2> QED BY <1>2, <1>3, <2>1, <2>2 DEF StartsAt
<1>4. CASE ~(p + Len(s) <= Len(v) + 1)
  BY <1>2, <1>4 DEF StartsAt
<1> QED BY <1>3, <1>4

\* The longest of the secrets that start at a position starts there.
LEMMA LongestIs ==
  ASSUME NEW v, NEW p, Matching(v, p) # {}
  PROVE  Longest(Matching(v, p)) \in Matching(v, p)
<1> DEFINE T == {Len(s) : s \in Matching(v, p)}
<1>1. Matching(v, p) \subseteq Secrets
  BY DEF Matching
<1>2. T \in SUBSET Nat /\ T # {} /\ Retained + 1 \in Nat /\ \A x \in T : x <= Retained + 1
  <2>1. \A s \in Matching(v, p) : Len(s) \in Nat /\ Len(s) <= Retained + 1
    BY <1>1, Retains
  <2>2. Retained + 1 \in Nat
    BY Retains
  <2> QED BY <2>1, <2>2
<1>3. PICK x \in T : \A y \in T : y <= x
  <2> HIDE DEF T
  <2> QED BY ONLY <1>2, Greatest
<1>4. PICK s \in Matching(v, p) : \A t \in Matching(v, p) : Len(t) =< Len(s)
  BY <1>3
<1> QED BY <1>4 DEF Longest

\* One step of the scan goes forward and stays in the text.
LEMMA MaskedIs ==
  ASSUME NEW v \in Seq(Bytes), NEW p \in 1 .. Len(v)
  PROVE  /\ Masked(v, p).text \in Seq(Bytes)
         /\ Masked(v, p).next \in p + 1 .. Len(v) + 1
         /\ Matching(v, p) = {} =>
              Masked(v, p).text = <<v[p]>> /\ Masked(v, p).next = p + 1
         /\ Matching(v, p) # {} => Masked(v, p).text = Stars
<1>1. v[p] \in Bytes /\ Star \in Bytes
  BY RedactionAssumption DEF RedactionAssumption
<1>2. CASE Matching(v, p) = {}
  <2>1. Masked(v, p) = [text |-> <<v[p]>>, next |-> p + 1]
    BY <1>2 DEF Masked
  <2> QED BY <1>1, <1>2, <2>1
<1>3. CASE Matching(v, p) # {}
  <2>1. PICK s \in Secrets : s = Longest(Matching(v, p)) /\ StartsAt(v, s, p)
    BY <1>3, LongestIs DEF Matching
  <2>2. Masked(v, p) = [text |-> Stars, next |-> p + Len(s)]
    BY <1>3, <2>1 DEF Masked
  <2>3. Len(s) \in Nat \ {0} /\ s \in Seq(Bytes)
    BY SecretsAre
  <2>4. p + Len(s) <= Len(v) + 1
    BY <2>1, <2>3, StartsAtIs
  <2>5. Stars \in Seq(Bytes)
    BY <1>1 DEF Stars
  <2> QED BY <1>3, <2>2, <2>3, <2>4, <2>5
<1> QED BY <1>2, <1>3

-----------------------------------------------------------------------------
(* The scan.                                                               *)

\* The function that Scan defines exists.
LEMMA ScanIs ==
  ASSUME NEW v \in Seq(Bytes), NEW limit \in 0 .. Len(v)
  PROVE  LET from == Scan(v, limit)
         IN  \A p \in 1 .. Len(v) + 1 :
               from[p] = IF p > limit THEN [text |-> <<>>, next |-> p]
                         ELSE [text |-> Masked(v, p).text \o from[Masked(v, p).next].text,
                               next |-> from[Masked(v, p).next].next]
<1> DEFINE n == Len(v)
           Body(f, p) == IF p > limit THEN [text |-> <<>>, next |-> p]
                         ELSE [text |-> Masked(v, p).text \o f[Masked(v, p).next].text,
                               next |-> f[Masked(v, p).next].next]
           S == {p \in 1 .. n + 1 : \E f : \A q \in p .. n + 1 : f[q] = Body(f, q)}
<1>1. n \in Nat
  OBVIOUS
<1>2. \A p \in 1 .. n + 1 : (\A q \in 1 .. n + 1 : p < q => q \in S) => p \in S
  <2> SUFFICES ASSUME NEW p \in 1 .. n + 1, \A q \in 1 .. n + 1 : p < q => q \in S
               PROVE  \E f : \A q \in p .. n + 1 : f[q] = Body(f, q)
    OBVIOUS
  <2>1. \E f : \A q \in p + 1 .. n + 1 : f[q] = Body(f, q)
    <3>1. CASE p = n + 1
      <4>1. p + 1 .. n + 1 = {}
        BY <1>1, <3>1
      <4> QED BY <4>1
    <3>2. CASE p # n + 1
      <4>1. p + 1 \in 1 .. n + 1 /\ p < p + 1
        BY <1>1, <3>2
      <4> QED BY <4>1
    <3> QED BY <3>1, <3>2
  <2>2. PICK f : \A q \in p + 1 .. n + 1 : f[q] = Body(f, q)
    BY <2>1
  <2> DEFINE g == [q \in p .. n + 1 |-> IF q = p THEN Body(f, p) ELSE f[q]]
  <2>3. \A q \in p + 1 .. n + 1 : q \in p .. n + 1 /\ q # p /\ g[q] = f[q]
    OBVIOUS
  <2>4. \A q \in p .. n + 1 : q > limit \/ Masked(v, q).next \in p + 1 .. n + 1
    <3> SUFFICES ASSUME NEW q \in p .. n + 1, ~(q > limit)
                 PROVE  Masked(v, q).next \in p + 1 .. n + 1
      OBVIOUS
    <3>1. q \in 1 .. n
      BY <1>1
    <3>2. Masked(v, q).next \in q + 1 .. n + 1
      BY <3>1, MaskedIs
    <3> QED BY <3>1, <3>2
  <2>5. \A q \in p .. n + 1 : Body(g, q) = Body(f, q)
    <3> SUFFICES ASSUME NEW q \in p .. n + 1 PROVE Body(g, q) = Body(f, q)
      OBVIOUS
    <3>1. CASE q > limit
      BY <3>1
    <3>2. CASE ~(q > limit)
      <4>1. g[Masked(v, q).next] = f[Masked(v, q).next]
        <5> HIDE DEF g
        <5> QED BY <2>3, <2>4, <3>2
      <4> QED BY ONLY <4>1
    <3> QED BY <3>1, <3>2
  <2>6. \A q \in p .. n + 1 : g[q] = Body(f, q)
    <3> SUFFICES ASSUME NEW q \in p .. n + 1 PROVE g[q] = Body(f, q)
      OBVIOUS
    <3>1. q = p \/ q \in p + 1 .. n + 1
      OBVIOUS
    <3>2. CASE q = p
      BY ONLY <3>2
    <3>3. CASE q \in p + 1 .. n + 1
      <4> HIDE DEF g, Body
      <4> QED BY <2>2, <2>3, <3>3
    <3> QED BY <3>1, <3>2, <3>3
  <2> HIDE DEF g, Body
  <2>7. \A q \in p .. n + 1 : g[q] = Body(g, q)
    BY <2>5, <2>6
  <2> QED BY <2>7
<1>3. \A p \in 1 .. n + 1 : p \in S
  <2>1. n + 1 \in Nat
    BY <1>1
  <2> HIDE DEF S
  <2> QED BY ONLY <1>2, <2>1, DownInduction
<1>4. PICK f : \A q \in 1 .. n + 1 : f[q] = Body(f, q)
  <2>1. 1 \in 1 .. n + 1
    BY <1>1
  <2>2. 1 \in S
    BY <1>3, <2>1
  <2> QED BY <2>2
<1> DEFINE h == [q \in 1 .. n + 1 |-> f[q]]
<1>5. \A q \in 1 .. n + 1 : Body(h, q) = Body(f, q)
  <2> SUFFICES ASSUME NEW q \in 1 .. n + 1 PROVE Body(h, q) = Body(f, q)
    OBVIOUS
  <2>1. CASE q > limit
    BY <2>1
  <2>2. CASE ~(q > limit)
    <3>1. q \in 1 .. n
      BY <1>1, <2>2
    <3>2. Masked(v, q).next \in q + 1 .. n + 1
      BY <3>1, MaskedIs
    <3>3. Masked(v, q).next \in 1 .. n + 1
      BY <3>1, <3>2
    <3>4. h[Masked(v, q).next] = f[Masked(v, q).next]
      BY <3>3
    <3> QED BY ONLY <3>4
  <2> QED BY <2>1, <2>2
<1>6. h = [q \in 1 .. n + 1 |-> Body(h, q)]
  <2> HIDE DEF Body
  <2> QED BY <1>4, <1>5
<1>7. Scan(v, limit) = CHOOSE g : g = [q \in 1 .. n + 1 |-> Body(g, q)]
  BY DEF Scan
<1>8. Scan(v, limit) = [q \in 1 .. n + 1 |-> Body(Scan(v, limit), q)]
  <2> HIDE DEF Body, h
  <2> QED BY ONLY <1>6, <1>7
<1> DEFINE from == Scan(v, limit)
<1> HIDE DEF from
<1>9. \A q \in 1 .. n + 1 : from[q] = Body(from, q)
  <2>1. from = [q \in 1 .. n + 1 |-> Body(from, q)]
    BY <1>8 DEF from
  <2> HIDE DEF Body
  <2> QED BY ONLY <2>1
<1> QED BY <1>9 DEF from

\* The scan, one position at a time.
LEMMA ScanSteps ==
  ASSUME NEW v \in Seq(Bytes), NEW limit \in 0 .. Len(v), NEW p \in 1 .. Len(v) + 1
  PROVE  /\ p > limit =>
              Scan(v, limit)[p].text = <<>> /\ Scan(v, limit)[p].next = p
         /\ ~(p > limit) =>
              /\ Scan(v, limit)[p].text =
                   Masked(v, p).text \o Scan(v, limit)[Masked(v, p).next].text
              /\ Scan(v, limit)[p].next = Scan(v, limit)[Masked(v, p).next].next
<1> DEFINE F == Scan(v, limit)
<1>1. F[p] = IF p > limit THEN [text |-> <<>>, next |-> p]
             ELSE [text |-> Masked(v, p).text \o F[Masked(v, p).next].text,
                   next |-> F[Masked(v, p).next].next]
  BY ScanIs
<1> HIDE DEF F
<1>2. CASE p > limit
  <2>1. F[p] = [text |-> <<>>, next |-> p]
    BY ONLY <1>1, <1>2
  <2>2. F[p].text = <<>> /\ F[p].next = p
    BY ONLY <2>1
  <2> QED BY <1>2, <2>2 DEF F
<1>3. CASE ~(p > limit)
  <2>1. F[p] = [text |-> Masked(v, p).text \o F[Masked(v, p).next].text,
                next |-> F[Masked(v, p).next].next]
    BY ONLY <1>1, <1>3
  <2>2. PICK a, b : /\ a = Masked(v, p).text \o F[Masked(v, p).next].text
                    /\ b = F[Masked(v, p).next].next
    OBVIOUS
  <2>3. F[p] = [text |-> a, next |-> b]
    BY ONLY <2>1, <2>2
  <2>4. F[p].text = a /\ F[p].next = b
    BY ONLY <2>3
  <2> QED BY <1>3, <2>2, <2>4 DEF F
<1> QED BY <1>2, <1>3

\* The scan gives a text and ends in the text, or right after it.
LEMMA ScanTypes ==
  ASSUME NEW v \in Seq(Bytes), NEW limit \in 0 .. Len(v)
  PROVE  \A p \in 1 .. Len(v) + 1 :
           /\ Scan(v, limit)[p].text \in Seq(Bytes)
           /\ Scan(v, limit)[p].next \in p .. Len(v) + 1
<1> DEFINE n == Len(v)
           F == Scan(v, limit)
           S == {p \in 1 .. n + 1 : F[p].text \in Seq(Bytes) /\ F[p].next \in p .. n + 1}
<1>1. n \in Nat
  OBVIOUS
<1>2. \A p \in 1 .. n + 1 :
        /\ p > limit => F[p].text = <<>> /\ F[p].next = p
        /\ ~(p > limit) => /\ F[p].text = Masked(v, p).text \o F[Masked(v, p).next].text
                           /\ F[p].next = F[Masked(v, p).next].next
  BY ScanSteps
<1> HIDE DEF F
<1>3. \A p \in 1 .. n + 1 : (\A q \in 1 .. n + 1 : p < q => q \in S) => p \in S
  <2> SUFFICES ASSUME NEW p \in 1 .. n + 1, \A q \in 1 .. n + 1 : p < q => q \in S
               PROVE  F[p].text \in Seq(Bytes) /\ F[p].next \in p .. n + 1
    OBVIOUS
  <2>1. CASE p > limit
    <3>1. F[p].text = <<>> /\ F[p].next = p
      BY <1>2, <2>1
    <3> QED BY <1>1, <3>1
  <2>2. CASE ~(p > limit)
    <3>1. p \in 1 .. n
      BY <1>1, <2>2
    <3>2. PICK m \in p + 1 .. n + 1 : m = Masked(v, p).next /\ Masked(v, p).text \in Seq(Bytes)
      BY <3>1, MaskedIs
    <3>3. m \in S
      <4>1. m \in 1 .. n + 1 /\ p < m
        BY <1>1, <3>1
      <4> HIDE DEF S
      <4> QED BY <4>1
    <3>4. F[m].text \in Seq(Bytes) /\ F[m].next \in m .. n + 1
      BY <3>3
    <3>5. F[p].text = Masked(v, p).text \o F[m].text /\ F[p].next = F[m].next
      BY <1>2, <2>2, <3>2
    <3>6. F[p].text \in Seq(Bytes)
      BY ONLY <3>2, <3>4, <3>5, ConcatProperties
    <3> QED BY <3>1, <3>2, <3>4, <3>5, <3>6
  <2> QED BY <2>1, <2>2
<1>4. \A p \in 1 .. n + 1 : p \in S
  <2>1. n + 1 \in Nat
    BY <1>1
  <2> HIDE DEF S
  <2> QED BY ONLY <1>3, <2>1, DownInduction
<1> QED BY <1>4 DEF F

\* What a byte becomes depends on the secrets that start there.
LEMMA MaskedSame ==
  ASSUME NEW u \in Seq(Bytes), NEW v \in Seq(Bytes), NEW p \in 1 .. Len(u), NEW d \in Nat,
         p + d \in 1 .. Len(v), u[p] = v[p + d],
         \A s \in Secrets : StartsAt(u, s, p) <=> StartsAt(v, s, p + d)
  PROVE  /\ Masked(v, p + d).text = Masked(u, p).text
         /\ Masked(v, p + d).next = Masked(u, p).next + d
<1>1. Matching(v, p + d) = Matching(u, p)
  BY DEF Matching
<1>2. CASE Matching(u, p) = {}
  <2>1. /\ Masked(u, p) = [text |-> <<u[p]>>, next |-> p + 1]
        /\ Masked(v, p + d) = [text |-> <<u[p]>>, next |-> p + d + 1]
    BY <1>1, <1>2 DEF Masked
  <2> QED BY <2>1
<1>3. CASE Matching(u, p) # {}
  <2>1. PICK s \in Secrets : s = Longest(Matching(u, p))
    BY <1>3, LongestIs DEF Matching
  <2>2. /\ Masked(u, p) = [text |-> Stars, next |-> p + Len(s)]
        /\ Masked(v, p + d) = [text |-> Stars, next |-> p + d + Len(s)]
    BY <1>1, <1>3, <2>1 DEF Masked
  <2>3. Len(s) \in Nat
    BY SecretsAre
  <2> QED BY <2>2, <2>3
<1> QED BY <1>2, <1>3

\* The scan of the rest of a text is the rest of its scan.
LEMMA ScanShifts ==
  ASSUME NEW v \in Seq(Bytes), NEW q \in 1 .. Len(v) + 1
  PROVE  /\ SubSeq(v, q, Len(v)) \in Seq(Bytes)
         /\ Scan(v, Len(v))[q].text = Redact(SubSeq(v, q, Len(v)))
<1> DEFINE n == Len(v)
           u == SubSeq(v, q, n)
           F == Scan(v, n)
           G == Scan(u, Len(u))
<1>1. PICK d \in Nat, m \in Nat : d = q - 1 /\ m = n - d /\ n \in Nat /\ n = q + m - 1
  OBVIOUS
<1>2. u \in Seq(Bytes) /\ Len(u) = m /\ \A i \in 1 .. m : u[i] = v[q + i - 1]
  <2>1. q \in Nat \ {0} /\ q + m <= n + 1
    BY <1>1
  <2> QED BY <1>1, <2>1, Span
<1> HIDE DEF u
<1> DEFINE S == {p \in 1 .. m + 1 : G[p].text = F[p + d].text}
<1>3. \A p \in 1 .. n + 1 :
        /\ p > n => F[p].text = <<>>
        /\ ~(p > n) => F[p].text = Masked(v, p).text \o F[Masked(v, p).next].text
  <2>1. n \in 0 .. n
    BY <1>1
  <2> QED BY <2>1, ScanSteps
<1>4. \A p \in 1 .. m + 1 :
        /\ p > m => G[p].text = <<>>
        /\ ~(p > m) => G[p].text = Masked(u, p).text \o G[Masked(u, p).next].text
  <2>1. Len(u) \in 0 .. Len(u)
    BY <1>1, <1>2
  <2> QED BY <1>2, <2>1, ScanSteps
<1> HIDE DEF F, G
<1>5. \A p \in 1 .. m + 1 : (\A r \in 1 .. m + 1 : p < r => r \in S) => p \in S
  <2> SUFFICES ASSUME NEW p \in 1 .. m + 1, \A r \in 1 .. m + 1 : p < r => r \in S
               PROVE  G[p].text = F[p + d].text
    OBVIOUS
  <2>1. p + d \in 1 .. n + 1 /\ (p > m <=> p + d > n)
    BY <1>1
  <2>2. CASE p > m
    BY <1>3, <1>4, <2>1, <2>2
  <2>3. CASE ~(p > m)
    <3>1. p \in 1 .. Len(u) /\ p + d \in 1 .. n
      BY <1>1, <1>2, <2>3
    <3>2. u[p] = v[p + d]
      <4>1. p \in 1 .. m /\ q + p - 1 = p + d
        BY <1>1, <1>2, <3>1
      <4> QED BY <1>2, <4>1
    <3>3. ASSUME NEW s \in Secrets
          PROVE  StartsAt(u, s, p) <=> StartsAt(v, s, p + d)
      <4>1. s \in Seq(Bytes) /\ Len(s) \in Nat \ {0}
        BY SecretsAre
      <4>2. p \in Nat \ {0} /\ p + d \in Nat \ {0}
        BY <3>1
      <4>3. StartsAt(u, s, p) <=>
              p + Len(s) <= Len(u) + 1 /\ \A i \in 1 .. Len(s) : u[p + i - 1] = s[i]
        BY ONLY <1>2, <4>1, <4>2, StartsAtIs
      <4>4. StartsAt(v, s, p + d) <=>
              p + d + Len(s) <= Len(v) + 1 /\ \A i \in 1 .. Len(s) : v[p + d + i - 1] = s[i]
        BY <4>1, <4>2, StartsAtIs
      <4>5. p + Len(s) <= Len(u) + 1 <=> p + d + Len(s) <= Len(v) + 1
        BY <1>1, <1>2, <4>1
      <4>6. ASSUME p + Len(s) <= Len(u) + 1, NEW i \in 1 .. Len(s)
            PROVE  u[p + i - 1] = v[p + d + i - 1]
        <5>1. PICK k \in 1 .. m : k = p + i - 1 /\ q + k - 1 = p + d + i - 1
          BY <1>1, <1>2, <4>1, <4>6
        <5> QED BY <1>2, <5>1
      <4> QED BY <4>3, <4>4, <4>5, <4>6
    <3>4. /\ Masked(v, p + d).text = Masked(u, p).text
          /\ Masked(v, p + d).next = Masked(u, p).next + d
      BY ONLY <1>2, <3>1, <3>2, <3>3, MaskedSame
    <3>5. PICK r \in p + 1 .. m + 1 : r = Masked(u, p).next
      BY <1>2, <3>1, MaskedIs
    <3>6. r \in S
      <4>1. r \in 1 .. m + 1 /\ p < r
        BY <3>1
      <4> HIDE DEF S
      <4> QED BY <4>1
    <3>7. G[r].text = F[r + d].text
      BY <3>6
    <3>8. G[p].text = Masked(u, p).text \o G[r].text
      BY <1>4, <2>3, <3>5
    <3>9. F[p + d].text = Masked(v, p + d).text \o F[r + d].text
      <4>1. p + d \in 1 .. n + 1 /\ ~(p + d > n)
        BY <2>1, <2>3
      <4>2. Masked(v, p + d).next = r + d
        BY <3>4, <3>5
      <4> QED BY ONLY <1>3, <4>1, <4>2
    <3> QED BY <3>4, <3>7, <3>8, <3>9
  <2> QED BY <2>2, <2>3
<1>6. \A p \in 1 .. m + 1 : p \in S
  <2>1. m + 1 \in Nat
    BY <1>1
  <2> HIDE DEF S
  <2> QED BY ONLY <1>5, <2>1, DownInduction
<1>7. G[1].text = F[q].text
  <2>1. 1 \in 1 .. m + 1 /\ 1 + d = q
    BY <1>1
  <2>2. 1 \in S
    BY <1>6, <2>1
  <2> QED BY <2>1, <2>2
<1>8. Redact(u) = G[1].text
  BY DEF Redact, RedactPrefix, G
<1> QED BY <1>2, <1>7, <1>8 DEF F, u

\* The redaction of a text is a text.
LEMMA RedactTypes ==
  ASSUME NEW v \in Seq(Bytes), NEW limit \in 0 .. Len(v)
  PROVE  /\ RedactPrefix(v, limit).text \in Seq(Bytes)
         /\ RedactPrefix(v, limit).next \in 1 .. Len(v) + 1
         /\ Redact(v) \in Seq(Bytes)
<1>1. 1 \in 1 .. Len(v) + 1 /\ Len(v) \in 0 .. Len(v)
  OBVIOUS
<1>2. Scan(v, limit)[1].text \in Seq(Bytes) /\ Scan(v, limit)[1].next \in 1 .. Len(v) + 1
  BY <1>1, ScanTypes
<1>3. Scan(v, Len(v))[1].text \in Seq(Bytes)
  BY <1>1, ScanTypes
<1> QED BY <1>2, <1>3 DEF Redact, RedactPrefix

\* Nothing is redacted to nothing.
LEMMA RedactNothing == Redact(<<>>) = <<>>
<1>1. <<>> \in Seq(Bytes) /\ Len(<<>>) = 0
  BY EmptySeq
<1>2. PICK v \in Seq(Bytes) : v = <<>> /\ Len(v) = 0
  BY ONLY <1>1
<1>3. 0 \in 0 .. Len(v) /\ 1 \in 1 .. Len(v) + 1 /\ 1 > 0
  BY <1>2
<1>4. Scan(v, 0)[1].text = <<>>
  BY ONLY <1>3, ScanSteps
<1> QED BY <1>2, <1>4 DEF Redact, RedactPrefix

\* What is left of two texts after a position in the first one.
LEMMA RestOfConcat ==
  ASSUME NEW v \in Seq(Bytes), NEW w \in Seq(Bytes), NEW p \in 1 .. Len(v) + 1
  PROVE  SubSeq(v \o w, p, Len(v \o w)) = SubSeq(v, p, Len(v)) \o w
<1>1. PICK n \in Nat, m \in Nat, k \in Nat :
        n = Len(v) /\ m = Len(w) /\ k = n + 1 - p
  OBVIOUS
<1>2. /\ v \o w \in Seq(Bytes) /\ Len(v \o w) = n + m
      /\ \A i \in 1 .. n + m : (v \o w)[i] = IF i <= n THEN v[i] ELSE w[i - n]
  BY <1>1, ConcatProperties
<1> DEFINE a == SubSeq(v \o w, p, n + m)
           b == SubSeq(v, p, n)
           c == b \o w
<1>3. p \in Nat \ {0} /\ k + m \in Nat /\ p + (k + m) <= n + m + 1 /\ p + (k + m) - 1 = n + m
      /\ p + k <= n + 1 /\ p + k - 1 = n
  BY <1>1
<1>4. a \in Seq(Bytes) /\ Len(a) = k + m /\ \A i \in 1 .. k + m : a[i] = (v \o w)[p + i - 1]
  BY <1>2, <1>3, Span
<1>5. b \in Seq(Bytes) /\ Len(b) = k /\ \A i \in 1 .. k : b[i] = v[p + i - 1]
  <2>1. p + k <= Len(v) + 1 /\ n = p + k - 1
    BY ONLY <1>1, <1>3
  <2>2. /\ SubSeq(v, p, p + k - 1) \in Seq(Bytes) /\ Len(SubSeq(v, p, p + k - 1)) = k
        /\ \A i \in 1 .. k : SubSeq(v, p, p + k - 1)[i] = v[p + i - 1]
    BY ONLY <1>3, <2>1, Span
  <2> QED BY ONLY <2>1, <2>2
<1> HIDE DEF a, b
<1>6. /\ c \in Seq(Bytes) /\ Len(c) = k + m
      /\ \A i \in 1 .. k + m : c[i] = IF i <= k THEN b[i] ELSE w[i - k]
  <2>1. /\ b \o w \in Seq(Bytes) /\ Len(b \o w) = Len(b) + Len(w)
        /\ \A i \in 1 .. Len(b) + Len(w) : (b \o w)[i] = IF i <= Len(b) THEN b[i] ELSE w[i - Len(b)]
    BY <1>5, ConcatProperties
  <2>2. Len(b) = k /\ Len(w) = m
    BY <1>1, <1>5
  <2> QED BY ONLY <2>1, <2>2
<1> HIDE DEF c
<1>7. \A i \in 1 .. k + m : a[i] = c[i]
  <2> SUFFICES ASSUME NEW i \in 1 .. k + m PROVE a[i] = c[i]
    OBVIOUS
  <2>1. CASE i <= k
    <3>1. p + i - 1 \in 1 .. n + m /\ p + i - 1 <= n /\ i \in 1 .. k
      BY <1>1, <2>1
    <3> QED BY <1>2, <1>4, <1>5, <1>6, <2>1, <3>1
  <2>2. CASE ~(i <= k)
    <3>1. PICK j \in 1 .. n + m : j = p + i - 1 /\ ~(j <= n)
      BY <1>1, <2>2
    <3>2. PICK l \in Int : l = i - k /\ l = j - n
      <4>1. p \in Int /\ k = n + 1 - p /\ j = p + i - 1 /\ i \in Int
        BY <1>1, <3>1
      <4>2. i - k \in Int /\ i - k = j - n
        BY ONLY <1>1, <4>1
      <4> QED BY <4>2
    <3>3. a[i] = w[l]
      BY <1>2, <1>4, <3>1, <3>2
    <3>4. c[i] = w[l]
      BY ONLY <1>6, <2>2, <3>2
    <3> QED BY <3>3, <3>4
  <2> QED BY <2>1, <2>2
<1>8. a = c
  BY ONLY <1>4, <1>6, <1>7, SeqEqual
<1> QED BY <1>1, <1>2, <1>8 DEF a, b, c

\* Where no secret can begin that is not there as a whole, a scan does not
\* depend on what comes after the text.
LEMMA ScanGoesOn ==
  ASSUME NEW v \in Seq(Bytes), NEW more \in Seq(Bytes), NEW limit \in 0 .. Len(v),
         limit = 0 \/ limit + Retained <= Len(v)
  PROVE  Redact(v \o more) =
           RedactPrefix(v, limit).text
             \o Redact(SubSeq(v, RedactPrefix(v, limit).next, Len(v)) \o more)
<1> DEFINE w == v \o more
           F == Scan(v, limit)
           G == Scan(w, Len(w))
           Rest(p) == Redact(SubSeq(v, p, Len(v)) \o more)
<1>1. PICK n \in Nat : n = Len(v) /\ n + 1 \in Nat
  OBVIOUS
<1>2. /\ w \in Seq(Bytes) /\ Len(w) \in Nat /\ n <= Len(w)
      /\ \A i \in 1 .. n : w[i] = v[i]
  BY <1>1, ConcatProperties
<1>3. \A p \in 1 .. n + 1 : G[p].text = Rest(p) \* the whole scan, from p
      /\ Rest(p) \in Seq(Bytes)
  <2> SUFFICES ASSUME NEW p \in 1 .. n + 1 PROVE G[p].text = Rest(p) /\ Rest(p) \in Seq(Bytes)
    OBVIOUS
  <2>1. SubSeq(w, p, Len(w)) = SubSeq(v, p, Len(v)) \o more
    BY <1>1, RestOfConcat
  <2> HIDE DEF w
  <2>2. p \in 1 .. Len(w) + 1
    BY <1>1, <1>2
  <2>3. SubSeq(w, p, Len(w)) \in Seq(Bytes) /\ G[p].text = Redact(SubSeq(w, p, Len(w)))
    BY <1>2, <2>2, ScanShifts
  <2>4. PICK u \in Seq(Bytes) : u = SubSeq(w, p, Len(w))
    BY ONLY <2>3
  <2>5. Redact(u) \in Seq(Bytes)
    <3>1. 0 \in 0 .. Len(u)
      OBVIOUS
    <3> QED BY ONLY <3>1, RedactTypes
  <2> QED BY <2>1, <2>3, <2>4, <2>5
<1>4. \A p \in 1 .. n + 1 :
        /\ p > limit => F[p].text = <<>> /\ F[p].next = p
        /\ ~(p > limit) => /\ F[p].text = Masked(v, p).text \o F[Masked(v, p).next].text
                           /\ F[p].next = F[Masked(v, p).next].next
  BY <1>1, ScanSteps
<1>5. \A p \in 1 .. n : G[p].text = Masked(w, p).text \o G[Masked(w, p).next].text
  <2> SUFFICES ASSUME NEW p \in 1 .. n
               PROVE  G[p].text = Masked(w, p).text \o G[Masked(w, p).next].text
    OBVIOUS
  <2> HIDE DEF w
  <2>1. Len(w) \in 0 .. Len(w) /\ p \in 1 .. Len(w) + 1 /\ ~(p > Len(w))
    BY <1>2
  <2> QED BY ONLY <1>2, <2>1, ScanSteps
<1>6. \A p \in 1 .. n + 1 : F[p].text \in Seq(Bytes) /\ F[p].next \in 1 .. n + 1
  <2> SUFFICES ASSUME NEW p \in 1 .. n + 1
               PROVE  F[p].text \in Seq(Bytes) /\ F[p].next \in 1 .. n + 1
    OBVIOUS
  <2>1. F[p].text \in Seq(Bytes) /\ F[p].next \in p .. n + 1
    BY <1>1, ScanTypes
  <2> QED BY <2>1
<1> HIDE DEF w, F, G, Rest
<1> DEFINE S == {p \in 1 .. n + 1 : G[p].text = F[p].text \o Rest(F[p].next)}
<1>7. \A p \in 1 .. n + 1 : (\A q \in 1 .. n + 1 : p < q => q \in S) => p \in S
  <2> SUFFICES ASSUME NEW p \in 1 .. n + 1, \A q \in 1 .. n + 1 : p < q => q \in S
               PROVE  G[p].text = F[p].text \o Rest(F[p].next)
    OBVIOUS
  <2>1. CASE p > limit
    <3>1. F[p].text = <<>> /\ F[p].next = p
      BY <1>4, <2>1
    <3>2. <<>> \o Rest(p) = Rest(p)
      BY <1>3, ConcatEmptySeq
    <3> QED BY <1>3, <3>1, <3>2
  <2>2. CASE ~(p > limit)
    <3>1. p \in 1 .. n /\ p + Retained <= n /\ p <= Len(w) /\ Retained \in Nat
      BY <1>1, <1>2, <2>2, Retains
    <3>2. ASSUME NEW s \in Secrets
          PROVE  StartsAt(v, s, p) <=> StartsAt(w, s, p)
      <4>1. s \in Seq(Bytes) /\ Len(s) \in Nat \ {0} /\ Len(s) <= Retained + 1
        BY SecretsAre, Retains
      <4>2. p + Len(s) <= Len(v) + 1 /\ p + Len(s) <= Len(w) + 1
        BY <1>1, <1>2, <3>1, <4>1
      <4>3. \A i \in 1 .. Len(s) : v[p + i - 1] = w[p + i - 1]
        <5> SUFFICES ASSUME NEW i \in 1 .. Len(s) PROVE v[p + i - 1] = w[p + i - 1]
          OBVIOUS
        <5>1. p + i - 1 \in 1 .. n
          BY <1>1, <3>1, <4>1, <4>2
        <5> QED BY <1>2, <5>1
      <4>4. p \in Nat \ {0}
        BY <3>1
      <4>5. StartsAt(v, s, p) <=> \A i \in 1 .. Len(s) : v[p + i - 1] = s[i]
        BY <4>1, <4>2, <4>4, StartsAtIs
      <4>6. StartsAt(w, s, p) <=> \A i \in 1 .. Len(s) : w[p + i - 1] = s[i]
        BY ONLY <1>2, <4>1, <4>2, <4>4, StartsAtIs
      <4> QED BY <4>3, <4>5, <4>6
    <3>3. /\ Masked(w, p).text = Masked(v, p).text
          /\ Masked(w, p).next = Masked(v, p).next
      <4>1. /\ p \in 1 .. Len(v) /\ 0 \in Nat /\ p + 0 \in 1 .. Len(w) /\ p + 0 = p
            /\ v[p] = w[p + 0] /\ v \in Seq(Bytes)
            /\ \A s \in Secrets : StartsAt(v, s, p) <=> StartsAt(w, s, p + 0)
        BY <1>1, <1>2, <3>1, <3>2
      <4>2. /\ Masked(w, p + 0).text = Masked(v, p).text
            /\ Masked(w, p + 0).next = Masked(v, p).next + 0
        BY ONLY <1>2, <4>1, MaskedSame
      <4>3. Masked(v, p).next \in Int
        <5>1. Masked(v, p).next \in p + 1 .. Len(v) + 1
          BY <4>1, MaskedIs
        <5> QED BY <1>1, <3>1, <5>1
      <4> QED BY <4>1, <4>2, <4>3
    <3>4. PICK r \in p + 1 .. n + 1 : r = Masked(v, p).next /\ Masked(v, p).text \in Seq(Bytes)
      BY <1>1, <3>1, MaskedIs
    <3>5. r \in 1 .. n + 1 /\ p < r
      BY <3>1
    <3>6. G[r].text = F[r].text \o Rest(F[r].next)
      <4>1. r \in S
        <5> HIDE DEF S
        <5> QED BY <3>5
      <4> QED BY <4>1
    <3>7. F[p].text = Masked(v, p).text \o F[r].text /\ F[p].next = F[r].next
      BY <1>4, <2>2, <3>4
    <3>8. G[p].text = Masked(v, p).text \o G[r].text
      BY <1>5, <3>1, <3>3, <3>4
    <3>9. F[r].text \in Seq(Bytes) /\ Rest(F[r].next) \in Seq(Bytes)
      BY <1>3, <1>6, <3>5
    <3>10. (Masked(v, p).text \o F[r].text) \o Rest(F[r].next)
             = Masked(v, p).text \o (F[r].text \o Rest(F[r].next))
      <4>1. PICK a \in Seq(Bytes), b \in Seq(Bytes), c \in Seq(Bytes) :
              a = Masked(v, p).text /\ b = F[r].text /\ c = Rest(F[r].next)
        BY ONLY <3>4, <3>9
      <4>2. (a \o b) \o c = a \o (b \o c)
        BY ONLY ConcatAssociative
      <4> QED BY ONLY <4>1, <4>2
    <3> QED BY ONLY <3>6, <3>7, <3>8, <3>10
  <2> QED BY <2>1, <2>2
<1>8. 1 \in S
  <2>1. \A p \in 1 .. n + 1 : p \in S
    <3> HIDE DEF S
    <3> QED BY ONLY <1>1, <1>7, DownInduction
  <2>2. 1 \in 1 .. n + 1
    BY <1>1
  <2> QED BY <2>1, <2>2
<1>9. G[1].text = F[1].text \o Rest(F[1].next)
  BY <1>8
<1>10. Redact(w) = G[1].text
  BY DEF G, Redact, RedactPrefix
<1>11. RedactPrefix(v, limit) = F[1]
  BY DEF F, RedactPrefix
<1> QED BY <1>9, <1>10, <1>11 DEF Rest, w

\* A stream may be fed any chunks: what it gives and what it keeps back are
\* together the redaction of the whole.
LEMMA FeedIs ==
  ASSUME NEW kept \in Seq(Bytes), NEW chunk \in Seq(Bytes)
  PROVE  /\ Feed(kept, chunk).text \in Seq(Bytes) /\ Feed(kept, chunk).rest \in Seq(Bytes)
         /\ \A more \in Seq(Bytes) :
              Redact((kept \o chunk) \o more)
                = Feed(kept, chunk).text \o Redact(Feed(kept, chunk).rest \o more)
<1> DEFINE v == kept \o chunk
           limit == Max({0, Len(v) - Retained})
           done == RedactPrefix(v, limit)
<1>1. v \in Seq(Bytes) /\ Len(v) \in Nat
  BY ConcatProperties
<1>2. limit \in 0 .. Len(v) /\ (limit = 0 \/ limit + Retained <= Len(v))
  <2> HIDE DEF v
  <2>1. Retained \in Nat /\ Len(v) - Retained \in Int
    BY <1>1, Retains
  <2>2. limit = IF Len(v) - Retained > 0 THEN Len(v) - Retained ELSE 0
    BY <2>1, MaxOfTwo
  <2> QED BY <1>1, <2>1, <2>2
<1>3. Feed(kept, chunk) = [text |-> done.text, rest |-> SubSeq(v, done.next, Len(v))]
  BY DEF Feed
<1> HIDE DEF v, limit
<1>4. done.text \in Seq(Bytes) /\ done.next \in 1 .. Len(v) + 1
  BY <1>1, <1>2, RedactTypes
<1> HIDE DEF done
<1>5. SubSeq(v, done.next, Len(v)) \in Seq(Bytes)
  BY ONLY <1>1, <1>4, ScanShifts
<1>6. PICK text \in Seq(Bytes), rest \in Seq(Bytes) :
        text = done.text /\ rest = SubSeq(v, done.next, Len(v))
  BY <1>4, <1>5
<1>7. \A more \in Seq(Bytes) : Redact(v \o more) = text \o Redact(rest \o more)
  <2> SUFFICES ASSUME NEW more \in Seq(Bytes)
               PROVE  Redact(v \o more) = text \o Redact(rest \o more)
    OBVIOUS
  <2>1. Redact(v \o more) =
          RedactPrefix(v, limit).text
            \o Redact(SubSeq(v, RedactPrefix(v, limit).next, Len(v)) \o more)
    BY ONLY <1>1, <1>2, ScanGoesOn
  <2> QED BY <1>6, <2>1 DEF done
<1>8. Feed(kept, chunk) = [text |-> text, rest |-> rest]
  BY <1>3, <1>6
<1>9. Feed(kept, chunk).text = text /\ Feed(kept, chunk).rest = rest
  BY ONLY <1>8
<1> QED BY <1>7, <1>9 DEF v

-----------------------------------------------------------------------------
(* No secret is shown.                                                     *)

\* What a scan gives begins, up to its first star, as the text it was given.
LEMMA ScanBegins ==
  ASSUME NEW v \in Seq(Bytes), NEW limit \in 0 .. Len(v)
  PROVE  \A p \in 1 .. Len(v) + 1 : \A m \in Nat :
           /\ m <= Len(Scan(v, limit)[p].text)
           /\ \A i \in 1 .. m : Scan(v, limit)[p].text[i] # Star
           => p + m <= Len(v) + 1 /\ \A i \in 1 .. m : v[p + i - 1] = Scan(v, limit)[p].text[i]
<1> DEFINE n == Len(v)
           F == Scan(v, limit)
           Begins(p) ==
             \A m \in Nat :
               m <= Len(F[p].text) /\ (\A i \in 1 .. m : F[p].text[i] # Star)
               => p + m <= n + 1 /\ \A i \in 1 .. m : v[p + i - 1] = F[p].text[i]
           S == {p \in 1 .. n + 1 : Begins(p)}
<1>1. n \in Nat /\ n + 1 \in Nat
  OBVIOUS
<1>2. \A p \in 1 .. n + 1 :
        /\ p > limit => F[p].text = <<>>
        /\ ~(p > limit) => F[p].text = Masked(v, p).text \o F[Masked(v, p).next].text
        /\ F[p].text \in Seq(Bytes)
  BY ScanSteps, ScanTypes
<1> HIDE DEF F
<1>3. \A p \in 1 .. n + 1 : (\A q \in 1 .. n + 1 : p < q => q \in S) => p \in S
  <2> SUFFICES ASSUME NEW p \in 1 .. n + 1, \A q \in 1 .. n + 1 : p < q => q \in S,
                      NEW m \in Nat, m <= Len(F[p].text),
                      \A i \in 1 .. m : F[p].text[i] # Star
               PROVE  p + m <= n + 1 /\ \A i \in 1 .. m : v[p + i - 1] = F[p].text[i]
    OBVIOUS
  <2>1. CASE m = 0
    BY <1>1, <2>1
  <2>2. CASE m # 0
    <3>1. 1 \in 1 .. m /\ ~(p > limit)
      <4>1. p > limit => Len(F[p].text) = 0
        <5>1. p > limit => F[p].text = <<>>
          BY <1>2
        <5>2. Len(<<>>) = 0
          BY EmptySeq
        <5> QED BY ONLY <5>1, <5>2
      <4>2. m > 0
        BY <2>2
      <4> QED BY <4>1, <4>2
    <3>2. p \in 1 .. n
      BY <1>1, <3>1
    <3>3. PICK a \in Seq(Bytes), r \in p + 1 .. n + 1 :
            a = Masked(v, p).text /\ r = Masked(v, p).next
      BY <3>2, MaskedIs
    <3>4. r \in 1 .. n + 1 /\ p < r
      BY <3>2
    <3>5. PICK b \in Seq(Bytes) : b = F[r].text /\ F[p].text = a \o b
      BY <1>2, <3>1, <3>3, <3>4
    <3>6. /\ Len(a) \in Nat /\ Len(b) \in Nat /\ Len(F[p].text) = Len(a) + Len(b)
          /\ \A i \in 1 .. Len(a) + Len(b) :
               F[p].text[i] = IF i <= Len(a) THEN a[i] ELSE b[i - Len(a)]
      BY ONLY <3>5, ConcatProperties
    <3>7. Matching(v, p) = {}
      <4> SUFFICES ASSUME Matching(v, p) # {} PROVE FALSE
        OBVIOUS
      <4>1. a = Stars
        BY <3>2, <3>3, MaskedIs
      <4>2. Len(a) = 3 /\ a[1] = Star
        BY <4>1 DEF Stars
      <4>3. F[p].text[1] = Star
        BY <3>6, <4>2
      <4> QED BY <3>1, <4>3
    <3>8. a = <<v[p]>> /\ r = p + 1
      BY <3>2, <3>3, <3>7, MaskedIs
    <3>9. Len(a) = 1 /\ a[1] = v[p]
      BY <3>8
    <3>10. PICK k \in Nat : m = k + 1 /\ k <= Len(b)
      BY <2>2, <3>6, <3>9
    <3>11. \A i \in 1 .. k : F[p].text[i + 1] = b[i] /\ i + 1 \in 1 .. m
      <4> SUFFICES ASSUME NEW i \in 1 .. k
                   PROVE  F[p].text[i + 1] = b[i] /\ i + 1 \in 1 .. m
        OBVIOUS
      <4>1. PICK j \in 1 .. Len(a) + Len(b) : j = i + 1 /\ ~(j <= Len(a)) /\ j - Len(a) = i
        BY <3>6, <3>9, <3>10
      <4> QED BY <3>6, <3>10, <4>1
    <3>12. r + k <= n + 1 /\ \A i \in 1 .. k : v[r + i - 1] = b[i]
      <4>1. Begins(r)
        <5>1. r \in S
          <6> HIDE DEF S
          <6> QED BY <3>4
        <5> QED BY <5>1
      <4>2. k <= Len(F[r].text) /\ \A i \in 1 .. k : F[r].text[i] # Star
        BY <3>5, <3>10, <3>11
      <4> QED BY <3>5, <4>1, <4>2
    <3>13. p + m <= n + 1
      BY <3>8, <3>10, <3>12
    <3>14. ASSUME NEW i \in 1 .. m
           PROVE  v[p + i - 1] = F[p].text[i]
      <4>1. CASE i = 1
        BY <3>2, <3>6, <3>9, <4>1
      <4>2. CASE i # 1
        <5>1. PICK j \in 1 .. k : i = j + 1 /\ p + i - 1 = r + j - 1
          <6>1. i - 1 \in 1 .. k /\ i = (i - 1) + 1 /\ p + i - 1 = r + (i - 1) - 1
            BY <3>2, <3>8, <3>10, <4>2
          <6> QED BY <6>1
        <5> QED BY <3>11, <3>12, <5>1
      <4> QED BY <4>1, <4>2
    <3> QED BY <3>13, <3>14
  <2> QED BY <2>1, <2>2
<1>4. \A p \in 1 .. n + 1 : p \in S
  <2> HIDE DEF S
  <2> QED BY ONLY <1>1, <1>3, DownInduction
<1>5. \A p \in 1 .. n + 1 : Begins(p)
  BY <1>4
<1> QED BY <1>5 DEF F

\* A redacted text shows no secret that can be masked: a star separates what
\* was left as it was.
LEMMA RedactedShows ==
  ASSUME NEW v \in Seq(Bytes), NEW limit \in 0 .. Len(v), NEW s \in Maskable
  PROVE  ~Shows(RedactPrefix(v, limit).text, s)
<1> DEFINE n == Len(v)
           F == Scan(v, limit)
           S == {p \in 1 .. n + 1 : ~Shows(F[p].text, s)}
<1>1. n \in Nat /\ n + 1 \in Nat
  OBVIOUS
<1>2. \A p \in 1 .. n + 1 :
        /\ p > limit => F[p].text = <<>>
        /\ ~(p > limit) => F[p].text = Masked(v, p).text \o F[Masked(v, p).next].text
        /\ F[p].text \in Seq(Bytes)
  BY ScanSteps, ScanTypes
<1>3. \A p \in 1 .. n + 1 : \A m \in Nat :
        m <= Len(F[p].text) /\ (\A i \in 1 .. m : F[p].text[i] # Star)
        => p + m <= n + 1 /\ \A i \in 1 .. m : v[p + i - 1] = F[p].text[i]
  BY ScanBegins
<1> HIDE DEF F
<1>4. /\ s \in Secrets
      /\ s \in Seq(Bytes) /\ Len(s) \in Nat \ {0} /\ \A i \in 1 .. Len(s) : s[i] # Star
  BY SecretsAre, MaskableAre
<1>5. \A p \in 1 .. n + 1 : (\A q \in 1 .. n + 1 : p < q => q \in S) => p \in S
  <2> SUFFICES ASSUME NEW p \in 1 .. n + 1, \A q \in 1 .. n + 1 : p < q => q \in S,
                      Shows(F[p].text, s)
               PROVE  FALSE
    OBVIOUS
  <2>1. PICK t \in Seq(Bytes) : t = F[p].text
    BY <1>2
  <2>2. PICK k \in 1 .. Len(t) : StartsAt(t, s, k)
    BY <2>1 DEF Shows
  <2>3. k + Len(s) <= Len(t) + 1 /\ \A i \in 1 .. Len(s) : t[k + i - 1] = s[i]
    BY <1>4, <2>2, StartsAtIs
  <2>4. p \in 1 .. n /\ ~(p > limit)
    <3>1. p > limit => Len(F[p].text) = 0
      <4>1. p > limit => F[p].text = <<>>
        BY <1>2
      <4>2. Len(<<>>) = 0
        BY EmptySeq
      <4> QED BY ONLY <4>1, <4>2
    <3>2. ~(p > limit)
      BY <2>1, <2>2, <3>1
    <3> QED BY <1>1, <3>2
  <2>5. PICK a \in Seq(Bytes), r \in p + 1 .. n + 1 :
          a = Masked(v, p).text /\ r = Masked(v, p).next
    BY <2>4, MaskedIs
  <2>6. r \in 1 .. n + 1 /\ p < r
    BY <2>4
  <2>7. PICK b \in Seq(Bytes) : b = F[r].text /\ t = a \o b
    BY <1>2, <2>1, <2>4, <2>5, <2>6
  <2>8. /\ Len(a) \in Nat /\ Len(b) \in Nat /\ Len(t) = Len(a) + Len(b)
        /\ \A i \in 1 .. Len(a) + Len(b) : t[i] = IF i <= Len(a) THEN a[i] ELSE b[i - Len(a)]
    BY ONLY <2>7, ConcatProperties
  <2>9. CASE k > Len(a)
    <3>1. PICK l \in 1 .. Len(b) : k = l + Len(a)
      <4>1. k - Len(a) \in 1 .. Len(b) /\ k = (k - Len(a)) + Len(a)
        BY <2>8, <2>9
      <4> QED BY <4>1
    <3>2. l + Len(s) <= Len(b) + 1
      BY <1>4, <2>3, <2>8, <3>1
    <3>3. \A i \in 1 .. Len(s) : b[l + i - 1] = s[i]
      <4> SUFFICES ASSUME NEW i \in 1 .. Len(s) PROVE b[l + i - 1] = s[i]
        OBVIOUS
      <4>1. PICK j \in 1 .. Len(a) + Len(b) :
              j = k + i - 1 /\ ~(j <= Len(a)) /\ j - Len(a) = l + i - 1
        <5>1. /\ k + i - 1 \in 1 .. Len(a) + Len(b) /\ ~(k + i - 1 <= Len(a))
              /\ k + i - 1 - Len(a) = l + i - 1
          BY <1>4, <2>8, <3>1, <3>2
        <5> QED BY <5>1
      <4>2. t[j] = b[l + i - 1]
        BY ONLY <2>8, <4>1
      <4> QED BY <2>3, <4>1, <4>2
    <3>4. l \in Nat \ {0}
      OBVIOUS
    <3>5. StartsAt(b, s, l)
      BY ONLY <1>4, <2>7, <3>2, <3>3, <3>4, StartsAtIs
    <3>6. Shows(b, s)
      BY <3>5 DEF Shows
    <3>7. r \in S
      <4> HIDE DEF S
      <4> QED BY <2>6
    <3> QED BY <2>7, <3>6, <3>7
  <2>10. CASE ~(k > Len(a))
    <3>1. k \in 1 .. Len(a) /\ 1 \in 1 .. Len(s) /\ t[k] = a[k] /\ t[k] = s[1]
      <4>1. k <= Len(a) /\ 1 \in 1 .. Len(s) /\ k + 1 - 1 = k
        BY <1>4, <2>8, <2>10
      <4> QED BY <2>3, <2>8, <4>1
    <3>2. Matching(v, p) = {}
      <4> SUFFICES ASSUME Matching(v, p) # {} PROVE FALSE
        OBVIOUS
      <4>1. a = Stars
        BY <2>4, <2>5, MaskedIs
      <4>2. a[k] = Star
        <5>1. Len(a) = 3 /\ a[1] = Star /\ a[2] = Star /\ a[3] = Star
          BY <4>1 DEF Stars
        <5>2. k = 1 \/ k = 2 \/ k = 3
          BY <3>1, <5>1
        <5> QED BY <5>1, <5>2
      <4> QED BY <1>4, <3>1, <4>2
    <3>3. k = 1
      <4>1. a = <<v[p]>>
        BY <2>4, <2>5, <3>2, MaskedIs
      <4> QED BY <3>1, <4>1
    <3>4. Len(s) <= Len(t) /\ \A i \in 1 .. Len(s) : t[i] = s[i]
      <4>1. \A i \in 1 .. Len(s) : k + i - 1 = i
        BY <1>4, <3>3
      <4>2. Len(s) <= Len(t)
        BY <1>4, <2>3, <3>3
      <4> QED BY <2>3, <4>1, <4>2
    <3>5. p + Len(s) <= n + 1 /\ \A i \in 1 .. Len(s) : v[p + i - 1] = s[i]
      <4>1. Len(s) \in Nat /\ Len(s) <= Len(F[p].text)
            /\ \A i \in 1 .. Len(s) : F[p].text[i] # Star
        BY <1>4, <2>1, <3>4
      <4>2. p + Len(s) <= n + 1 /\ \A i \in 1 .. Len(s) : v[p + i - 1] = F[p].text[i]
        BY <1>3, <4>1
      <4> QED BY <2>1, <3>4, <4>2
    <3>6. StartsAt(v, s, p)
      <4>1. p \in Nat \ {0}
        BY <2>4
      <4> QED BY <1>4, <3>5, <4>1, StartsAtIs
    <3> QED BY <1>4, <3>2, <3>6 DEF Matching
  <2> QED BY <2>9, <2>10
<1>6. \A p \in 1 .. n + 1 : p \in S
  <2> HIDE DEF S
  <2> QED BY ONLY <1>1, <1>5, DownInduction
<1>7. ~Shows(F[1].text, s)
  <2>1. 1 \in 1 .. n + 1
    BY <1>1
  <2>2. 1 \in S
    BY <1>6, <2>1
  <2> QED BY <2>2
<1> QED BY <1>7 DEF F, RedactPrefix

\* Nor do its pieces show one.
LEMMA PieceShows ==
  ASSUME NEW t \in Seq(Bytes), NEW s \in Secrets, ~Shows(t, s),
         NEW k \in Nat, NEW n \in Nat, k <= n, n <= Len(t)
  PROVE  ~Shows(SubSeq(t, k + 1, n), s)
<1> DEFINE u == SubSeq(t, k + 1, n)
<1>1. PICK m \in Nat : m = n - k /\ k + 1 + m - 1 = n /\ k + 1 + m <= Len(t) + 1
  OBVIOUS
<1>2. u \in Seq(Bytes) /\ Len(u) = m /\ \A i \in 1 .. m : u[i] = t[k + 1 + i - 1]
  <2>1. k + 1 \in Nat \ {0}
    OBVIOUS
  <2>2. /\ SubSeq(t, k + 1, k + 1 + m - 1) \in Seq(Bytes)
        /\ Len(SubSeq(t, k + 1, k + 1 + m - 1)) = m
        /\ \A i \in 1 .. m : SubSeq(t, k + 1, k + 1 + m - 1)[i] = t[k + 1 + i - 1]
    BY ONLY <1>1, <2>1, Span
  <2> QED BY <1>1, <2>2
<1> HIDE DEF u
<1>3. s \in Seq(Bytes) /\ Len(s) \in Nat \ {0}
  BY SecretsAre
<1> SUFFICES ASSUME NEW p \in 1 .. m, StartsAt(u, s, p) PROVE FALSE
  BY <1>2 DEF Shows, u
<1>4. p + Len(s) <= m + 1 /\ \A i \in 1 .. Len(s) : u[p + i - 1] = s[i]
  <2>1. p \in Nat \ {0}
    OBVIOUS
  <2> QED BY ONLY <1>2, <1>3, <2>1, StartsAt(u, s, p), StartsAtIs
<1>5. PICK q \in 1 .. Len(t) : q = k + p /\ q + Len(s) <= Len(t) + 1
  BY <1>1, <1>3, <1>4
<1>6. \A i \in 1 .. Len(s) : t[q + i - 1] = s[i]
  <2> SUFFICES ASSUME NEW i \in 1 .. Len(s) PROVE t[q + i - 1] = s[i]
    OBVIOUS
  <2>1. PICK j \in 1 .. m : j = p + i - 1 /\ k + 1 + j - 1 = q + i - 1
    BY <1>3, <1>4, <1>5
  <2> QED BY <1>2, <1>4, <2>1
<1>7. StartsAt(t, s, q)
  <2>1. q \in Nat \ {0}
    OBVIOUS
  <2> QED BY <1>3, <1>5, <1>6, <2>1, StartsAtIs
<1> QED BY <1>7 DEF Shows

-----------------------------------------------------------------------------
(* The end of a sequence.                                                  *)

\* What a piece of a sequence is.
LEMMA PieceIs ==
  ASSUME NEW S, NEW s \in Seq(S), NEW k \in Nat, NEW n \in Nat, k <= n, n <= Len(s)
  PROVE  /\ SubSeq(s, k + 1, n) \in Seq(S)
         /\ Len(SubSeq(s, k + 1, n)) = n - k
         /\ \A i \in 1 .. n - k : SubSeq(s, k + 1, n)[i] = s[k + i]
<1>1. \A i \in k + 1 .. n : s[i] \in S
  OBVIOUS
<1>2. k + 1 \in Int /\ n \in Int
  OBVIOUS
<1>3. /\ SubSeq(s, k + 1, n) \in Seq(S)
      /\ Len(SubSeq(s, k + 1, n)) = IF k + 1 <= n THEN n - (k + 1) + 1 ELSE 0
      /\ \A i \in 1 .. n - (k + 1) + 1 : SubSeq(s, k + 1, n)[i] = s[k + 1 + i - 1]
  BY <1>1, <1>2, SubSeqProperties
<1> QED BY <1>3

\* A piece of a piece is a piece.
LEMMA PieceOfPiece ==
  ASSUME NEW S, NEW s \in Seq(S), NEW k \in Nat, NEW n \in Nat, k <= n, n <= Len(s),
         NEW c \in 0 .. n - k
  PROVE  SubSeq(SubSeq(s, k + 1, n), c + 1, n - k) = SubSeq(s, k + c + 1, n)
<1> DEFINE p == SubSeq(s, k + 1, n)
<1>1. p \in Seq(S) /\ Len(p) = n - k /\ \A i \in 1 .. n - k : p[i] = s[k + i]
  BY PieceIs
<1> HIDE DEF p
<1>2. /\ SubSeq(p, c + 1, n - k) \in Seq(S) /\ Len(SubSeq(p, c + 1, n - k)) = n - k - c
      /\ \A i \in 1 .. n - k - c : SubSeq(p, c + 1, n - k)[i] = p[c + i]
  <2>1. PICK m \in Nat : m = n - k
    OBVIOUS
  <2>2. c \in Nat /\ c <= m /\ m <= Len(p) /\ p \in Seq(S)
    BY <1>1, <2>1
  <2>3. /\ SubSeq(p, c + 1, m) \in Seq(S) /\ Len(SubSeq(p, c + 1, m)) = m - c
        /\ \A i \in 1 .. m - c : SubSeq(p, c + 1, m)[i] = p[c + i]
    BY ONLY <2>2, PieceIs
  <2> QED BY <2>1, <2>3
<1>3. /\ SubSeq(s, k + c + 1, n) \in Seq(S) /\ Len(SubSeq(s, k + c + 1, n)) = n - (k + c)
      /\ \A i \in 1 .. n - (k + c) : SubSeq(s, k + c + 1, n)[i] = s[k + c + i]
  <2>1. k + c \in Nat /\ k + c <= n
    OBVIOUS
  <2> QED BY <2>1, PieceIs
<1>4. n - k - c = n - (k + c) /\ n - k - c \in Nat
  OBVIOUS
<1>5. \A i \in 1 .. n - k - c : SubSeq(p, c + 1, n - k)[i] = SubSeq(s, k + c + 1, n)[i]
  <2> SUFFICES ASSUME NEW i \in 1 .. n - k - c
               PROVE  SubSeq(p, c + 1, n - k)[i] = SubSeq(s, k + c + 1, n)[i]
    OBVIOUS
  <2>1. c + i \in 1 .. n - k /\ k + (c + i) = k + c + i
    OBVIOUS
  <2> QED BY <1>1, <1>2, <1>3, <1>4, <2>1
<1> QED BY <1>2, <1>3, <1>4, <1>5 DEF p

\* The end of a beginning is its suffix.
LEMMA PieceIsSuffix ==
  ASSUME NEW S, NEW s \in Seq(S), NEW k \in Nat, NEW n \in Nat, k <= n, n <= Len(s)
  PROVE  IsSuffix(SubSeq(s, k + 1, n), SubSeq(s, 1, n))
<1> DEFINE p == SubSeq(s, k + 1, n)
           q == SubSeq(s, 1, n)
<1>1. p \in Seq(S) /\ Len(p) = n - k /\ \A i \in 1 .. n - k : p[i] = s[k + i]
  BY PieceIs
<1>2. q \in Seq(S) /\ Len(q) = n /\ \A i \in 1 .. n : q[i] = s[i]
  <2>1. 0 \in Nat /\ 0 <= n /\ n - 0 = n /\ 0 + 1 = 1 /\ \A i \in 1 .. n : 0 + i = i
    OBVIOUS
  <2>2. /\ SubSeq(s, 0 + 1, n) \in Seq(S) /\ Len(SubSeq(s, 0 + 1, n)) = n - 0
        /\ \A i \in 1 .. n - 0 : SubSeq(s, 0 + 1, n)[i] = s[0 + i]
    BY <2>1, PieceIs
  <2> QED BY <2>1, <2>2
<1> HIDE DEF p, q
<1>3. /\ Reverse(p) \in Seq(S) /\ Len(Reverse(p)) = n - k
      /\ \A i \in 1 .. n - k : Reverse(p)[i] = p[n - k - i + 1]
  BY <1>1 DEF Reverse
<1>4. /\ Reverse(q) \in Seq(S) /\ Len(Reverse(q)) = n
      /\ \A i \in 1 .. n : Reverse(q)[i] = q[n - i + 1]
  BY <1>2 DEF Reverse
<1>5. \A i \in 1 .. n - k : Reverse(p)[i] = Reverse(q)[i]
  <2> SUFFICES ASSUME NEW i \in 1 .. n - k PROVE Reverse(p)[i] = Reverse(q)[i]
    OBVIOUS
  <2>1. PICK a \in 1 .. n - k : a = n - k - i + 1
    OBVIOUS
  <2>2. PICK b \in 1 .. n : b = n - i + 1 /\ b = k + a /\ i \in 1 .. n
    BY <2>1
  <2>3. Reverse(p)[i] = p[a] /\ p[a] = s[b]
    BY <1>1, <1>3, <2>1, <2>2
  <2>4. Reverse(q)[i] = q[b] /\ q[b] = s[b]
    BY <1>2, <1>4, <2>2
  <2> QED BY <2>3, <2>4
<1>6. n - k \in Nat /\ n - k <= n
  OBVIOUS
<1>7. SubSeq(Reverse(p), 1, n - k) = SubSeq(Reverse(q), 1, n - k)
  BY <1>3, <1>4, <1>5, <1>6
<1> QED BY <1>3, <1>4, <1>6, <1>7 DEF IsSuffix, IsPrefix, p, q

\* _TailBuffer.append keeps the end of the output, and says so when it is not
\* all of it.
LEMMA TailedIsTail ==
  \A s \in Seq(Bytes) : \A k, t, u \in Nat : \A value, chunk, tail :
    /\ k <= t /\ t <= u /\ u <= Len(s)
    /\ value = SubSeq(s, k + 1, t) /\ chunk = SubSeq(s, t + 1, u)
    /\ tail = Tailed(value, chunk)
    => \E j \in 0 .. u :
         tail.value = SubSeq(s, j + 1, u) /\ (j # 0 => k # 0 \/ tail.lost)
<1> TAKE s \in Seq(Bytes)
<1> TAKE k, t, u \in Nat
<1> TAKE value, chunk, tail
<1> HAVE /\ k <= t /\ t <= u /\ u <= Len(s)
         /\ value = SubSeq(s, k + 1, t) /\ chunk = SubSeq(s, t + 1, u)
         /\ tail = Tailed(value, chunk)
<1> DEFINE all == IF Len(chunk) >= CaptureLimit THEN chunk ELSE value \o chunk
           cut == Max({0, Len(all) - CaptureLimit})
           lost == cut > 0 \/ Len(chunk) >= CaptureLimit
<1>1. tail = [value |-> SubSeq(all, cut + 1, Len(all)), lost |-> lost]
  BY DEF Tailed
<1>2. CaptureLimit \in Nat \ {0}
  BY CommandAssumption
<1>3. chunk \in Seq(Bytes) /\ Len(chunk) = u - t
  BY PieceIs
<1>4. value \o chunk = SubSeq(s, k + 1, u)
  <2>1. k + 1 \in 1 .. Len(s) + 1 /\ t \in (k + 1) - 1 .. Len(s) /\ u \in t .. Len(s)
    OBVIOUS
  <2> QED BY <2>1, ConcatAdjacentSubSeq
<1>5. PICK b \in 0 .. u :
        /\ all = SubSeq(s, b + 1, u)
        /\ b = k \/ (b = t /\ Len(chunk) >= CaptureLimit)
  <2>1. CASE Len(chunk) >= CaptureLimit
    <3>1. t \in 0 .. u
      OBVIOUS
    <3> QED BY <2>1, <3>1
  <2>2. CASE ~(Len(chunk) >= CaptureLimit)
    <3>1. k \in 0 .. u
      OBVIOUS
    <3> QED BY <1>4, <2>2, <3>1
  <2> QED BY <2>1, <2>2
<1>6. Len(all) = u - b
  BY <1>5, PieceIs
<1>7. cut = IF u - b - CaptureLimit > 0 THEN u - b - CaptureLimit ELSE 0
  <2>1. u - b - CaptureLimit \in Int
    BY <1>2
  <2> QED BY <1>6, <2>1, MaxOfTwo
<1>8. cut \in 0 .. u - b
  BY <1>2, <1>7
<1> HIDE DEF cut
<1>9. SubSeq(all, cut + 1, Len(all)) = SubSeq(s, b + cut + 1, u)
  <2>1. b \in Nat /\ b <= u
    OBVIOUS
  <2>2. SubSeq(SubSeq(s, b + 1, u), cut + 1, u - b) = SubSeq(s, b + cut + 1, u)
    BY <1>8, <2>1, PieceOfPiece
  <2> QED BY <1>5, <1>6, <2>2
<1> DEFINE j == b + cut
<1>10. j \in 0 .. u
  BY <1>8
<1>11. j # 0 => k # 0 \/ lost
  BY <1>5, <1>8
<1> HIDE DEF lost, all
<1>12. tail.value = SubSeq(all, cut + 1, Len(all))
  BY <1>1
<1>13. tail.lost = lost
  BY <1>1
<1> QED BY <1>9, <1>10, <1>11, <1>12, <1>13

-----------------------------------------------------------------------------
(* The invariant.                                                          *)

\* What was printed and what was read.
CountInv ==
  /\ script \in [Streams -> Seq(Bytes)]
  /\ printed \in [Streams -> Nat] /\ taken \in [Streams -> Nat]
  /\ \A d \in Streams : taken[d] <= printed[d] /\ printed[d] <= Len(script[d])
  /\ reader \in [Streams -> {"off", "reading", "flushing"}]
  /\ DOMAIN capture = Streams /\ DOMAIN truncated = Streams

\* Nobody has told a command to stop whose result is its exit.
StopInv ==
  /\ at \in {"stage", "staging", "waiting"} => told = {} /\ why = "none"
  /\ why = "exit" => told = {} /\ at \in {"draining", "returned"}
  /\ at \in {"draining", "returned"} => seen
  /\ seen => code # "none"
  /\ at = "returned" => why # "raise"

\* Unless the handler's task was cancelled, a reader that has met the end of
\* its pipe has taken everything, and nobody holds a pipe to print more.
DrainInv ==
  /\ at \in {"stage", "staging"} => \A d \in Streams : reader[d] = "off"
  /\ why # "raise" =>
       \A d \in Streams : reader[d] = "flushing" => holding = {} /\ taken[d] = printed[d]
  /\ at = "returned" => \A d \in Streams : reader[d] = "flushing"

\* What was captured is the end of what was taken.
CaptureInv ==
  \A d \in Streams :
    \E k \in 0 .. taken[d] :
      /\ capture[d] = SubSeq(script[d], k + 1, taken[d])
      /\ k # 0 => truncated[d]

CommandInv == CountInv /\ StopInv /\ DrainInv /\ CaptureInv

\* The first state.
LEMMA InitCommand == CommandInit => CommandInv
<1> SUFFICES ASSUME CommandInit PROVE CommandInv
  OBVIOUS
<1> USE DEF CommandInit
<1>1. script \in [Streams -> Seq(Bytes)]
  BY CommandAssumption
<1>2. CountInv
  BY <1>1 DEF CountInv
<1>3. StopInv /\ DrainInv
  BY DEF StopInv, DrainInv
<1>4. CaptureInv
  <2> SUFFICES ASSUME NEW d \in Streams
               PROVE  0 \in 0 .. 0 /\ <<>> = SubSeq(script[d], 0 + 1, 0)
    BY DEF CaptureInv
  <2> QED OBVIOUS
<1> QED BY <1>2, <1>3, <1>4 DEF CommandInv

\* A chunk is read.
LEMMA ReadStep ==
  ASSUME CommandInv, NEW d \in Streams, Read(d)
  PROVE  CommandInv'
<1> USE DEF CommandInv
<1> DEFINE last == Min({taken[d] + ReadSize, printed[d]})
           chunk == SubSeq(script[d], taken[d] + 1, last)
           tail == Tailed(capture[d], chunk)
<1>1. /\ reader[d] = "reading" /\ taken[d] < printed[d]
      /\ taken' = [taken EXCEPT ![d] = last]
      /\ capture' = [capture EXCEPT ![d] = tail.value]
      /\ truncated' = [truncated EXCEPT ![d] = @ \/ tail.lost]
      /\ UNCHANGED <<osVars, runVars, reader>>
  BY DEF Read
<1>2. last \in Nat /\ taken[d] <= last /\ last <= printed[d]
  <2>1. taken[d] \in Nat /\ printed[d] \in Nat /\ ReadSize \in Nat
    BY CommandAssumption DEF CountInv
  <2> QED BY <1>1, <2>1, MinOfTwo
<1> HIDE DEF last
<1>3. CountInv'
  BY <1>1, <1>2 DEF CountInv, osVars
<1>4. StopInv' /\ DrainInv'
  BY <1>1 DEF StopInv, DrainInv, CountInv, osVars, runVars
<1>5. CaptureInv'
  <2> SUFFICES ASSUME NEW e \in Streams
               PROVE  \E k \in 0 .. taken'[e] :
                        /\ capture'[e] = SubSeq(script'[e], k + 1, taken'[e])
                        /\ k # 0 => truncated'[e]
    BY DEF CaptureInv
  <2>1. CASE e # d
    <3>1. /\ taken'[e] = taken[e] /\ capture'[e] = capture[e] /\ truncated'[e] = truncated[e]
          /\ script' = script
      BY <1>1, <2>1 DEF CountInv, osVars
    <3> QED BY <3>1 DEF CaptureInv
  <2>2. CASE e = d
    <3>1. PICK k \in 0 .. taken[d] :
            capture[d] = SubSeq(script[d], k + 1, taken[d]) /\ (k # 0 => truncated[d])
      BY DEF CaptureInv
    <3>2. PICK s \in Seq(Bytes), t \in Nat, u \in Nat :
            s = script[d] /\ t = taken[d] /\ u = last /\ t <= u /\ u <= Len(s)
      BY <1>2 DEF CountInv
    <3>3. chunk = SubSeq(s, t + 1, u)
      BY <3>2
    <3> HIDE DEF chunk
    <3>4. tail = Tailed(capture[d], chunk)
      OBVIOUS
    <3> HIDE DEF tail
    <3>5. PICK v, x, y : v = capture[d] /\ x = chunk /\ y = tail
      OBVIOUS
    <3>6. /\ k \in Nat /\ k <= t /\ t <= u /\ u <= Len(s)
          /\ v = SubSeq(s, k + 1, t) /\ x = SubSeq(s, t + 1, u) /\ y = Tailed(v, x)
      BY <3>1, <3>2, <3>3, <3>4, <3>5
    <3>7. PICK j \in 0 .. u : y.value = SubSeq(s, j + 1, u) /\ (j # 0 => k # 0 \/ y.lost)
      <4>1. \A f, g, h :
              /\ k <= t /\ t <= u /\ u <= Len(s)
              /\ f = SubSeq(s, k + 1, t) /\ g = SubSeq(s, t + 1, u)
              /\ h = Tailed(f, g)
              => \E j \in 0 .. u :
                   h.value = SubSeq(s, j + 1, u) /\ (j # 0 => k # 0 \/ h.lost)
        BY ONLY <3>6, TailedIsTail
      <4> QED BY ONLY <3>6, <4>1
    <3>8. tail.value = SubSeq(script[d], j + 1, last) /\ (j # 0 => k # 0 \/ tail.lost)
      BY ONLY <3>2, <3>5, <3>7
    <3>9. taken'[d] = last /\ capture'[d] = tail.value /\ script' = script
      BY <1>1 DEF CountInv, osVars
    <3>10. truncated[d] \/ tail.lost => truncated'[d]
      BY <1>1 DEF CountInv
    <3>11. j \in 0 .. last
      BY ONLY <3>2
    <3> QED BY <2>2, <3>1, <3>8, <3>9, <3>10, <3>11
  <2> QED BY <2>1, <2>2
<1> QED BY <1>3, <1>4, <1>5

\* The other steps leave alone what was read.
LEMMA OtherSteps ==
  ASSUME CommandInv, [CommandNext]_allVars, \A d \in Streams : ~Read(d)
  PROVE  CommandInv'
<1> USE DEF CommandInv, osVars, runVars
<1>1. UNCHANGED <<taken, capture, truncated, script>> => CaptureInv'
  BY DEF CaptureInv
<1>2. CASE LogStage
  BY <1>1, <1>2 DEF LogStage, CountInv, StopInv, DrainInv, readerVars
<1>3. CASE Start
  <2>1. (\A d \in Streams : reader'[d] # "flushing") \/ UNCHANGED reader
    BY <1>3 DEF Start
  <2>2. CountInv'
    BY <1>3 DEF Start, CountInv
  <2> QED BY <1>1, <1>3, <2>1, <2>2 DEF Start, StopInv, DrainInv
<1>4. ASSUME NEW d \in Streams, Emit(d) PROVE CommandInv'
  <2>1. CountInv'
    BY <1>4 DEF Emit, CountInv, readerVars
  <2>2. DrainInv'
    BY <1>4 DEF Emit, CountInv, DrainInv, readerVars
  <2> QED BY <1>1, <1>4, <2>1, <2>2 DEF Emit, StopInv, readerVars
<1>5. ASSUME NEW m \in Members, End(m) \/ Redirect(m) PROVE CommandInv'
  BY <1>1, <1>5 DEF End, Redirect, CountInv, StopInv, DrainInv, readerVars
<1>6. CASE Reap \/ Exit \/ Ended \/ Kill
  BY <1>1, <1>6 DEF Reap, Exit, Ended, Kill, CountInv, StopInv, DrainInv, readerVars
<1>7. CASE TimeOut \/ CancelSeen
  BY <1>1, <1>7 DEF TimeOut, CancelSeen, Terminate, CountInv, StopInv, DrainInv, readerVars
<1>8. CASE Return
  BY <1>1, <1>8 DEF Return, Drained, CountInv, StopInv, DrainInv, readerVars
<1>9. ASSUME NEW d \in Streams, EndOfFile(d) PROVE CommandInv'
  BY <1>1, <1>9 DEF EndOfFile, CountInv, StopInv, DrainInv
<1>10. ASSUME NEW c \in Clients, WriterStep(c) \/ LogFails(c) PROVE CommandInv'
  BY <1>1, <1>10 DEF WriterStep, LogFails, commandVars, readerVars, CountInv, StopInv, DrainInv
<1>11. CASE RequestCancel
  BY <1>1, <1>11 DEF RequestCancel, CountInv, StopInv, DrainInv, readerVars
<1>12. CASE CancelTask
  BY <1>1, <1>12 DEF CancelTask, Terminate, CountInv, StopInv, DrainInv, readerVars
<1>13. CASE CancelReaders
  BY <1>1, <1>13 DEF CancelReaders, CountInv, StopInv, DrainInv
<1>14. CASE UNCHANGED allVars
  BY <1>1, <1>14 DEF allVars, commandVars, readerVars, CountInv, StopInv, DrainInv
<1> QED BY <1>2, <1>3, <1>4, <1>5, <1>6, <1>7, <1>8, <1>9, <1>10, <1>11, <1>12, <1>13, <1>14
        DEF CommandNext

\* What run() returns is true, whatever races: a success was not disturbed,
\* and the captured output is the end of what was printed (process.py run).
THEOREM CommandResultIsTrue == CommandSpec => []ResultIsTrue
<1>1. CommandInv /\ [CommandNext]_allVars => CommandInv'
  BY ReadStep, OtherSteps
<1>2. CommandInv => ResultIsTrue
  <2> SUFFICES ASSUME CommandInv PROVE ResultIsTrue
    OBVIOUS
  <2> USE DEF CommandInv
  <2>1. at = "returned" =>
          /\ why # "raise" /\ seen /\ code # "none"
          /\ \A d \in Streams : taken[d] = printed[d]
    BY DEF StopInv, DrainInv
  <2>2. SuccessIsUndisturbed
    BY <2>1, CommandAssumption DEF SuccessIsUndisturbed, Ok, StopInv
  <2>3. ASSUME at = "returned", NEW d \in Streams
        PROVE  /\ taken[d] = printed[d]
               /\ IsSuffix(capture[d], Output(d))
               /\ truncated[d] \/ capture[d] = Output(d)
    <3>1. PICK k \in 0 .. taken[d] :
            capture[d] = SubSeq(script[d], k + 1, taken[d]) /\ (k # 0 => truncated[d])
      BY DEF CaptureInv
    <3>2. /\ script[d] \in Seq(Bytes) /\ k \in Nat /\ taken[d] \in Nat
          /\ k <= taken[d] /\ taken[d] <= Len(script[d])
      BY DEF CountInv
    <3>3. IsSuffix(SubSeq(script[d], k + 1, taken[d]), SubSeq(script[d], 1, taken[d]))
      BY <3>2, PieceIsSuffix
    <3>4. k = 0 => SubSeq(script[d], k + 1, taken[d]) = SubSeq(script[d], 1, taken[d])
      BY <3>2
    <3> QED BY <2>1, <2>3, <3>1, <3>3, <3>4 DEF Output
  <2> QED BY <2>2, <2>3 DEF ResultIsTrue, CaptureIsTail
<1> QED BY InitCommand, <1>1, <1>2, PTL DEF CommandSpec

-----------------------------------------------------------------------------
(* The texts of the events, one after the other.                           *)

\* Texts are joined from the first to the last.
LEMMA JoinExists ==
  ASSUME NEW B, NEW q \in Seq(Seq(B))
  PROVE  \E f \in [1 .. Len(q) -> Seq(B)] :
           \A i \in 1 .. Len(q) : f[i] = IF i = 1 THEN q[i] ELSE f[i - 1] \o q[i]
<1>1. PICK n \in Nat : n = Len(q) /\ q \in [1 .. n -> Seq(B)]
  OBVIOUS
<1> DEFINE Joins(m, f) == \A i \in 1 .. m : f[i] = IF i = 1 THEN q[i] ELSE f[i - 1] \o q[i]
           T == {m \in Nat : m <= n /\ ~\E f \in [1 .. m -> Seq(B)] : Joins(m, f)}
<1> SUFFICES ASSUME n \in T PROVE FALSE
  BY <1>1
<1>2. PICK m \in T : \A k \in T : m <= k
  <2>1. T \in SUBSET Nat /\ T # {}
    OBVIOUS
  <2> HIDE DEF T
  <2> QED BY ONLY <2>1, NatMin
<1>3. m \in Nat /\ m <= n /\ ~\E f \in [1 .. m -> Seq(B)] : Joins(m, f)
  OBVIOUS
<1>4. m # 0
  <2> SUFFICES ASSUME m = 0 PROVE FALSE
    OBVIOUS
  <2>1. 1 .. m = {}
    OBVIOUS
  <2>2. [i \in 1 .. m |-> <<>>] \in [1 .. m -> Seq(B)]
    BY <2>1
  <2> QED BY <1>3, <2>1, <2>2
<1>5. PICK k \in Nat : k = m - 1 /\ k < m /\ k <= n /\ m = k + 1
  BY <1>3, <1>4
<1>6. k \notin T
  <2> HIDE DEF T
  <2> QED BY <1>2, <1>3, <1>5
<1>7. PICK f \in [1 .. k -> Seq(B)] : Joins(k, f)
  BY <1>5, <1>6
<1> DEFINE g == [i \in 1 .. m |-> IF i = 1 THEN q[i] ELSE f[i - 1] \o q[i]]
<1>8. \A i \in 1 .. m : i # 1 => i - 1 \in 1 .. k
  BY <1>5
<1>9. \A i \in 1 .. k : i \in 1 .. m /\ g[i] = f[i]
  <2> SUFFICES ASSUME NEW i \in 1 .. k PROVE i \in 1 .. m /\ g[i] = f[i]
    OBVIOUS
  <2>1. i \in 1 .. m
    BY <1>5
  <2>2. f[i] = IF i = 1 THEN q[i] ELSE f[i - 1] \o q[i]
    BY <1>7
  <2> QED BY <2>1, <2>2
<1>10. \A i \in 1 .. m : q[i] \in Seq(B)
  BY <1>1, <1>3
<1>11. g \in [1 .. m -> Seq(B)]
  <2> SUFFICES ASSUME NEW i \in 1 .. m, i # 1 PROVE f[i - 1] \o q[i] \in Seq(B)
    BY <1>10
  <2>1. f[i - 1] \in Seq(B) /\ q[i] \in Seq(B)
    BY <1>8, <1>10
  <2> QED BY ONLY <2>1, ConcatProperties
<1>12. \A i \in 1 .. m : i # 1 => g[i - 1] = f[i - 1]
  <2> HIDE DEF g
  <2> QED BY <1>8, <1>9
<1>13. Joins(m, g)
  BY <1>12
<1> QED BY <1>3, <1>11, <1>13

\* What FlattenSeq computes.
LEMMA FlattenIs ==
  ASSUME NEW B, NEW q \in Seq(Seq(B)), Len(q) # 0
  PROVE  \E f \in [1 .. Len(q) -> Seq(B)] :
           /\ \A i \in 1 .. Len(q) : f[i] = IF i = 1 THEN q[i] ELSE f[i - 1] \o q[i]
           /\ FlattenSeq(q) = f[Len(q)]
<1> DEFINE n == Len(q)
           Body(f, i) == IF i = 1 THEN q[i] ELSE f[i - 1] \o q[i]
           F == CHOOSE g : g = [i \in 1 .. n |-> Body(g, i)]
<1>1. n \in Nat /\ q \in [1 .. n -> Seq(B)]
  OBVIOUS
<1>2. PICK f \in [1 .. n -> Seq(B)] : \A i \in 1 .. n : f[i] = Body(f, i)
  <2>1. \E f \in [1 .. Len(q) -> Seq(B)] :
          \A i \in 1 .. Len(q) : f[i] = IF i = 1 THEN q[i] ELSE f[i - 1] \o q[i]
    BY ONLY q \in Seq(Seq(B)), JoinExists
  <2> QED BY ONLY <2>1
<1>3. f = [i \in 1 .. n |-> Body(f, i)]
  <2> HIDE DEF Body
  <2> QED BY <1>2
<1>4. F = [i \in 1 .. n |-> Body(F, i)]
  <2> HIDE DEF Body
  <2> QED BY ONLY <1>3
<1>5. FlattenSeq(q) = F[n]
  BY DEF FlattenSeq
<1> HIDE DEF F
<1>6. \A i \in 1 .. n : F[i] = Body(F, i)
  <2> HIDE DEF Body
  <2> QED BY ONLY <1>4
<1>7. \A i \in 1 .. n : F[i] = f[i]
  <2> DEFINE T == {i \in Nat : i \in 1 .. n /\ F[i] # f[i]}
  <2> SUFFICES ASSUME NEW j \in 1 .. n, F[j] # f[j] PROVE FALSE
    OBVIOUS
  <2>1. T \in SUBSET Nat /\ T # {}
    <3>1. j \in T
      BY <1>1
    <3> QED BY <3>1
  <2>2. PICK i \in T : \A k \in T : i <= k
    <3> HIDE DEF T
    <3> QED BY ONLY <2>1, NatMin
  <2>3. i \in 1 .. n /\ F[i] # f[i]
    OBVIOUS
  <2>4. i # 1 => i - 1 \in 1 .. n /\ i - 1 \in Nat /\ ~(i <= i - 1)
    BY <1>1, <2>3
  <2>5. i # 1 => F[i - 1] = f[i - 1]
    BY <2>2, <2>4
  <2>6. F[i] = Body(F, i) /\ f[i] = Body(f, i)
    <3> HIDE DEF Body
    <3> QED BY <1>2, <1>6, <2>3
  <2> QED BY ONLY <2>3, <2>5, <2>6
<1>8. n \in 1 .. n
  BY <1>1
<1>9. FlattenSeq(q) = f[n]
  BY <1>5, <1>7, <1>8
<1> QED BY <1>2, <1>9

\* One more text comes at the end.
LEMMA FlattenGrows ==
  ASSUME NEW B, NEW q \in Seq(Seq(B)), NEW x \in Seq(B)
  PROVE  /\ FlattenSeq(q) \in Seq(B)
         /\ FlattenSeq(Append(q, x)) = FlattenSeq(q) \o x
<1> DEFINE r == Append(q, x)
<1>1. PICK n \in Nat : n = Len(q)
  OBVIOUS
<1>2. /\ r \in Seq(Seq(B)) /\ Len(r) = n + 1 /\ Len(r) # 0
      /\ r[n + 1] = x /\ \A i \in 1 .. n : r[i] = q[i]
  BY <1>1
<1> HIDE DEF r
<1>3. PICK g \in [1 .. n + 1 -> Seq(B)] :
        /\ \A i \in 1 .. n + 1 : g[i] = IF i = 1 THEN r[i] ELSE g[i - 1] \o r[i]
        /\ FlattenSeq(r) = g[n + 1]
  <2>2. \E g \in [1 .. Len(r) -> Seq(B)] :
          /\ \A i \in 1 .. Len(r) : g[i] = IF i = 1 THEN r[i] ELSE g[i - 1] \o r[i]
          /\ FlattenSeq(r) = g[Len(r)]
    BY ONLY <1>2, FlattenIs
  <2>3. Len(r) = n + 1
    BY <1>2
  <2> QED BY ONLY <2>2, <2>3
<1>4. n + 1 \in 1 .. n + 1 /\ 1 \in 1 .. n + 1
  OBVIOUS
<1>5. CASE n = 0
  <2>1. q = <<>>
    BY <1>1, <1>5, EmptySeq
  <2>2. FlattenSeq(q) = <<>>
    BY <1>1, <1>5, <2>1 DEF FlattenSeq
  <2>3. g[n + 1] = x
    BY <1>2, <1>3, <1>4, <1>5
  <2>4. <<>> \o x = x /\ <<>> \in Seq(B)
    OBVIOUS
  <2> QED BY <1>3, <2>2, <2>3, <2>4 DEF r
<1>6. CASE n # 0
  <2>1. PICK f \in [1 .. n -> Seq(B)] :
          /\ \A i \in 1 .. n : f[i] = IF i = 1 THEN q[i] ELSE f[i - 1] \o q[i]
          /\ FlattenSeq(q) = f[n]
    BY <1>1, <1>6, FlattenIs
  <2>2. \A i \in 1 .. n : g[i] = f[i]
    <3> DEFINE T == {i \in Nat : i \in 1 .. n /\ g[i] # f[i]}
    <3> SUFFICES ASSUME NEW j \in 1 .. n, g[j] # f[j] PROVE FALSE
      OBVIOUS
    <3>1. T \in SUBSET Nat /\ T # {}
      <4>1. j \in T
        OBVIOUS
      <4> QED BY <4>1
    <3>2. PICK i \in T : \A k \in T : i <= k
      <4> HIDE DEF T
      <4> QED BY ONLY <3>1, NatMin
    <3>3. i \in 1 .. n /\ g[i] # f[i] /\ i \in 1 .. n + 1 /\ r[i] = q[i]
      BY <1>2
    <3>4. i # 1 => i - 1 \in 1 .. n /\ i - 1 \in Nat /\ ~(i <= i - 1)
      BY ONLY <3>3, n \in Nat
    <3>5. i # 1 => g[i - 1] = f[i - 1]
      BY <3>2, <3>4
    <3>6. g[i] = IF i = 1 THEN r[i] ELSE g[i - 1] \o r[i]
      BY <1>3, <3>3
    <3>7. f[i] = IF i = 1 THEN q[i] ELSE f[i - 1] \o q[i]
      BY <2>1, <3>3
    <3> QED BY ONLY <3>3, <3>5, <3>6, <3>7
  <2>3. n \in 1 .. n /\ n + 1 # 1 /\ (n + 1) - 1 = n
    BY <1>6
  <2>4. g[n + 1] = g[n] \o x
    BY <1>2, <1>3, <1>4, <2>3
  <2> QED BY <1>3, <2>1, <2>2, <2>3, <2>4 DEF r
<1> QED BY <1>5, <1>6

\* A text is a prefix of what it begins.
LEMMA PrefixOfWhole ==
  ASSUME NEW B, NEW s \in Seq(B), NEW t \in Seq(B)
  PROVE  IsPrefix(s, s \o t)
<1> DEFINE w == s \o t
<1>1. PICK n \in Nat, m \in Nat : n = Len(s) /\ m = Len(t)
  OBVIOUS
<1>2. w \in Seq(B) /\ Len(w) = n + m /\ \A i \in 1 .. n + m : w[i] = IF i <= n THEN s[i] ELSE t[i - n]
  BY <1>1, ConcatProperties
<1> HIDE DEF w
<1>3. n <= Len(w)
  BY <1>2
<1>4. SubSeq(w, 0 + 1, n) \in Seq(B) /\ Len(SubSeq(w, 0 + 1, n)) = n - 0
      /\ \A i \in 1 .. n - 0 : SubSeq(w, 0 + 1, n)[i] = w[0 + i]
  <2>1. 0 \in Nat /\ 0 <= n
    OBVIOUS
  <2> QED BY ONLY <1>2, <1>3, <2>1, n \in Nat, PieceIs
<1>5. SubSeq(w, 1, n) \in Seq(B) /\ Len(SubSeq(w, 1, n)) = n
      /\ \A i \in 1 .. n : SubSeq(w, 1, n)[i] = s[i]
  <2>1. 0 + 1 = 1 /\ n - 0 = n /\ \A i \in 1 .. n : 0 + i = i /\ w[i] = s[i]
    BY <1>2
  <2> QED BY <1>4, <2>1
<1>6. SubSeq(w, 1, n) = s
  BY <1>1, <1>5, SeqEqual
<1>7. SubSeq(s, 1, n) = s
  BY <1>1, SubSeqFull
<1> QED BY <1>1, <1>3, <1>6, <1>7 DEF IsPrefix, w

-----------------------------------------------------------------------------
(* The log of a client grows by its events.                                *)

\* What the store keeps.
Event == [client : Clients, text : Seq(Bytes), notice : BOOLEAN]

\* The texts of one client, with nothing for the events of the others.
Texts(events, c) ==
  [i \in DOMAIN events |-> IF events[i].client = c THEN events[i].text ELSE <<>>]

\* The texts of the events that are of one client.
LEMMA TextsAre ==
  ASSUME NEW events \in Seq(Event), NEW c
  PROVE  Texts(events, c) \in Seq(Seq(Bytes)) /\ Len(Texts(events, c)) = Len(events)
<1>1. PICK n \in Nat : n = Len(events) /\ DOMAIN events = 1 .. n
  OBVIOUS
<1> DEFINE q == Texts(events, c)
<1>2. \A i \in 1 .. n : (IF events[i].client = c THEN events[i].text ELSE <<>>) \in Seq(Bytes)
  <2> SUFFICES ASSUME NEW i \in 1 .. n
               PROVE  (IF events[i].client = c THEN events[i].text ELSE <<>>) \in Seq(Bytes)
    OBVIOUS
  <2>1. events[i] \in Event
    BY <1>1, ElementOfSeq
  <2>2. events[i].text \in Seq(Bytes) /\ <<>> \in Seq(Bytes)
    BY <2>1 DEF Event
  <2> QED BY <2>2
<1>3. q \in [1 .. n -> Seq(Bytes)]
  BY <1>1, <1>2 DEF Texts
<1> HIDE DEF q
<1>4. q \in Seq(Seq(Bytes)) /\ Len(q) = n
  BY <1>3, SeqDef
<1> QED BY <1>1, <1>4 DEF q

\* An event adds its text.
LEMMA TextsGrow ==
  ASSUME NEW events \in Seq(Event), NEW e \in Event, NEW c, NEW x \in Seq(Bytes),
         x = IF e.client = c THEN e.text ELSE <<>>
  PROVE  Texts(Append(events, e), c) = Append(Texts(events, c), x)
<1>1. PICK n \in Nat : n = Len(events) /\ DOMAIN events = 1 .. n
  OBVIOUS
<1> DEFINE all == Append(events, e)
           q == Texts(events, c)
           r == Texts(all, c)
<1>2. /\ all \in Seq(Event) /\ Len(all) = n + 1 /\ DOMAIN all = 1 .. n + 1
      /\ all[n + 1] = e /\ \A i \in 1 .. n : all[i] = events[i]
  BY <1>1
<1> HIDE DEF all
<1>3. /\ q \in Seq(Seq(Bytes)) /\ Len(q) = n
      /\ r \in Seq(Seq(Bytes)) /\ Len(r) = n + 1
  BY <1>1, <1>2, TextsAre
<1>4. \A i \in 1 .. n : q[i] = IF events[i].client = c THEN events[i].text ELSE <<>>
  BY <1>1 DEF Texts
<1>5. \A i \in 1 .. n + 1 : r[i] = IF all[i].client = c THEN all[i].text ELSE <<>>
  BY <1>2 DEF Texts
<1> HIDE DEF q, r
<1>6. n + 1 \in 1 .. n + 1 /\ \A i \in 1 .. n + 1 : i = n + 1 \/ i \in 1 .. n
  OBVIOUS
<1>7. \A i \in 1 .. n : i \in 1 .. n + 1 /\ r[i] = q[i]
  BY <1>2, <1>4, <1>5
<1>8. r[n + 1] = x
  BY <1>2, <1>5, <1>6
<1>9. PICK a : a = Append(q, x)
  OBVIOUS
<1>10. a \in Seq(Seq(Bytes)) /\ Len(a) = n + 1 /\ a[n + 1] = x /\ \A i \in 1 .. n : a[i] = q[i]
  BY <1>3, <1>9
<1>11. \A i \in 1 .. n + 1 : r[i] = a[i]
  BY <1>6, <1>7, <1>8, <1>10
<1>12. r = a
  BY ONLY <1>3, <1>10, <1>11, SeqEqual
<1> QED BY <1>9, <1>12 DEF q, r, all

\* The log of a client is a text.
LEMMA LogTypes ==
  ASSUME stored \in Seq(Event), NEW c
  PROVE  Log(c) \in Seq(Bytes)
<1>1. Log(c) = FlattenSeq(Texts(stored, c))
  BY DEF Log, Texts
<1>2. Texts(stored, c) \in Seq(Seq(Bytes)) /\ <<>> \in Seq(Bytes)
  BY TextsAre
<1>3. FlattenSeq(Texts(stored, c)) \in Seq(Bytes)
  BY ONLY <1>2, FlattenGrows
<1> QED BY <1>1, <1>3

\* The log of a client grows by the event that is appended for it.
LEMMA LogGrows ==
  ASSUME stored \in Seq(Event), NEW e \in Event, stored' = Append(stored, e), NEW c \in Clients
  PROVE  /\ e.client = c => Log(c)' = Log(c) \o e.text
         /\ e.client # c => Log(c)' = Log(c)
<1>1. Log(c) = FlattenSeq(Texts(stored, c)) /\ Log(c)' = FlattenSeq(Texts(stored', c))
  BY DEF Log, Texts
<1>2. PICK x \in Seq(Bytes) : x = IF e.client = c THEN e.text ELSE <<>>
  <2>1. e.text \in Seq(Bytes) /\ <<>> \in Seq(Bytes)
    BY DEF Event
  <2> QED BY <2>1
<1>3. Texts(stored', c) = Append(Texts(stored, c), x)
  <2>1. PICK events : events = stored
    OBVIOUS
  <2>2. Texts(Append(events, e), c) = Append(Texts(events, c), x)
    BY ONLY <1>2, <2>1, stored \in Seq(Event), TextsGrow
  <2> QED BY <2>1, <2>2
<1>4. Texts(stored, c) \in Seq(Seq(Bytes))
  BY TextsAre
<1>5. FlattenSeq(Append(Texts(stored, c), x)) = FlattenSeq(Texts(stored, c)) \o x
  BY ONLY <1>2, <1>4, FlattenGrows
<1>6. Log(c)' = Log(c) \o x
  BY <1>1, <1>3, <1>5
<1>7. Log(c) \in Seq(Bytes)
  BY LogTypes
<1>8. Log(c) \o <<>> = Log(c)
  BY <1>7, ConcatEmptySeq
<1> QED BY <1>2, <1>6, <1>8

-----------------------------------------------------------------------------
(* The writer.                                                             *)

\* The types of the writer.
WriterTypes ==
  /\ lock \in Clients \cup {None}
  /\ phase \in [Clients -> Phase]
  /\ data \in [Clients -> Seq(Bytes)] /\ event \in [Clients -> Seq(Bytes)]
  /\ pending \in [Clients -> Seq(Bytes)] /\ fed \in [Clients -> Seq(Bytes)]
  /\ written \in 0 .. MaxTotal
  /\ reported \in BOOLEAN
  /\ stored \in Seq(Event)

\* One client appends at a time, and only while it holds the lock.
LockInv ==
  \A c \in Clients :
    /\ phase[c] \in {"appending", "marking"} <=> lock = c
    /\ phase[c] \in {"idle", "closing", "marking"} => data[c] = <<>>
    /\ phase[c] # "appending" => event[c] = <<>>

\* The notice comes when the limit is reached and nothing is being appended.
LimitInv ==
  /\ reported => written = MaxTotal /\ \A c \in Clients : phase[c] # "appending"
  /\ \A c \in Clients : phase[c] = "marking" => reported
  /\ \A i \in DOMAIN stored : stored[i].notice =>
       /\ i = Len(stored) /\ reported
       /\ \A c \in Clients : phase[c] # "marking"

\* A text that is redacted.
Clean(text) == \A s \in Maskable : ~Shows(text, s)

\* Neither the store nor an awaited append has a text that shows a secret.
CleanInv ==
  /\ \A i \in DOMAIN stored : Clean(stored[i].text)
  /\ \A c \in Clients : /\ Clean(event[c])
                        /\ phase[c] = "appending" => Clean(data[c])

WriterInv == WriterTypes /\ LockInv /\ LimitInv /\ CleanInv

\* The empty text shows no secret.
LEMMA NothingIsClean == Clean(<<>>)
<1>1. DOMAIN <<>> = {}
  OBVIOUS
<1> QED BY <1>1 DEF Clean, Shows

\* What was redacted shows no secret.
LEMMA RedactionIsClean ==
  ASSUME NEW v \in Seq(Bytes), NEW limit \in 0 .. Len(v)
  PROVE  Clean(RedactPrefix(v, limit).text) /\ Clean(Redact(v))
<1>1. Clean(RedactPrefix(v, limit).text)
  BY RedactedShows DEF Clean
<1>2. Len(v) \in 0 .. Len(v)
  OBVIOUS
<1>3. Clean(RedactPrefix(v, Len(v)).text)
  BY <1>2, RedactedShows DEF Clean
<1> QED BY <1>1, <1>3 DEF Redact

\* feed() gives a redacted text.
LEMMA FeedIsClean ==
  ASSUME NEW kept \in Seq(Bytes), NEW chunk \in Seq(Bytes)
  PROVE  Clean(Feed(kept, chunk).text)
<1>1. PICK v \in Seq(Bytes) : v = kept \o chunk
  BY ConcatProperties
<1>2. Len(v) \in Nat /\ Retained \in Nat
  BY Retains
<1>3. Max({0, Len(v) - Retained}) = IF Len(v) - Retained > 0 THEN Len(v) - Retained ELSE 0
  <2>1. Len(v) - Retained \in Int
    BY <1>2
  <2> QED BY <2>1, MaxOfTwo
<1>4. Max({0, Len(v) - Retained}) \in 0 .. Len(v)
  BY <1>2, <1>3
<1>5. Feed(kept, chunk).text = RedactPrefix(v, Max({0, Len(v) - Retained})).text
  BY <1>1 DEF Feed
<1> QED BY <1>4, <1>5, RedactionIsClean

\* What is taken of a text fits in all three bounds.
LEMMA MinOfThree ==
  \A a, b, c \in Nat :
    /\ Min({a, b, c}) \in Nat
    /\ Min({a, b, c}) <= a /\ Min({a, b, c}) <= b /\ Min({a, b, c}) <= c
<1> SUFFICES ASSUME NEW a \in Nat, NEW b \in Nat, NEW c \in Nat
             PROVE  /\ Min({a, b, c}) \in Nat
                    /\ Min({a, b, c}) <= a /\ Min({a, b, c}) <= b /\ Min({a, b, c}) <= c
  OBVIOUS
<1> DEFINE m == IF a < b THEN IF a < c THEN a ELSE c ELSE IF b < c THEN b ELSE c
<1>1. m \in {a, b, c} /\ \A y \in {a, b, c} : m =< y
  OBVIOUS
<1>2. m \in Nat /\ m <= a /\ m <= b /\ m <= c
  OBVIOUS
<1>3. \A x \in {a, b, c} : (\A y \in {a, b, c} : x =< y) => x = m
  OBVIOUS
<1>4. Min({a, b, c}) = m
  BY <1>1, <1>3 DEF Min
<1> QED BY <1>2, <1>4

\* A text that is cut in two.
LEMMA CutInTwo ==
  ASSUME NEW t \in Seq(Bytes), NEW n \in Nat, n <= Len(t)
  PROVE  /\ SubSeq(t, 1, n) \in Seq(Bytes) /\ SubSeq(t, n + 1, Len(t)) \in Seq(Bytes)
         /\ SubSeq(t, 1, n) \o SubSeq(t, n + 1, Len(t)) = t
         /\ Clean(t) => Clean(SubSeq(t, 1, n)) /\ Clean(SubSeq(t, n + 1, Len(t)))
<1>1. PICK m \in Nat : m = Len(t) /\ n <= m
  OBVIOUS
<1>2. SubSeq(t, n + 1, m) \in Seq(Bytes) /\ SubSeq(t, 0 + 1, n) \in Seq(Bytes)
  <2>1. 0 \in Nat /\ 0 <= n /\ n <= Len(t) /\ m <= Len(t)
    BY <1>1
  <2> QED BY <1>1, <2>1, PieceIs
<1>3. SubSeq(t, 1, n) \o SubSeq(t, n + 1, m) = SubSeq(t, 1, m)
  <2>1. 1 \in 1 .. Len(t) + 1 /\ n \in 1 - 1 .. Len(t) /\ m \in n .. Len(t)
    BY <1>1
  <2> QED BY <2>1, ConcatAdjacentSubSeq
<1>4. SubSeq(t, 1, m) = t
  BY <1>1, SubSeqFull
<1>5. ASSUME Clean(t) PROVE Clean(SubSeq(t, 0 + 1, n)) /\ Clean(SubSeq(t, n + 1, m))
  <2> SUFFICES ASSUME NEW s \in Maskable
               PROVE  ~Shows(SubSeq(t, 0 + 1, n), s) /\ ~Shows(SubSeq(t, n + 1, m), s)
    BY DEF Clean
  <2>1. ~Shows(t, s) /\ s \in Secrets
    BY <1>5, MaskableAre DEF Clean
  <2>2. 0 \in Nat /\ 0 <= n /\ m <= Len(t)
    BY <1>1
  <2> QED BY <1>1, <2>1, <2>2, PieceShows
<1>6. 0 + 1 = 1
  OBVIOUS
<1> QED BY <1>1, <1>2, <1>3, <1>4, <1>5, <1>6

\* What the writer does with a text up to its next await: the client's phase,
\* what it still has to append, and the event it awaits.
Goes(c, text, p, d, e) ==
  /\ lock' = IF p = "idle" THEN None ELSE c
  /\ phase' = [phase EXCEPT ![c] = p]
  /\ data' = [data EXCEPT ![c] = d]
  /\ event' = [event EXCEPT ![c] = e]
  /\ written' \in 0 .. MaxTotal
  /\ p = "idle" => /\ d = <<>> /\ e = <<>>
                   /\ written' = written /\ reported' = reported
                   /\ text = <<>> \/ (reported /\ written >= MaxTotal)
  /\ p = "appending" => /\ text # <<>> /\ e \o d = text
                        /\ Clean(text) => Clean(e) /\ Clean(d)
                        /\ written < MaxTotal /\ reported' = reported
  /\ p = "marking" => /\ text # <<>> /\ d = <<>> /\ e = <<>>
                      /\ written >= MaxTotal /\ written' = written
                      /\ ~reported /\ reported' = TRUE

LEMMA ProceedIs ==
  ASSUME WriterTypes, NEW c \in Clients, NEW text \in Seq(Bytes), Proceed(c, text)
  PROVE  \E p \in {"idle", "appending", "marking"} : \E d, e \in Seq(Bytes) : Goes(c, text, p, d, e)
<1> USE DEF Goes
<1>1. <<>> \in Seq(Bytes) /\ written \in 0 .. MaxTotal
  BY DEF WriterTypes
<1>2. ASSUME Leave(c), text = <<>> \/ (reported /\ written >= MaxTotal)
      PROVE  /\ lock' = None /\ phase' = [phase EXCEPT ![c] = "idle"]
             /\ data' = [data EXCEPT ![c] = <<>>] /\ event' = [event EXCEPT ![c] = <<>>]
             /\ written' = written /\ reported' = reported
  BY <1>2 DEF Leave
<1>3. CASE Leave(c) /\ (text = <<>> \/ (reported /\ written >= MaxTotal))
  BY <1>1, <1>2, <1>3
<1>4. CASE text # <<>> /\ written < MaxTotal /\ Accept(c, text)
  <2> DEFINE n == Min({Len(text), MaxEvent, MaxTotal - written})
  <2>1. n \in Nat /\ n <= Len(text) /\ n <= MaxTotal - written
    <3>1. Len(text) \in Nat /\ MaxEvent \in Nat /\ MaxTotal - written \in Nat
      BY <1>1, <1>4, WriterAssumption
    <3> QED BY ONLY <3>1, MinOfThree
  <2>2. /\ lock' = c /\ phase' = [phase EXCEPT ![c] = "appending"]
        /\ event' = [event EXCEPT ![c] = SubSeq(text, 1, n)]
        /\ data' = [data EXCEPT ![c] = SubSeq(text, n + 1, Len(text))]
        /\ written' = written + n /\ reported' = reported
    BY <1>4 DEF Accept
  <2> HIDE DEF n
  <2>3. PICK d, e \in Seq(Bytes) :
          /\ e = SubSeq(text, 1, n) /\ d = SubSeq(text, n + 1, Len(text))
          /\ e \o d = text /\ (Clean(text) => Clean(e) /\ Clean(d))
    BY <2>1, CutInTwo
  <2>4. written' \in 0 .. MaxTotal
    BY <1>1, <2>1, <2>2, WriterAssumption
  <2> QED BY <1>4, <2>2, <2>3, <2>4
<1>5. CASE text # <<>> /\ written >= MaxTotal /\ ~reported /\ Announce(c)
  <2>1. /\ lock' = c /\ phase' = [phase EXCEPT ![c] = "marking"]
        /\ data' = [data EXCEPT ![c] = <<>>] /\ event' = [event EXCEPT ![c] = <<>>]
        /\ written' = written /\ reported' = TRUE
    BY <1>5 DEF Announce
  <2> QED BY <1>1, <1>5, <2>1
<1> QED BY <1>3, <1>4, <1>5 DEF Proceed

\* What the store gets from the holder of the lock.
Stored(c) == IF phase[c] = "marking" THEN Notice(c) ELSE Text(c, event[c])

\* The event of the holder of the lock.
LEMMA StoredIs ==
  ASSUME WriterTypes, LockInv, CleanInv, NEW c \in Clients
  PROVE  /\ Stored(c) \in Event /\ Stored(c).client = c /\ Stored(c).text = event[c]
         /\ Stored(c).notice <=> phase[c] = "marking"
         /\ Storing(c) = Append(stored, Stored(c))
         /\ Clean(Stored(c).text)
<1>1. event[c] \in Seq(Bytes) /\ <<>> \in Seq(Bytes)
  BY DEF WriterTypes
<1>2. phase[c] = "marking" => event[c] = <<>>
  BY DEF LockInv
<1>3. /\ Stored(c) \in Event /\ Stored(c).client = c /\ Stored(c).text = event[c]
      /\ Stored(c).notice <=> phase[c] = "marking"
  BY <1>1, <1>2 DEF Stored, Notice, Text, Event
<1>4. Storing(c) = Append(stored, Stored(c))
  BY DEF Storing, Stored
<1> QED BY <1>3, <1>4 DEF CleanInv

\* The writer goes on with a text, for a client that gets the lock or holds it.
LEMMA ProceedKeepsWriter ==
  ASSUME WriterInv, NEW c \in Clients, NEW text \in Seq(Bytes), Clean(text), Proceed(c, text),
         lock \in {None, c}, phase[c] = "marking" => text = <<>>,
         stored' = stored \/ (lock = c /\ stored' = Storing(c)),
         pending' \in [Clients -> Seq(Bytes)], fed' = fed
  PROVE  WriterInv'
<1> USE DEF WriterInv
<1>1. PICK p \in {"idle", "appending", "marking"}, d \in Seq(Bytes), e \in Seq(Bytes) :
            Goes(c, text, p, d, e)
  BY ProceedIs
<1> USE DEF Goes
<1>2. /\ Stored(c) \in Event /\ (Stored(c).notice <=> phase[c] = "marking")
      /\ Storing(c) = Append(stored, Stored(c)) /\ Clean(Stored(c).text)
  BY StoredIs
<1>3. stored' = stored \/ (lock = c /\ stored' = Append(stored, Stored(c)))
  BY <1>2
<1>4. /\ DOMAIN phase = Clients /\ DOMAIN data = Clients /\ DOMAIN event = Clients
      /\ stored \in Seq(Event) /\ written \in 0 .. MaxTotal /\ MaxTotal \in Nat \ {0}
      /\ None \notin Clients
  BY WriterAssumption DEF WriterTypes
<1>5. /\ phase'[c] = p /\ data'[c] = d /\ event'[c] = e
      /\ \A b \in Clients : b # c =>
           phase'[b] = phase[b] /\ data'[b] = data[b] /\ event'[b] = event[b]
  BY <1>1, <1>4
<1>6. \A b \in Clients : b # c => phase[b] # "appending" /\ phase[b] # "marking"
  BY <1>4 DEF LockInv
<1>7. /\ p = "appending" => written < MaxTotal /\ ~reported /\ ~reported'
      /\ p = "marking" => ~reported /\ written' = MaxTotal
      /\ reported => p = "idle" /\ reported' = reported
      /\ p = "idle" => reported' = reported /\ written' = written
  <2>1. /\ p = "appending" => written < MaxTotal /\ reported' = reported
        /\ p = "marking" => ~reported /\ written' = written /\ written >= MaxTotal
        /\ p = "idle" => reported' = reported /\ written' = written
    BY <1>1
  <2>2. /\ reported => written = MaxTotal
        /\ written \in Int /\ MaxTotal \in Int /\ written <= MaxTotal
    BY <1>4 DEF LimitInv
  <2>3. p = "idle" \/ p = "appending" \/ p = "marking"
    OBVIOUS
  <2> QED BY ONLY <2>1, <2>2, <2>3
<1>8. WriterTypes'
  <2>1. lock' \in Clients \cup {None} /\ reported' \in BOOLEAN
    BY <1>1 DEF WriterTypes
  <2>2. phase' \in [Clients -> Phase]
    BY <1>1 DEF WriterTypes, Phase
  <2>3. data' \in [Clients -> Seq(Bytes)] /\ event' \in [Clients -> Seq(Bytes)]
    BY <1>1 DEF WriterTypes
  <2>4. stored' \in Seq(Event)
    <3>1. Append(stored, Stored(c)) \in Seq(Event)
      BY ONLY <1>2, <1>4
    <3> QED BY <1>3, <1>4, <3>1
  <2> QED BY <1>1, <2>1, <2>2, <2>3, <2>4 DEF WriterTypes
<1>9. LockInv'
  <2> SUFFICES ASSUME NEW b \in Clients
               PROVE  /\ phase'[b] \in {"appending", "marking"} <=> lock' = b
                      /\ phase'[b] \in {"idle", "closing", "marking"} => data'[b] = <<>>
                      /\ phase'[b] # "appending" => event'[b] = <<>>
    BY DEF LockInv
  <2>1. CASE b = c
    BY <1>1, <1>4, <1>5, <2>1
  <2>2. CASE b # c
    BY <1>1, <1>4, <1>5, <1>6, <2>2 DEF LockInv
  <2> QED BY <2>1, <2>2
<1>10. LimitInv'
  <2>1. reported' => written' = MaxTotal
    BY <1>7 DEF LimitInv
  <2>2. reported' => \A b \in Clients : phase'[b] # "appending"
    BY <1>5, <1>6, <1>7
  <2>3. \A b \in Clients : phase'[b] = "marking" => reported'
    BY <1>1, <1>5, <1>6
  <2>4. ASSUME NEW i \in DOMAIN stored', stored'[i].notice
        PROVE  i = Len(stored') /\ reported' /\ \A b \in Clients : phase'[b] # "marking"
    <3>1. CASE stored' = stored
      <4>1. i = Len(stored) /\ reported /\ phase[c] # "marking"
        BY <2>4, <3>1 DEF LimitInv
      <4>2. p = "idle" /\ reported'
        BY <1>7, <4>1
      <4> QED BY <1>5, <1>6, <3>1, <4>1, <4>2
    <3>2. CASE lock = c /\ stored' = Append(stored, Stored(c))
      <4>1. PICK n \in Nat : n = Len(stored) /\ DOMAIN stored = 1 .. n
        BY <1>4
      <4>2. /\ Len(stored') = n + 1 /\ i \in 1 .. n + 1 /\ stored'[n + 1] = Stored(c)
            /\ \A j \in 1 .. n : stored'[j] = stored[j]
        BY <1>2, <1>4, <3>2, <4>1
      <4>3. i = n + 1 \/ i \in DOMAIN stored
        BY <4>1, <4>2
      <4>4. phase[c] \in {"appending", "marking"}
        BY <3>2 DEF LockInv
      <4>5. i \notin DOMAIN stored
        <5>1. SUFFICES ASSUME i \in DOMAIN stored PROVE FALSE
          OBVIOUS
        <5>2. stored[i].notice
          BY <2>4, <4>1, <4>2, <5>1
        <5>3. reported /\ phase[c] # "marking"
          BY <5>1, <5>2 DEF LimitInv
        <5>4. phase[c] # "appending"
          BY <5>3 DEF LimitInv
        <5> QED BY <4>4, <5>3, <5>4
      <4>6. i = n + 1 /\ Stored(c).notice
        BY <2>4, <4>2, <4>3, <4>5
      <4>7. phase[c] = "marking" /\ reported
        BY <1>2, <4>6 DEF LimitInv
      <4>8. p = "idle" /\ reported'
        BY <1>1, <4>7
      <4> QED BY <1>5, <1>6, <4>2, <4>6, <4>8
    <3> QED BY <1>3, <3>1, <3>2
  <2> QED BY <2>1, <2>2, <2>3, <2>4 DEF LimitInv
<1>11. CleanInv'
  <2>1. ASSUME NEW i \in DOMAIN stored' PROVE Clean(stored'[i].text)
    <3>1. CASE stored' = stored
      BY <3>1 DEF CleanInv
    <3>2. CASE stored' = Append(stored, Stored(c))
      <4>1. PICK n \in Nat : n = Len(stored) /\ DOMAIN stored = 1 .. n
        BY <1>4
      <4>2. /\ i \in 1 .. n + 1 /\ stored'[n + 1] = Stored(c)
            /\ \A j \in 1 .. n : stored'[j] = stored[j]
        BY <1>2, <1>4, <3>2, <4>1
      <4>3. i = n + 1 \/ i \in 1 .. n
        BY <4>2
      <4> QED BY <1>2, <4>1, <4>2, <4>3 DEF CleanInv
    <3> QED BY <1>3, <3>1, <3>2
  <2>2. ASSUME NEW b \in Clients
        PROVE  Clean(event'[b]) /\ (phase'[b] = "appending" => Clean(data'[b]))
    <3>1. CASE b = c
      BY <1>1, <1>5, <3>1, NothingIsClean
    <3>2. CASE b # c
      BY <1>5, <3>2 DEF CleanInv
    <3> QED BY <3>1, <3>2
  <2>3. /\ \A i \in DOMAIN stored' : Clean(stored'[i].text)
        /\ \A b \in Clients : Clean(event'[b]) /\ (phase'[b] = "appending" => Clean(data'[b]))
    BY <2>1, <2>2
  <2> QED BY <2>3 DEF CleanInv, Clean
<1> QED BY <1>8, <1>9, <1>10, <1>11

-----------------------------------------------------------------------------
(* What was said for a client: its log, and what is on its way to it.      *)

\* What an append is awaited for, and what comes after it.
Flight(c) == IF phase[c] = "appending" THEN event[c] \o data[c] ELSE <<>>

\* What was said for a client.
Said(c) == Log(c) \o Flight(c)

\* A chunk that waits for the lock.
Waiting(c) == IF phase[c] = "waiting" THEN data[c] ELSE <<>>

\* What is said for a client is a text.
LEMMA SaidTypes ==
  ASSUME WriterInv, NEW c \in Clients
  PROVE  /\ Log(c) \in Seq(Bytes) /\ Flight(c) \in Seq(Bytes)
         /\ Said(c) \in Seq(Bytes) /\ Waiting(c) \in Seq(Bytes)
<1>1. Log(c) \in Seq(Bytes)
  BY LogTypes DEF WriterInv, WriterTypes
<1>2. /\ event[c] \in Seq(Bytes) /\ data[c] \in Seq(Bytes) /\ <<>> \in Seq(Bytes)
  BY DEF WriterInv, WriterTypes
<1>3. event[c] \o data[c] \in Seq(Bytes)
  BY <1>2, ConcatProperties
<1>4. Flight(c) \in Seq(Bytes) /\ Waiting(c) \in Seq(Bytes)
  BY <1>2, <1>3 DEF Flight, Waiting
<1>5. Log(c) \o Flight(c) \in Seq(Bytes)
  BY <1>1, <1>4, ConcatProperties
<1> QED BY <1>1, <1>4, <1>5 DEF Said

\* What another client stores is not said for this one.
LEMMA OthersSaid ==
  ASSUME WriterInv, NEW c \in Clients, NEW b \in Clients, b # c,
         stored' = stored \/ stored' = Storing(b)
  PROVE  Log(c)' = Log(c)
<1>1. CASE stored' = stored
  BY <1>1 DEF Log
<1>2. CASE stored' = Storing(b)
  <2>1. PICK e \in Event : e.client = b /\ stored' = Append(stored, e)
    BY <1>2, StoredIs DEF WriterInv
  <2>2. stored \in Seq(Event)
    BY DEF WriterInv, WriterTypes
  <2> QED BY <2>1, <2>2, LogGrows
<1> QED BY <1>1, <1>2

\* Texts are joined in any grouping.
LEMMA Joins ==
  \A a, b \in Seq(Bytes) :
    /\ a \o b \in Seq(Bytes) /\ a \o <<>> = a
    /\ \A c \in Seq(Bytes) : (a \o b) \o c = a \o (b \o c)
<1> SUFFICES ASSUME NEW a \in Seq(Bytes), NEW b \in Seq(Bytes), NEW c \in Seq(Bytes)
             PROVE  a \o b \in Seq(Bytes) /\ a \o <<>> = a /\ (a \o b) \o c = a \o (b \o c)
  OBVIOUS
<1>1. (a \o b) \o c = a \o (b \o c)
  BY ONLY ConcatAssociative
<1>2. a \o b \in Seq(Bytes) /\ a \o <<>> = a
  BY ONLY ConcatProperties, ConcatEmptySeq
<1> QED BY <1>1, <1>2

\* A client gets the lock with a text that is to be said.
LEMMA EnterSays ==
  ASSUME WriterInv, NEW c \in Clients, NEW text \in Seq(Bytes), Proceed(c, text),
         lock = None, stored' = stored,
         NEW gone \in Seq(Bytes), gone # <<>> => reported
  PROVE  /\ phase[c]' \in {"idle", "appending", "marking"}
         /\ \E left \in Seq(Bytes) :
              /\ left # <<>> => reported'
              /\ Said(c)' \o left = (Said(c) \o gone) \o text
<1>1. PICK p \in {"idle", "appending", "marking"}, d \in Seq(Bytes), e \in Seq(Bytes) :
            Goes(c, text, p, d, e)
  BY ProceedIs DEF WriterInv
<1> USE DEF Goes
<1>2. phase'[c] = p /\ data'[c] = d /\ event'[c] = e
  BY <1>1 DEF WriterInv, WriterTypes
<1>3. /\ p = "idle" => reported' = reported /\ (text = <<>> \/ reported)
      /\ p = "appending" => e \o d = text /\ written < MaxTotal
      /\ p = "marking" => ~reported /\ reported' = TRUE
  BY <1>1
<1>4. p = "appending" => ~reported
  <2>1. /\ reported => written = MaxTotal
        /\ written \in Int /\ MaxTotal \in Int
    BY WriterAssumption DEF WriterInv, WriterTypes, LimitInv
  <2> QED BY <1>3, <2>1
<1>5. Log(c)' = Log(c)
  BY DEF Log
<1>6. phase[c] # "appending"
  BY WriterAssumption DEF WriterInv, LockInv
<1>7. PICK l, t \in Seq(Bytes) : l = Log(c) /\ t = text
  BY SaidTypes
<1>8. l \o <<>> = l /\ t \o <<>> = t
  BY ConcatEmptySeq
<1>9. Said(c) = l
  BY <1>6, <1>7, <1>8 DEF Said, Flight
<1>10. Said(c)' = l \o (IF p = "appending" THEN t ELSE <<>>)
  BY <1>2, <1>3, <1>5, <1>7 DEF Said, Flight
<1>11. <<>> \in Seq(Bytes)
  OBVIOUS
<1>12. CASE p = "idle"
  <2>1. PICK left \in Seq(Bytes) : left = gone \o t
    BY ConcatProperties
  <2>2. left # <<>> => reported'
    <3>1. gone = <<>> /\ t = <<>> => left = <<>>
      BY <1>11, <2>1, ConcatEmptySeq
    <3> QED BY <1>3, <1>7, <1>12, <3>1
  <2>3. (l \o gone) \o t = l \o left
    BY ONLY <2>1, Joins
  <2> QED BY <1>2, <1>7, <1>8, <1>9, <1>10, <1>12, <2>2, <2>3
<1>13. CASE p = "appending"
  <2>1. gone = <<>>
    BY <1>4, <1>13
  <2>2. (l \o t) \o <<>> = l \o t
    BY ConcatProperties, ConcatEmptySeq
  <2>3. Said(c)' \o <<>> = (Said(c) \o gone) \o t
    BY <1>8, <1>9, <1>10, <1>13, <2>1, <2>2
  <2> QED BY <1>2, <1>7, <1>11, <1>13, <2>3
<1>14. CASE p = "marking"
  <2>1. gone = <<>> /\ reported'
    BY <1>3, <1>14
  <2>2. Said(c)' \o t = (Said(c) \o gone) \o t
    BY <1>8, <1>9, <1>10, <1>14, <2>1
  <2> QED BY <1>2, <1>7, <1>14, <2>1, <2>2
<1> QED BY <1>12, <1>13, <1>14

\* The holder of the lock goes on when its append has returned.
LEMMA AppendedSays ==
  ASSUME WriterInv, NEW c \in Clients, Proceed(c, data[c]), lock = c, stored' = Storing(c),
         NEW gone \in Seq(Bytes), gone # <<>> => reported
  PROVE  /\ phase[c]' \in {"idle", "appending", "marking"}
         /\ \E left \in Seq(Bytes) :
              /\ left # <<>> => reported'
              /\ Said(c)' \o left = Said(c) \o gone
<1>1. PICK text \in Seq(Bytes) : text = data[c]
  BY DEF WriterInv, WriterTypes
<1>2. PICK p \in {"idle", "appending", "marking"}, d \in Seq(Bytes), e \in Seq(Bytes) :
            Goes(c, text, p, d, e)
  <2>1. Proceed(c, text) /\ WriterTypes
    BY <1>1 DEF WriterInv
  <2> QED BY ONLY <2>1, ProceedIs
<1> USE DEF Goes
<1>3. phase'[c] = p /\ data'[c] = d /\ event'[c] = e
  BY <1>2 DEF WriterInv, WriterTypes
<1>4. /\ p = "idle" => reported' = reported /\ (text = <<>> \/ reported)
      /\ p = "appending" => e \o d = text
      /\ p = "marking" => reported' = TRUE
      /\ text = <<>> => p = "idle"
  BY <1>2
<1>5. PICK l, f \in Seq(Bytes) : l = Log(c) /\ f = event[c]
  BY SaidTypes DEF WriterInv, WriterTypes
<1>6. Log(c)' = l \o f
  <2>1. PICK x \in Event : x.client = c /\ x.text = f /\ stored' = Append(stored, x)
    BY <1>5, StoredIs DEF WriterInv
  <2>2. stored \in Seq(Event)
    BY DEF WriterInv, WriterTypes
  <2> QED BY <1>5, <2>1, <2>2, LogGrows
<1>7. /\ phase[c] = "appending" => ~reported
      /\ phase[c] = "marking" => reported /\ text = <<>> /\ f = <<>>
      /\ phase[c] = "appending" \/ phase[c] = "marking"
  BY <1>1, <1>5 DEF WriterInv, LockInv, LimitInv
<1>8. PICK k \in Seq(Bytes) : k = l \o f
  BY ConcatProperties
<1>9. l \o <<>> = l /\ k \o <<>> = k /\ text \o <<>> = text /\ <<>> \in Seq(Bytes)
  BY ConcatEmptySeq
<1>10. Said(c)' = k \o (IF p = "appending" THEN text ELSE <<>>)
  BY <1>3, <1>4, <1>6, <1>8 DEF Said, Flight
<1>11. CASE phase[c] = "appending"
  <2>1. gone = <<>> /\ ~reported
    BY <1>7, <1>11
  <2>2. PICK m \in Seq(Bytes) : m = f \o text
    BY ConcatProperties
  <2>3. Said(c) = l \o m
    BY <1>1, <1>5, <1>11, <2>2 DEF Said, Flight
  <2>4. l \o m = k \o text
    <3>1. (l \o f) \o text = l \o (f \o text)
      <4>1. \A x \in Seq(Bytes) : (l \o f) \o x = l \o (f \o x)
        BY ONLY Joins
      <4> QED BY ONLY <4>1
    <3> QED BY <1>8, <2>2, <3>1
  <2>5. PICK w \in Seq(Bytes) : w = k \o text /\ w \o <<>> = w
    BY ONLY Joins
  <2>6. Said(c) \o gone = w
    BY <2>1, <2>3, <2>4, <2>5
  <2>7. CASE p = "appending"
    <3>1. Said(c)' \o <<>> = w
      BY <1>10, <2>5, <2>7
    <3> QED BY <1>3, <1>9, <2>6, <2>7, <3>1
  <2>8. CASE p = "marking"
    <3>1. Said(c)' \o text = w /\ reported'
      BY <1>4, <1>9, <1>10, <2>5, <2>8
    <3> QED BY <1>3, <2>6, <2>8, <3>1
  <2>9. CASE p = "idle"
    <3>1. text = <<>>
      BY <1>4, <2>1, <2>9
    <3>2. Said(c)' \o <<>> = w
      BY <1>9, <1>10, <2>5, <2>9, <3>1
    <3> QED BY <1>3, <1>9, <2>6, <2>9, <3>2
  <2> QED BY <2>7, <2>8, <2>9
<1>12. CASE phase[c] = "marking"
  <2>1. p = "idle" /\ reported' = reported /\ reported
    BY <1>4, <1>7, <1>12
  <2>2. k = l
    BY <1>7, <1>8, <1>9, <1>12
  <2>3. Said(c) = l
    BY <1>5, <1>9, <1>12 DEF Said, Flight
  <2>4. Said(c)' = l
    BY <1>9, <1>10, <2>1, <2>2
  <2>5. Said(c)' \o gone = Said(c) \o gone
    BY ONLY <2>3, <2>4
  <2> QED BY <1>3, <2>1, <2>5
<1> QED BY <1>7, <1>11, <1>12

-----------------------------------------------------------------------------
(* What was said is what was written, redacted.  What the limit leaves out *)
(* comes at the end, and only when it was reported.                        *)

\* Everything a client has written was redacted.
Closed(c) ==
  \E gone \in Seq(Bytes) :
    /\ gone # <<>> => reported
    /\ Redact(fed[c]) = Said(c) \o gone

\* Whatever a stream still writes, its redaction goes on from what was said.
Open(d) ==
  \E gone, eaten \in Seq(Bytes) :
    /\ gone # <<>> => reported
    /\ fed[d] = eaten \o Waiting(d)
    /\ \A more \in Seq(Bytes) :
         Redact(eaten \o more) = (Said(d) \o gone) \o Redact(pending[d] \o more)

\* The handler has written nothing but the line it is about to redact.
First(c) == Log(c) = <<>> /\ fed[c] = data[c]

\* What is kept depends on how far the client is.
Kept(c) ==
  \/ /\ c = Handler /\ phase[c] = "waiting" /\ First(c)
  \/ /\ c = Handler /\ phase[c] # "waiting" /\ Closed(c)
  \/ /\ c \in Streams /\ reader[c] = "flushing" /\ phase[c] # "closing" /\ Closed(c)
  \/ /\ c \in Streams /\ ~(reader[c] = "flushing" /\ phase[c] # "closing") /\ Open(c)

\* A client whose appends have not failed.
KeptInv == \A c \in Clients : ~failed[c] => Kept(c)

\* Where the clients are.
PathInv ==
  /\ failed \in [Clients -> BOOLEAN]
  /\ phase[Handler] # "closing"
  /\ \A d \in Streams :
       /\ reader[d] = "flushing" => phase[d] # "waiting"
       /\ phase[d] = "closing" => reader[d] = "flushing"
       /\ ~failed[d] => fed[d] = Output(d)
  /\ at = "stage" => /\ stored = <<>> /\ fed[Handler] = <<>>
                     /\ \A c \in Clients : phase[c] = "idle"
  /\ at = "returned" => \A d \in Streams : phase[d] = "idle"

\* The invariant of the log.
LogInv == WriterInv /\ KeptInv /\ PathInv

\* A client that is left alone.
LEMMA KeptElse ==
  ASSUME NEW b \in Clients, Kept(b), Log(b)' = Log(b),
         phase'[b] = phase[b], data'[b] = data[b], event'[b] = event[b],
         pending'[b] = pending[b], fed'[b] = fed[b],
         reported => reported',
         b \in Streams => (reader'[b] = "flushing" <=> reader[b] = "flushing")
  PROVE  Kept(b)'
<1>1. Said(b)' = Said(b) /\ Waiting(b)' = Waiting(b)
  BY DEF Said, Flight, Waiting
<1>2. Closed(b) => Closed(b)'
  BY <1>1 DEF Closed
<1>3. Open(b) => Open(b)'
  BY <1>1 DEF Open
<1>4. First(b) => First(b)'
  BY DEF First
<1> QED BY <1>2, <1>3, <1>4 DEF Kept

\* The writer is left alone.
LEMMA FrameStep ==
  ASSUME LogInv, UNCHANGED <<writerVars, failed, script, taken>>,
         \A d \in Streams : reader'[d] = "flushing" <=> reader[d] = "flushing",
         at' = "stage" => at = "stage",
         at' = "returned" => \A d \in Streams : phase[d] = "idle"
  PROVE  LogInv'
<1> USE DEF LogInv, writerVars
<1>1. WriterInv'
  BY DEF WriterInv, WriterTypes, LockInv, LimitInv, CleanInv, Clean
<1>2. KeptInv'
  <2> SUFFICES ASSUME NEW b \in Clients, ~failed'[b] PROVE Kept(b)'
    BY DEF KeptInv
  <2>1. Kept(b)
    BY DEF KeptInv
  <2>2. Log(b)' = Log(b)
    BY DEF Log
  <2> QED BY <2>1, <2>2, KeptElse
<1>3. PathInv'
  BY DEF PathInv, Output
<1> QED BY <1>1, <1>2, <1>3

\* The writer's callers go up to its lock.
LEMMA CallKeepsWriter ==
  ASSUME WriterInv, NEW c \in Clients, NEW chunk \in Seq(Bytes), Write(c, chunk) \/ Flush(c)
  PROVE  WriterInv'
<1> USE DEF WriterInv
<1>1. /\ phase[c] = "idle"
      /\ UNCHANGED <<lock, event, pending, written, reported, stored>>
  BY DEF Write, Flush
<1>2. PICK p \in {"waiting", "closing"} :
        /\ phase' = [phase EXCEPT ![c] = p]
        /\ \/ p = "waiting" /\ data' = [data EXCEPT ![c] = chunk]
                            /\ fed' = [fed EXCEPT ![c] = fed[c] \o chunk]
           \/ p = "closing" /\ data' = data /\ fed' = fed
  BY DEF Write, Flush
<1>3. /\ phase'[c] = p /\ (p = "closing" => data'[c] = data[c])
      /\ \A b \in Clients : b # c => phase'[b] = phase[b] /\ data'[b] = data[b]
  BY <1>2 DEF WriterTypes
<1>4. WriterTypes'
  <2>1. fed[c] \o chunk \in Seq(Bytes)
    BY ConcatProperties DEF WriterTypes
  <2>2. fed' \in [Clients -> Seq(Bytes)] /\ data' \in [Clients -> Seq(Bytes)]
    BY <1>2, <2>1 DEF WriterTypes
  <2>3. phase' \in [Clients -> Phase]
    BY <1>2 DEF WriterTypes, Phase
  <2> QED BY <1>1, <2>2, <2>3 DEF WriterTypes
<1>5. LockInv'
  BY <1>1, <1>3 DEF LockInv
<1>6. LimitInv'
  BY <1>1, <1>3 DEF LimitInv
<1>7. CleanInv'
  BY <1>1, <1>3 DEF CleanInv, Clean
<1> QED BY <1>4, <1>5, <1>6, <1>7

\* What an open stream has written so far.
LEMMA OpenSaid ==
  ASSUME WriterInv, NEW d \in Clients, Open(d)
  PROVE  \E gone \in Seq(Bytes) :
           /\ gone # <<>> => reported
           /\ Redact(fed[d]) = (Said(d) \o gone) \o Redact(pending[d] \o Waiting(d))
<1>1. PICK gone \in Seq(Bytes), eaten \in Seq(Bytes) :
        /\ gone # <<>> => reported
        /\ fed[d] = eaten \o Waiting(d)
        /\ \A more \in Seq(Bytes) :
             Redact(eaten \o more) = (Said(d) \o gone) \o Redact(pending[d] \o more)
  BY DEF Open
<1>2. Waiting(d) \in Seq(Bytes)
  BY SaidTypes
<1> QED BY <1>1, <1>2

\* Nothing was said before the first event.
LEMMA NothingLogged ==
  ASSUME NEW c \in Clients, stored = <<>>
  PROVE  Log(c) = <<>>
<1>1. Texts(stored, c) \in Seq(Seq(Bytes)) /\ Len(Texts(stored, c)) = Len(stored) /\ Len(stored) = 0
  <2>1. stored \in Seq(Event) /\ Len(stored) = 0
    BY EmptySeq
  <2> QED BY <2>1, TextsAre
<1>2. Texts(stored, c) = <<>>
  BY <1>1, EmptySeq
<1>3. FlattenSeq(Texts(stored, c)) = <<>>
  BY <1>1, <1>2 DEF FlattenSeq
<1> QED BY <1>3 DEF Log, Texts

\* The handler writes the line of the stage.
LEMMA LogStageStep ==
  ASSUME LogInv, LogStage
  PROVE  LogInv'
<1> USE DEF LogInv
<1>1. /\ Write(Handler, Stage) /\ at = "stage" /\ at' = "staging"
      /\ UNCHANGED <<failed, reader, script, taken>>
  BY DEF LogStage, osVars, readerVars
<1>2. Stage \in Seq(Bytes) /\ Handler \in Clients /\ Handler \notin Streams
  BY CommandAssumption, WriterAssumption DEF Clients
<1>3. WriterInv'
  BY <1>1, <1>2, CallKeepsWriter
<1>4. /\ phase' = [phase EXCEPT ![Handler] = "waiting"]
      /\ data' = [data EXCEPT ![Handler] = Stage]
      /\ fed' = [fed EXCEPT ![Handler] = fed[Handler] \o Stage]
      /\ UNCHANGED <<event, pending, reported, stored>>
  BY <1>1 DEF Write
<1>5. /\ phase'[Handler] = "waiting" /\ data'[Handler] = Stage
      /\ fed'[Handler] = fed[Handler] \o Stage
      /\ \A b \in Clients : b # Handler =>
           phase'[b] = phase[b] /\ data'[b] = data[b] /\ fed'[b] = fed[b]
  BY <1>2, <1>4 DEF WriterInv, WriterTypes
<1>6. ASSUME NEW b \in Clients, ~failed'[b] PROVE Kept(b)'
  <2>1. Log(b)' = Log(b)
    BY <1>4 DEF Log
  <2>2. CASE b = Handler
    <3>1. Log(b) = <<>> /\ fed[Handler] = <<>>
      BY <1>1, NothingLogged DEF PathInv
    <3>2. <<>> \o Stage = Stage
      BY <1>2, ConcatEmptySeq
    <3>3. First(b)'
      BY <1>5, <2>1, <2>2, <3>1, <3>2 DEF First
    <3> QED BY <1>5, <2>2, <3>3 DEF Kept
  <2>3. CASE b # Handler
    <3>1. Kept(b)
      BY <1>1, <1>6 DEF KeptInv
    <3> QED BY <1>1, <1>4, <1>5, <2>1, <2>3, <3>1, KeptElse
  <2> QED BY <2>2, <2>3
<1>7. KeptInv'
  BY <1>6 DEF KeptInv
<1>8. PathInv'
  <2>1. \A d \in Streams : d \in Clients /\ d # Handler
    BY <1>2 DEF Clients
  <2> QED BY <1>1, <1>5, <2>1 DEF PathInv, Output
<1> QED BY <1>3, <1>7, <1>8

\* A chunk is written.
LEMMA WriteStep ==
  ASSUME LogInv, CommandInv, NEW d \in Streams, Read(d), ~failed[d]
  PROVE  LogInv'
<1> USE DEF LogInv
<1> DEFINE last == Min({taken[d] + ReadSize, printed[d]})
           chunk == SubSeq(script[d], taken[d] + 1, last)
<1>1. /\ reader[d] = "reading" /\ phase[d] = "idle" /\ taken[d] < printed[d]
      /\ taken' = [taken EXCEPT ![d] = last]
      /\ Write(d, chunk)
      /\ UNCHANGED <<script, at, reader, failed>>
  BY DEF Read, osVars, runVars
<1>2. last \in Nat /\ taken[d] <= last /\ last <= printed[d]
  <2>1. taken[d] \in Nat /\ printed[d] \in Nat /\ ReadSize \in Nat
    BY CommandAssumption DEF CommandInv, CountInv
  <2> QED BY <1>1, <2>1, MinOfTwo
<1> HIDE DEF last
<1>3. PICK s \in Seq(Bytes), t \in Nat, u \in Nat :
        s = script[d] /\ t = taken[d] /\ u = last /\ t <= u /\ u <= Len(s)
  BY <1>2 DEF CommandInv, CountInv
<1>4. chunk \in Seq(Bytes)
  BY <1>3, PieceIs
<1> HIDE DEF chunk
<1>5. d \in Clients /\ Handler \notin Streams /\ d # Handler
  BY WriterAssumption DEF Clients
<1>6. WriterInv'
  BY <1>1, <1>4, <1>5, CallKeepsWriter
<1>7. /\ phase' = [phase EXCEPT ![d] = "waiting"]
      /\ data' = [data EXCEPT ![d] = chunk]
      /\ fed' = [fed EXCEPT ![d] = fed[d] \o chunk]
      /\ UNCHANGED <<event, pending, reported, stored>>
  BY <1>1 DEF Write
<1>8. /\ phase'[d] = "waiting" /\ data'[d] = chunk /\ fed'[d] = fed[d] \o chunk
      /\ \A b \in Clients : b # d =>
           phase'[b] = phase[b] /\ data'[b] = data[b] /\ fed'[b] = fed[b]
  BY <1>5, <1>7 DEF WriterInv, WriterTypes
<1>9. ASSUME NEW b \in Clients, ~failed'[b] PROVE Kept(b)'
  <2>1. Log(b)' = Log(b) /\ Kept(b)
    BY <1>1, <1>7, <1>9 DEF Log, KeptInv
  <2>2. CASE b = d
    <3>1. Open(d)
      BY <1>1, <1>5, <2>1, <2>2 DEF Kept
    <3>2. PICK gone \in Seq(Bytes), eaten \in Seq(Bytes) :
            /\ gone # <<>> => reported
            /\ fed[d] = eaten \o Waiting(d)
            /\ \A more \in Seq(Bytes) :
                 Redact(eaten \o more) = (Said(d) \o gone) \o Redact(pending[d] \o more)
      BY <3>1 DEF Open
    <3>3. Waiting(d) = <<>> /\ Waiting(d)' = chunk
      BY <1>1, <1>8 DEF Waiting
    <3>4. fed'[d] = eaten \o chunk
      BY <1>8, <3>2, <3>3, ConcatEmptySeq
    <3>5. Said(d)' = Said(d)
      BY <1>1, <1>8, <2>1, <2>2 DEF Said, Flight
    <3>6. Open(d)'
      <4>1. /\ fed'[d] = eaten \o Waiting(d)' /\ (gone # <<>> => reported')
            /\ \A more \in Seq(Bytes) :
                 Redact(eaten \o more) = (Said(d)' \o gone) \o Redact(pending'[d] \o more)
        BY <1>7, <3>2, <3>3, <3>4, <3>5
      <4> QED BY ONLY <4>1 DEF Open
    <3> QED BY <1>1, <1>5, <1>8, <2>2, <3>6 DEF Kept
  <2>3. CASE b # d
    BY <1>1, <1>7, <1>8, <2>1, <2>3, KeptElse
  <2> QED BY <2>2, <2>3
<1>10. KeptInv'
  BY <1>9 DEF KeptInv
<1>11. fed'[d] = Output(d)'
  <2>1. fed[d] = SubSeq(s, 1, t)
    BY <1>3 DEF PathInv, Output
  <2>2. SubSeq(s, 1, t) \o SubSeq(s, t + 1, u) = SubSeq(s, 1, u)
    <3>1. 1 \in 1 .. Len(s) + 1 /\ t \in 1 - 1 .. Len(s) /\ u \in t .. Len(s)
      BY <1>3
    <3> QED BY <3>1, ConcatAdjacentSubSeq
  <2>3. chunk = SubSeq(s, t + 1, u)
    BY <1>3 DEF chunk
  <2>4. taken'[d] = u /\ script' = script
    BY <1>1, <1>3 DEF CommandInv, CountInv
  <2> QED BY <1>3, <1>8, <2>1, <2>2, <2>3, <2>4 DEF Output
<1>12. PathInv'
  <2>1. at # "stage" /\ at # "returned"
    BY <1>1 DEF CommandInv, DrainInv
  <2>2. \A e \in Streams : e # d =>
          e \in Clients /\ taken'[e] = taken[e] /\ Output(e)' = Output(e)
    BY <1>1, <1>5 DEF CommandInv, CountInv, Output, Clients
  <2>3. Handler \in Clients
    BY DEF Clients
  <2> QED BY <1>1, <1>5, <1>8, <1>11, <2>1, <2>2, <2>3 DEF PathInv
<1> QED BY <1>6, <1>10, <1>12

\* A reader goes on although its log has failed.
LEMMA ReadUnlogged ==
  ASSUME LogInv, CommandInv, NEW d \in Streams, Read(d), failed[d]
  PROVE  LogInv'
<1> USE DEF LogInv
<1>1. /\ reader[d] = "reading"
      /\ \E last : taken' = [taken EXCEPT ![d] = last]
      /\ UNCHANGED <<writerVars, script, at, reader, failed>>
  BY DEF Read, osVars, runVars
<1> USE DEF writerVars
<1>2. WriterInv'
  BY <1>1 DEF WriterInv, WriterTypes, LockInv, LimitInv, CleanInv, Clean
<1>3. KeptInv'
  <2> SUFFICES ASSUME NEW b \in Clients, ~failed'[b] PROVE Kept(b)'
    BY DEF KeptInv
  <2>1. Kept(b)
    BY <1>1 DEF KeptInv
  <2>2. Log(b)' = Log(b)
    BY <1>1 DEF Log
  <2> QED BY <1>1, <2>1, <2>2, KeptElse
<1>4. PathInv'
  <2>1. at # "stage" /\ at # "returned"
    BY <1>1 DEF CommandInv, DrainInv
  <2>2. \A e \in Streams : ~failed[e] => Output(e)' = Output(e)
    BY <1>1 DEF CommandInv, CountInv, Output
  <2> QED BY <1>1, <2>1, <2>2 DEF PathInv
<1> QED BY <1>2, <1>3, <1>4

\* A reader meets the end of its pipe.
LEMMA EndOfFileStep ==
  ASSUME LogInv, CommandInv, NEW d \in Streams, EndOfFile(d)
  PROVE  LogInv'
<1> USE DEF LogInv
<1>1. /\ reader[d] = "reading" /\ Flush(d)
      /\ reader' = [reader EXCEPT ![d] = "flushing"]
      /\ UNCHANGED <<script, taken, at, failed>>
  BY DEF EndOfFile, osVars, runVars
<1>2. d \in Clients /\ Handler \notin Streams /\ d # Handler /\ <<>> \in Seq(Bytes)
  BY WriterAssumption DEF Clients
<1>3. WriterInv'
  BY <1>1, <1>2, CallKeepsWriter
<1>4. /\ phase[d] = "idle" /\ phase' = [phase EXCEPT ![d] = "closing"]
      /\ UNCHANGED <<data, event, pending, fed, reported, stored>>
  BY <1>1 DEF Flush
<1>5. /\ phase'[d] = "closing"
      /\ \A b \in Clients : b # d => phase'[b] = phase[b]
      /\ reader'[d] = "flushing"
      /\ \A e \in Streams : e # d => reader'[e] = reader[e]
  BY <1>1, <1>2, <1>4 DEF WriterInv, WriterTypes, CommandInv, CountInv
<1>6. ASSUME NEW b \in Clients, ~failed'[b] PROVE Kept(b)'
  <2>1. Log(b)' = Log(b) /\ Kept(b)
    BY <1>1, <1>4, <1>6 DEF Log, KeptInv
  <2>2. CASE b = d
    <3>1. Open(d)
      BY <1>1, <1>2, <2>1, <2>2 DEF Kept
    <3>2. Waiting(d)' = Waiting(d) /\ Said(d)' = Said(d)
      BY <1>4, <1>5, <2>1, <2>2 DEF Waiting, Said, Flight
    <3>3. Open(d)'
      <4>1. fed'[d] = fed[d] /\ pending'[d] = pending[d] /\ reported' = reported
        BY <1>4
      <4>2. PICK gone \in Seq(Bytes), eaten \in Seq(Bytes) :
              /\ gone # <<>> => reported
              /\ fed[d] = eaten \o Waiting(d)
              /\ \A more \in Seq(Bytes) :
                   Redact(eaten \o more) = (Said(d) \o gone) \o Redact(pending[d] \o more)
        BY ONLY <3>1 DEF Open
      <4>3. /\ gone # <<>> => reported'
            /\ fed'[d] = eaten \o Waiting(d)'
            /\ \A more \in Seq(Bytes) :
                 Redact(eaten \o more) = (Said(d)' \o gone) \o Redact(pending'[d] \o more)
        BY ONLY <3>2, <4>1, <4>2
      <4> QED BY ONLY <4>3 DEF Open
    <3> QED BY <1>2, <1>5, <2>2, <3>3 DEF Kept
  <2>3. CASE b # d
    BY <1>4, <1>5, <2>1, <2>3, KeptElse
  <2> QED BY <2>2, <2>3
<1>7. KeptInv'
  BY <1>6 DEF KeptInv
<1>8. PathInv'
  <2>1. at # "stage" /\ at # "returned"
    BY <1>1 DEF CommandInv, DrainInv
  <2>2. Handler \in Clients /\ \A e \in Streams : e \in Clients
    BY DEF Clients
  <2> QED BY <1>1, <1>2, <1>4, <1>5, <2>1, <2>2 DEF PathInv, Output
<1> QED BY <1>3, <1>7, <1>8

\* The clients that are left alone, when the writer goes on for another one.
LEMMA OthersKept ==
  ASSUME LogInv, NEW c \in Clients, NEW p, NEW d, NEW e, NEW k,
         phase' = [phase EXCEPT ![c] = p],
         data' = [data EXCEPT ![c] = d],
         event' = [event EXCEPT ![c] = e],
         pending' = [pending EXCEPT ![c] = k],
         fed' = fed, reader' = reader, reported => reported',
         stored' = stored \/ stored' = Storing(c)
  PROVE  \A b \in Clients : b # c => phase'[b] = phase[b] /\ (Kept(b) => Kept(b)')
<1> SUFFICES ASSUME NEW b \in Clients, b # c
             PROVE  phase'[b] = phase[b] /\ (Kept(b) => Kept(b)')
  OBVIOUS
<1> USE DEF LogInv
<1>1. Log(b)' = Log(b)
  BY OthersSaid
<1>2. /\ phase'[b] = phase[b] /\ data'[b] = data[b] /\ event'[b] = event[b]
      /\ pending'[b] = pending[b] /\ fed'[b] = fed[b]
  BY DEF WriterInv, WriterTypes
<1> QED BY <1>1, <1>2, KeptElse

\* A client that holds the lock, or gets it.
LEMMA ProceedKeepsPath ==
  ASSUME LogInv, NEW c \in Clients, NEW p \in {"idle", "appending", "marking"},
         phase' = [phase EXCEPT ![c] = p], phase[c] # "idle",
         UNCHANGED <<fed, at, script, taken, reader>>,
         failed' = failed \/ failed' = [failed EXCEPT ![c] = TRUE]
  PROVE  PathInv'
<1> USE DEF LogInv
<1>1. /\ phase'[c] = p /\ \A b \in Clients : b # c => phase'[b] = phase[b]
      /\ \A b \in Clients : ~failed'[b] => ~failed[b]
      /\ failed' \in [Clients -> BOOLEAN]
  BY DEF WriterInv, WriterTypes, PathInv
<1>2. Handler \in Clients /\ \A d \in Streams : d \in Clients
  BY DEF Clients
<1>3. at # "stage"
  BY DEF PathInv
<1>4. at = "returned" => c \notin Streams
  BY DEF PathInv
<1>5. at = "returned" => \A d \in Streams : phase'[d] = "idle"
  BY <1>1, <1>2, <1>4 DEF PathInv
<1>6. p # "closing" /\ p # "waiting"
  OBVIOUS
<1>7. \A d \in Streams : Output(d)' = Output(d)
  BY DEF Output
<1>8. \A d \in Streams : ~failed'[d] => fed'[d] = Output(d)'
  BY <1>1, <1>2, <1>7 DEF PathInv
<1>9. /\ phase'[Handler] # "closing"
      /\ \A d \in Streams : /\ reader'[d] = "flushing" => phase'[d] # "waiting"
                            /\ phase'[d] = "closing" => reader'[d] = "flushing"
  BY <1>1, <1>2, <1>6 DEF PathInv
<1> QED BY <1>1, <1>3, <1>5, <1>8, <1>9 DEF PathInv

\* How the state changes when the writer goes on.
LEMMA ProceedChanges ==
  ASSUME WriterInv, NEW c \in Clients, NEW text \in Seq(Bytes), Proceed(c, text)
  PROVE  /\ \E p \in {"idle", "appending", "marking"} : \E d, e \in Seq(Bytes) :
              /\ phase' = [phase EXCEPT ![c] = p]
              /\ data' = [data EXCEPT ![c] = d]
              /\ event' = [event EXCEPT ![c] = e]
         /\ reported => reported'
<1>1. PICK p \in {"idle", "appending", "marking"}, d \in Seq(Bytes), e \in Seq(Bytes) :
            Goes(c, text, p, d, e)
  BY ProceedIs DEF WriterInv
<1> USE DEF Goes
<1>2. /\ p = "idle" => reported' = reported
      /\ p = "appending" => reported' = reported
      /\ p = "marking" => reported' = TRUE
  BY <1>1
<1>3. reported => reported'
  BY <1>2
<1> QED BY <1>1, <1>3

\* A client gets the lock: its chunk is redacted.
LEMMA EnterStep ==
  ASSUME LogInv, NEW c \in Clients, Enter(c), UNCHANGED commandVars
  PROVE  LogInv'
<1> USE DEF LogInv
<1> DEFINE redacted == IF c = Handler THEN [text |-> Redact(data[c]), rest |-> <<>>]
                       ELSE Feed(pending[c], data[c])
<1>1. /\ lock = None /\ phase[c] = "waiting"
      /\ pending' = [pending EXCEPT ![c] = redacted.rest]
      /\ Proceed(c, redacted.text)
      /\ UNCHANGED <<stored, fed>>
  BY DEF Enter
<1>2. UNCHANGED <<at, script, taken, reader, failed>>
  BY DEF commandVars, osVars, runVars, readerVars
<1>3. PICK kept, chunk \in Seq(Bytes) : kept = pending[c] /\ chunk = data[c]
  BY DEF WriterInv, WriterTypes
<1>4. Redact(chunk) \in Seq(Bytes) /\ Clean(Redact(chunk)) /\ <<>> \in Seq(Bytes)
  <2>1. Len(chunk) \in 0 .. Len(chunk)
    OBVIOUS
  <2> QED BY <2>1, RedactTypes, RedactionIsClean
<1>5. /\ Feed(kept, chunk).text \in Seq(Bytes) /\ Feed(kept, chunk).rest \in Seq(Bytes)
      /\ Clean(Feed(kept, chunk).text)
  BY FeedIs, FeedIsClean
<1>6. \A more \in Seq(Bytes) :
         /\ kept \o (chunk \o more) = (kept \o chunk) \o more
         /\ Redact((kept \o chunk) \o more)
              = Feed(kept, chunk).text \o Redact(Feed(kept, chunk).rest \o more)
  <2>1. \A x \in Seq(Bytes) : (kept \o chunk) \o x = kept \o (chunk \o x)
    BY ONLY Joins
  <2>2. \A more \in Seq(Bytes) : Redact((kept \o chunk) \o more)
              = Feed(kept, chunk).text \o Redact(Feed(kept, chunk).rest \o more)
    BY ONLY FeedIs
  <2> QED BY ONLY <2>1, <2>2
<1>7. /\ c = Handler => redacted.text = Redact(chunk) /\ redacted.rest = <<>>
      /\ c # Handler => redacted.text = Feed(kept, chunk).text
                        /\ redacted.rest = Feed(kept, chunk).rest
  BY <1>3
<1>8. PICK text, rest \in Seq(Bytes) :
        text = redacted.text /\ rest = redacted.rest /\ Clean(text)
  BY <1>4, <1>5, <1>7
<1> HIDE DEF redacted
<1>9. pending' = [pending EXCEPT ![c] = rest] /\ Proceed(c, text)
  BY <1>1, <1>8
<1>10. WriterInv'
  <2>1. pending' \in [Clients -> Seq(Bytes)]
    BY <1>9 DEF WriterInv, WriterTypes
  <2> QED BY <1>1, <1>8, <1>9, <2>1, ProceedKeepsWriter
<1>11. PICK p \in {"idle", "appending", "marking"}, d \in Seq(Bytes), e \in Seq(Bytes) :
         /\ phase' = [phase EXCEPT ![c] = p]
         /\ data' = [data EXCEPT ![c] = d]
         /\ event' = [event EXCEPT ![c] = e]
         /\ reported => reported'
  BY <1>9, ProceedChanges
<1>12. PathInv'
  BY <1>1, <1>2, <1>11, ProceedKeepsPath
<1>13. \A b \in Clients : b # c => (Kept(b) => Kept(b)')
  BY <1>1, <1>2, <1>9, <1>11, OthersKept
<1>14. phase'[c] = p /\ pending'[c] = rest
  BY <1>9, <1>11 DEF WriterInv, WriterTypes
<1>15. Waiting(c) = chunk /\ Waiting(c)' = <<>>
  BY <1>1, <1>3, <1>14 DEF Waiting
<1>16. \A gone \in Seq(Bytes) : (gone # <<>> => reported) =>
         \E left \in Seq(Bytes) :
           /\ left # <<>> => reported'
           /\ Said(c)' \o left = (Said(c) \o gone) \o text
  BY <1>1, <1>9, EnterSays
<1>17. ASSUME Kept(c) PROVE Kept(c)'
  <2>1. CASE c = Handler
    <3>1. c \notin Streams /\ First(c)
      BY <1>1, <1>17, <2>1, WriterAssumption DEF Kept
    <3>2. Said(c) = <<>>
      BY <1>1, <3>1, ConcatEmptySeq DEF Said, Flight, First
    <3>3. PICK left \in Seq(Bytes) :
            /\ left # <<>> => reported'
            /\ Said(c)' \o left = (<<>> \o <<>>) \o text
      BY <1>4, <1>16, <3>2
    <3>4. (<<>> \o <<>>) \o text = text
      BY <1>4, ConcatEmptySeq
    <3>5. Redact(fed'[c]) = Said(c)' \o left
      BY <1>1, <1>3, <1>7, <1>8, <2>1, <3>1, <3>3, <3>4 DEF First
    <3>6. Closed(c)'
      BY ONLY <3>3, <3>5 DEF Closed
    <3> QED BY <1>14, <2>1, <3>6 DEF Kept
  <2>2. CASE c # Handler
    <3>1. c \in Streams /\ reader[c] # "flushing" /\ Open(c)
      BY <1>1, <1>17, <2>2 DEF Kept, Clients, PathInv
    <3>2. PICK gone \in Seq(Bytes), eaten \in Seq(Bytes) :
            /\ gone # <<>> => reported
            /\ fed[c] = eaten \o Waiting(c)
            /\ \A more \in Seq(Bytes) :
                 Redact(eaten \o more) = (Said(c) \o gone) \o Redact(pending[c] \o more)
      BY <3>1 DEF Open
    <3>3. PICK left \in Seq(Bytes) :
            /\ left # <<>> => reported'
            /\ Said(c)' \o left = (Said(c) \o gone) \o text
      BY <1>16, <3>2
    <3>4. PICK all \in Seq(Bytes) : all = eaten \o chunk
      BY ONLY Joins
    <3>5. fed'[c] = all \o Waiting(c)'
      BY <1>1, <1>15, <3>2, <3>4, ConcatEmptySeq
    <3>6. PICK said \in Seq(Bytes) : said = Said(c) \o gone
      BY SaidTypes, Joins
    <3>7. ASSUME NEW more \in Seq(Bytes)
          PROVE  Redact(all \o more) = (Said(c)' \o left) \o Redact(rest \o more)
      <4>1. all \o more = eaten \o (chunk \o more)
        <5>1. \A x \in Seq(Bytes) : (eaten \o chunk) \o x = eaten \o (chunk \o x)
          BY ONLY Joins
        <5> QED BY ONLY <3>4, <5>1
      <4>2. PICK cm \in Seq(Bytes) : cm = chunk \o more
        BY ONLY Joins
      <4>3. Redact(eaten \o cm) = said \o Redact(kept \o cm)
        BY <1>3, <3>2, <3>6
      <4>4. kept \o cm = (kept \o chunk) \o more
        BY ONLY <1>6, <4>2
      <4>5. Redact((kept \o chunk) \o more) = text \o Redact(rest \o more)
        <5>1. text = Feed(kept, chunk).text /\ rest = Feed(kept, chunk).rest
          BY <1>7, <1>8, <2>2
        <5> QED BY ONLY <1>6, <5>1
      <4>6. PICK r \in Seq(Bytes) : r = Redact(rest \o more)
        <5>1. PICK w \in Seq(Bytes) : w = rest \o more
          BY ONLY Joins
        <5>2. Len(w) \in 0 .. Len(w)
          OBVIOUS
        <5> QED BY <5>1, <5>2, RedactTypes
      <4>7. said \o (text \o r) = (said \o text) \o r
        <5>1. \A x \in Seq(Bytes) : (said \o text) \o x = said \o (text \o x)
          BY ONLY Joins
        <5> QED BY ONLY <5>1
      <4>8. Redact(all \o more) = said \o (text \o r)
        BY ONLY <4>1, <4>2, <4>3, <4>4, <4>5, <4>6
      <4>9. (said \o text) \o r = (Said(c)' \o left) \o r
        BY ONLY <3>3, <3>6
      <4> QED BY ONLY <4>6, <4>7, <4>8, <4>9
    <3>8. Open(c)'
      <4>1. \A more \in Seq(Bytes) :
              Redact(all \o more) = (Said(c)' \o left) \o Redact(pending'[c] \o more)
        BY ONLY <1>14, <3>7
      <4> QED BY ONLY <3>3, <3>5, <4>1 DEF Open
    <3>9. c \in Streams /\ reader'[c] # "flushing"
      BY <1>2, <3>1
    <3> QED BY ONLY <3>8, <3>9 DEF Kept
  <2> QED BY <2>1, <2>2
<1>18. KeptInv'
  BY <1>2, <1>13, <1>17 DEF KeptInv
<1> QED BY <1>10, <1>12, <1>18

\* A reader gets the lock to flush what its redactor kept back.
LEMMA EnterFlushStep ==
  ASSUME LogInv, NEW c \in Clients, EnterFlush(c), UNCHANGED commandVars
  PROVE  LogInv'
<1> USE DEF LogInv
<1>1. /\ lock = None /\ phase[c] = "closing"
      /\ pending' = [pending EXCEPT ![c] = <<>>]
      /\ Proceed(c, Redact(pending[c]))
      /\ UNCHANGED <<stored, fed>>
  BY DEF EnterFlush
<1>2. UNCHANGED <<at, script, taken, reader, failed>>
  BY DEF commandVars, osVars, runVars, readerVars
<1>3. PICK kept \in Seq(Bytes) : kept = pending[c]
  BY DEF WriterInv, WriterTypes
<1>4. PICK text \in Seq(Bytes) : text = Redact(kept) /\ Clean(text)
  <2>1. Len(kept) \in 0 .. Len(kept)
    OBVIOUS
  <2> QED BY <2>1, RedactTypes, RedactionIsClean
<1>5. Proceed(c, text) /\ <<>> \in Seq(Bytes)
  BY <1>1, <1>3, <1>4
<1>6. WriterInv'
  <2>1. pending' \in [Clients -> Seq(Bytes)]
    BY <1>1, <1>5 DEF WriterInv, WriterTypes
  <2> QED BY <1>1, <1>4, <1>5, <2>1, ProceedKeepsWriter
<1>7. PICK p \in {"idle", "appending", "marking"}, d \in Seq(Bytes), e \in Seq(Bytes) :
        /\ phase' = [phase EXCEPT ![c] = p]
        /\ data' = [data EXCEPT ![c] = d]
        /\ event' = [event EXCEPT ![c] = e]
        /\ reported => reported'
  BY <1>5, ProceedChanges
<1>8. PathInv'
  BY <1>1, <1>2, <1>7, ProceedKeepsPath
<1>9. \A b \in Clients : b # c => (Kept(b) => Kept(b)')
  BY <1>1, <1>2, <1>7, OthersKept
<1>10. phase'[c] = p
  BY <1>7 DEF WriterInv, WriterTypes
<1>11. ASSUME Kept(c) PROVE Kept(c)'
  <2>1. c \in Streams /\ reader[c] = "flushing" /\ c # Handler
    BY <1>1, WriterAssumption DEF PathInv, Clients
  <2>2. Open(c)
    BY <1>1, <1>11, <2>1 DEF Kept
  <2>3. Waiting(c) = <<>>
    BY <1>1 DEF Waiting
  <2>4. PICK gone \in Seq(Bytes) :
          /\ gone # <<>> => reported
          /\ Redact(fed[c]) = (Said(c) \o gone) \o Redact(kept \o <<>>)
    BY <1>3, <2>2, <2>3, OpenSaid
  <2>5. PICK left \in Seq(Bytes) :
          /\ left # <<>> => reported'
          /\ Said(c)' \o left = (Said(c) \o gone) \o text
    BY <1>1, <1>5, <2>4, EnterSays
  <2>6. kept \o <<>> = kept
    BY ONLY Joins
  <2>7. Redact(fed'[c]) = Said(c)' \o left
    BY <1>1, <1>4, <2>4, <2>5, <2>6
  <2>8. Closed(c)'
    BY ONLY <2>5, <2>7 DEF Closed
  <2> QED BY <1>2, <1>10, <2>1, <2>8 DEF Kept
<1>12. KeptInv'
  BY <1>2, <1>9, <1>11 DEF KeptInv
<1> QED BY <1>6, <1>8, <1>12

\* An append has returned.
LEMMA AppendedStep ==
  ASSUME LogInv, NEW c \in Clients, Appended(c), UNCHANGED commandVars
  PROVE  LogInv'
<1> USE DEF LogInv
<1>1. /\ lock = c /\ stored' = Storing(c) /\ Proceed(c, data[c])
      /\ UNCHANGED <<pending, fed>>
  BY DEF Appended
<1>2. UNCHANGED <<at, script, taken, reader, failed>>
  BY DEF commandVars, osVars, runVars, readerVars
<1>3. PICK text \in Seq(Bytes) : text = data[c]
  BY DEF WriterInv, WriterTypes
<1>4. /\ phase[c] \in {"appending", "marking"}
      /\ phase[c] = "marking" => text = <<>>
      /\ Clean(text)
  BY <1>1, <1>3, NothingIsClean DEF WriterInv, LockInv, CleanInv
<1>5. Proceed(c, text)
  BY <1>1, <1>3
<1>6. WriterInv'
  <2>1. pending' \in [Clients -> Seq(Bytes)]
    BY <1>1 DEF WriterInv, WriterTypes
  <2> QED BY <1>1, <1>4, <1>5, <2>1, ProceedKeepsWriter
<1>7. PICK p \in {"idle", "appending", "marking"}, d \in Seq(Bytes), e \in Seq(Bytes) :
        /\ phase' = [phase EXCEPT ![c] = p]
        /\ data' = [data EXCEPT ![c] = d]
        /\ event' = [event EXCEPT ![c] = e]
        /\ reported => reported'
  BY <1>5, ProceedChanges
<1>8. PathInv'
  BY <1>1, <1>2, <1>4, <1>7, ProceedKeepsPath
<1>9. \A b \in Clients : b # c => (Kept(b) => Kept(b)')
  <2>1. pending' = [pending EXCEPT ![c] = pending[c]]
    BY <1>1 DEF WriterInv, WriterTypes
  <2> QED BY <1>1, <1>2, <1>7, <2>1, OthersKept
<1>10. phase'[c] = p
  BY <1>7 DEF WriterInv, WriterTypes
<1>11. \A gone \in Seq(Bytes) : (gone # <<>> => reported) =>
         \E left \in Seq(Bytes) :
           /\ left # <<>> => reported'
           /\ Said(c)' \o left = Said(c) \o gone
  BY <1>1, AppendedSays
<1>12. Closed(c) => Closed(c)'
  <2> SUFFICES ASSUME Closed(c) PROVE Closed(c)'
    OBVIOUS
  <2>1. PICK gone \in Seq(Bytes) :
          (gone # <<>> => reported) /\ Redact(fed[c]) = Said(c) \o gone
    BY DEF Closed
  <2>2. PICK left \in Seq(Bytes) :
          (left # <<>> => reported') /\ Said(c)' \o left = Said(c) \o gone
    BY <1>11, <2>1
  <2>3. Redact(fed'[c]) = Said(c)' \o left
    BY <1>1, <2>1, <2>2
  <2> QED BY ONLY <2>2, <2>3 DEF Closed
<1>13. Open(c) => Open(c)'
  <2> SUFFICES ASSUME Open(c) PROVE Open(c)'
    OBVIOUS
  <2>1. PICK gone \in Seq(Bytes), eaten \in Seq(Bytes) :
          /\ gone # <<>> => reported
          /\ fed[c] = eaten \o Waiting(c)
          /\ \A more \in Seq(Bytes) :
               Redact(eaten \o more) = (Said(c) \o gone) \o Redact(pending[c] \o more)
    BY DEF Open
  <2>2. PICK left \in Seq(Bytes) :
          (left # <<>> => reported') /\ Said(c)' \o left = Said(c) \o gone
    BY <1>11, <2>1
  <2>3. Waiting(c)' = Waiting(c)
    BY <1>4, <1>10 DEF Waiting
  <2>4. /\ fed'[c] = eaten \o Waiting(c)'
        /\ \A more \in Seq(Bytes) :
             Redact(eaten \o more) = (Said(c)' \o left) \o Redact(pending'[c] \o more)
    BY <1>1, <2>1, <2>2, <2>3
  <2> QED BY ONLY <2>2, <2>4 DEF Open
<1>14. Kept(c) => Kept(c)'
  <2>1. phase'[c] # "waiting" /\ phase'[c] # "closing"
    BY <1>10
  <2>2. phase[c] # "waiting" /\ phase[c] # "closing"
    BY <1>4
  <2> QED BY <1>2, <1>12, <1>13, <2>1, <2>2 DEF Kept
<1>15. KeptInv'
  BY <1>2, <1>9, <1>14 DEF KeptInv
<1> QED BY <1>6, <1>8, <1>15

\* An append has failed: nothing more is said of its client.
LEMMA LogFailsStep ==
  ASSUME LogInv, NEW c \in Clients, LogFails(c)
  PROVE  LogInv'
<1> USE DEF LogInv
<1>1. /\ lock = c /\ stored' \in {stored, Storing(c)} /\ Leave(c)
      /\ UNCHANGED <<pending, fed>>
      /\ failed' = [failed EXCEPT ![c] = TRUE]
      /\ UNCHANGED <<at, script, taken, reader>>
  BY DEF LogFails, AppendFails, osVars, runVars, readerVars
<1>2. phase[c] \in {"appending", "marking"} /\ <<>> \in Seq(Bytes)
  BY <1>1 DEF WriterInv, LockInv
<1>3. WriterInv'
  <2>1. pending' \in [Clients -> Seq(Bytes)]
    BY <1>1 DEF WriterInv, WriterTypes
  <2>2. Proceed(c, <<>>)
    BY <1>1 DEF Proceed
  <2> QED BY <1>1, <1>2, <2>1, <2>2, NothingIsClean, ProceedKeepsWriter
<1>4. /\ phase' = [phase EXCEPT ![c] = "idle"]
      /\ data' = [data EXCEPT ![c] = <<>>] /\ event' = [event EXCEPT ![c] = <<>>]
      /\ reported' = reported
  BY <1>1 DEF Leave
<1>5. PathInv'
  BY <1>1, <1>2, <1>4, ProceedKeepsPath
<1>6. \A b \in Clients : b # c => (Kept(b) => Kept(b)')
  <2>1. pending' = [pending EXCEPT ![c] = pending[c]]
    BY <1>1 DEF WriterInv, WriterTypes
  <2> QED BY <1>1, <1>4, <2>1, OthersKept
<1>7. failed'[c] /\ \A b \in Clients : b # c => failed'[b] = failed[b]
  BY <1>1 DEF PathInv
<1>8. KeptInv'
  BY <1>6, <1>7 DEF KeptInv
<1> QED BY <1>3, <1>5, <1>8

\* The readers are cancelled.
LEMMA CancelKeepsWriter ==
  ASSUME WriterInv, CancelReaders
  PROVE  WriterInv'
<1> USE DEF WriterInv
<1>1. /\ stored' = stored \/ (lock # None /\ stored' = Storing(lock))
      /\ lock' = None
      /\ phase' = [c \in Clients |->
                     IF c \in Streams /\ reader[c] = "reading" THEN "closing" ELSE "idle"]
      /\ data' = [c \in Clients |-> <<>>] /\ event' = [c \in Clients |-> <<>>]
      /\ UNCHANGED <<pending, written, reported, fed>>
  BY DEF CancelReaders
<1>2. \A c \in Clients : /\ phase'[c] \in {"idle", "closing"}
                         /\ data'[c] = <<>> /\ event'[c] = <<>>
  BY <1>1
<1>3. stored' = stored \/ \E c \in Clients : /\ lock = c
        /\ Stored(c) \in Event /\ (Stored(c).notice <=> phase[c] = "marking")
        /\ stored' = Append(stored, Stored(c)) /\ Clean(Stored(c).text)
  BY <1>1, StoredIs DEF WriterTypes
<1>4. stored \in Seq(Event) /\ None \notin Clients
  BY WriterAssumption DEF WriterTypes
<1>5. WriterTypes'
  <2>1. stored' \in Seq(Event)
    BY <1>3, <1>4
  <2>2. phase' \in [Clients -> Phase]
    BY <1>1 DEF Phase
  <2> QED BY <1>1, <2>1, <2>2 DEF WriterTypes
<1>6. LockInv'
  BY <1>1, <1>2, <1>4 DEF LockInv
<1>7. LimitInv'
  <2>1. ASSUME NEW i \in DOMAIN stored', stored'[i].notice
        PROVE  i = Len(stored') /\ reported'
    <3>1. CASE stored' = stored
      BY <1>1, <2>1, <3>1 DEF LimitInv
    <3>2. ASSUME NEW c \in Clients, lock = c, Stored(c).notice <=> phase[c] = "marking",
                 stored' = Append(stored, Stored(c)), Stored(c) \in Event
          PROVE  i = Len(stored') /\ reported'
      <4>1. PICK n \in Nat : n = Len(stored) /\ DOMAIN stored = 1 .. n
        BY <1>4
      <4>2. /\ Len(stored') = n + 1 /\ i \in 1 .. n + 1 /\ stored'[n + 1] = Stored(c)
            /\ \A j \in 1 .. n : stored'[j] = stored[j]
        BY <1>4, <3>2, <4>1
      <4>3. i = n + 1 \/ i \in DOMAIN stored
        BY <4>1, <4>2
      <4>4. i \in DOMAIN stored => stored[i].notice
        BY <2>1, <4>1, <4>2
      <4>5. i \notin DOMAIN stored
        BY <3>2, <4>4 DEF LimitInv, LockInv
      <4>6. i = n + 1 /\ phase[c] = "marking"
        BY <2>1, <3>2, <4>2, <4>3, <4>5
      <4> QED BY <1>1, <4>2, <4>6 DEF LimitInv
    <3> QED BY <1>3, <3>1, <3>2
  <2> QED BY <1>1, <1>2, <2>1 DEF LimitInv
<1>8. CleanInv'
  <2>1. ASSUME NEW i \in DOMAIN stored' PROVE Clean(stored'[i].text)
    <3>1. CASE stored' = stored
      BY <3>1 DEF CleanInv
    <3>2. ASSUME NEW e \in Event, stored' = Append(stored, e), Clean(e.text)
          PROVE  Clean(stored'[i].text)
      <4>1. PICK n \in Nat : n = Len(stored) /\ DOMAIN stored = 1 .. n
        BY <1>4
      <4>2. /\ i \in 1 .. n + 1 /\ stored'[n + 1] = e
            /\ \A j \in 1 .. n : stored'[j] = stored[j]
        BY <1>4, <3>2, <4>1
      <4>3. i = n + 1 \/ i \in 1 .. n
        BY <4>2
      <4> QED BY <3>2, <4>1, <4>2, <4>3 DEF CleanInv
    <3> QED BY <1>3, <3>1, <3>2
  <2>2. \A c \in Clients : Clean(event'[c]) /\ (phase'[c] = "appending" => Clean(data'[c]))
    BY <1>2, NothingIsClean
  <2> QED BY <2>1, <2>2 DEF CleanInv, Clean
<1> QED BY <1>5, <1>6, <1>7, <1>8

\* What was said stays said when the readers are cancelled.
LEMMA CancelReadersStep ==
  ASSUME LogInv, CommandInv, CancelReaders, \A d \in Streams : reader[d] # "off"
  PROVE  LogInv'
<1> USE DEF LogInv
<1>1. WriterInv'
  BY CancelKeepsWriter
<1>2. /\ stored' = stored \/ (lock # None /\ stored' = Storing(lock))
      /\ phase' = [c \in Clients |->
                     IF c \in Streams /\ reader[c] = "reading" THEN "closing" ELSE "idle"]
      /\ data' = [c \in Clients |-> <<>>] /\ event' = [c \in Clients |-> <<>>]
      /\ failed' = [c \in Clients |-> failed[c] \/ phase[c] # "idle"]
      /\ reader' = [d \in Streams |-> "flushing"]
      /\ UNCHANGED <<pending, reported, fed, at, script, taken>>
      /\ at = "draining"
  BY DEF CancelReaders, osVars
<1>3. Handler \notin Streams /\ Handler \in Clients /\ \A d \in Streams : d \in Clients
  BY WriterAssumption DEF Clients
<1>4. ASSUME NEW b \in Clients, ~failed'[b] PROVE Kept(b)'
  <2>1. ~failed[b] /\ phase[b] = "idle" /\ Kept(b)
    BY <1>2, <1>4 DEF KeptInv
  <2>2. Log(b)' = Log(b)
    <3>1. lock # b
      BY <2>1 DEF WriterInv, LockInv
    <3>2. CASE stored' = stored
      BY <3>2 DEF Log
    <3>3. CASE lock # None /\ stored' = Storing(lock)
      <4>1. lock \in Clients
        BY <3>3 DEF WriterInv, WriterTypes
      <4> QED BY <3>1, <3>3, <4>1, OthersSaid
    <3> QED BY <1>2, <3>2, <3>3
  <2>3. phase'[b] = IF b \in Streams /\ reader[b] = "reading" THEN "closing" ELSE "idle"
    BY <1>2
  <2>4. Said(b)' = Said(b) /\ Waiting(b)' = Waiting(b)
    BY <2>1, <2>2, <2>3 DEF Said, Flight, Waiting
  <2>5. /\ fed'[b] = fed[b] /\ pending'[b] = pending[b] /\ (reported => reported')
    BY <1>2
  <2>6. Closed(b) => Closed(b)'
    BY ONLY <2>4, <2>5 DEF Closed
  <2>7. Open(b) => Open(b)'
    <3> SUFFICES ASSUME Open(b) PROVE Open(b)'
      OBVIOUS
    <3>1. PICK gone \in Seq(Bytes), eaten \in Seq(Bytes) :
            /\ gone # <<>> => reported
            /\ fed[b] = eaten \o Waiting(b)
            /\ \A more \in Seq(Bytes) :
                 Redact(eaten \o more) = (Said(b) \o gone) \o Redact(pending[b] \o more)
      BY DEF Open
    <3>2. /\ gone # <<>> => reported'
          /\ fed'[b] = eaten \o Waiting(b)'
          /\ \A more \in Seq(Bytes) :
               Redact(eaten \o more) = (Said(b)' \o gone) \o Redact(pending'[b] \o more)
      BY ONLY <2>4, <2>5, <3>1
    <3> QED BY ONLY <3>2 DEF Open
  <2>8. CASE b = Handler
    BY <1>3, <2>1, <2>3, <2>6, <2>8 DEF Kept
  <2>9. CASE b \in Streams
    <3>1. b # Handler /\ reader'[b] = "flushing" /\ reader[b] \in {"reading", "flushing"}
      BY <1>2, <1>3, <2>9 DEF CommandInv, CountInv
    <3> QED BY <2>1, <2>3, <2>6, <2>7, <2>9, <3>1 DEF Kept
  <2> QED BY <2>8, <2>9 DEF Clients
<1>5. KeptInv'
  BY <1>4 DEF KeptInv
<1>6. PathInv'
  BY <1>2, <1>3 DEF PathInv, Output
<1> QED BY <1>1, <1>5, <1>6

-----------------------------------------------------------------------------
(* Where the command is.                                                   *)

\* CommandTypeOK, and what it needs to be inductive.
StateInv ==
  /\ CommandTypeOK
  /\ at \in {"stage", "staging"} \/ (at = "raised" /\ why = "none") =>
       alive = {} /\ holding = {} /\ code = "none" /\ ~seen
  /\ at = "raised" /\ why # "none" => seen
  /\ at \in {"waiting", "grace", "killed", "draining", "returned"} =>
       \A d \in Streams : reader[d] # "off"

\* The first state.
LEMMA InitLog == CommandInit => LogInv /\ StateInv
<1> SUFFICES ASSUME CommandInit PROVE LogInv /\ StateInv
  OBVIOUS
<1> USE DEF CommandInit, WriterInit
<1>1. <<>> \in Seq(Bytes) /\ <<>> \in Seq(Event) /\ DOMAIN <<>> = {} /\ MaxTotal \in Nat
  BY WriterAssumption
<1>2. WriterInv
  <2>1. WriterTypes
    <3>1. [c \in Clients |-> <<>>] \in [Clients -> Seq(Bytes)]
      BY <1>1
    <3>2. [c \in Clients |-> "idle"] \in [Clients -> Phase]
      BY DEF Phase
    <3>3. 0 \in 0 .. MaxTotal
      BY <1>1
    <3> QED BY <1>1, <3>1, <3>2, <3>3 DEF WriterTypes
  <2>2. LockInv /\ LimitInv
    BY <1>1, WriterAssumption DEF LockInv, LimitInv
  <2>3. CleanInv
    BY <1>1, NothingIsClean DEF CleanInv
  <2> QED BY <2>1, <2>2, <2>3 DEF WriterInv
<1>3. Handler \in Clients /\ Handler \notin Streams /\ \A d \in Streams : d \in Clients
  BY WriterAssumption DEF Clients
<1>4. ASSUME NEW b \in Clients PROVE Kept(b)
  <2>1. Log(b) = <<>>
    BY NothingLogged
  <2>2. <<>> \o <<>> = <<>>
    BY <1>1, ConcatEmptySeq
  <2>3. Said(b) = <<>> /\ Waiting(b) = <<>> /\ fed[b] = <<>> /\ pending[b] = <<>>
    BY <2>1, <2>2 DEF Said, Flight, Waiting
  <2>4. Redact(fed[b]) = Said(b) \o <<>>
    BY <2>2, <2>3, RedactNothing
  <2>5. Closed(b)
    BY <1>1, <2>4 DEF Closed
  <2>6. ASSUME NEW more \in Seq(Bytes)
        PROVE  Redact(<<>> \o more) = (Said(b) \o <<>>) \o Redact(pending[b] \o more)
    <3>1. Redact(more) \in Seq(Bytes)
      <4>1. Len(more) \in 0 .. Len(more)
        OBVIOUS
      <4> QED BY <4>1, RedactTypes
    <3>2. <<>> \o more = more /\ <<>> \o Redact(more) = Redact(more)
      BY <3>1, ConcatEmptySeq
    <3> QED BY <2>2, <2>3, <3>2
  <2>7. Open(b)
    <3>1. fed[b] = <<>> \o Waiting(b)
      BY <2>2, <2>3
    <3> QED BY ONLY <1>1, <2>6, <3>1 DEF Open
  <2> QED BY <1>3, <2>5, <2>7 DEF Kept, Clients
<1>5. PathInv
  <2>1. ASSUME NEW d \in Streams PROVE fed[d] = Output(d)
    <3>1. taken[d] = 0 /\ fed[d] = <<>>
      BY <1>3
    <3>2. SubSeq(script[d], 1, 0) = <<>>
      BY SubSeqEmpty
    <3> QED BY <3>1, <3>2 DEF Output
  <2> QED BY <1>3, <2>1 DEF PathInv
<1>6. StateInv
  <2>1. script \in [Streams -> Seq(Bytes)]
    BY CommandAssumption
  <2>2. \A d \in Streams : /\ 0 \in 0 .. Len(script[d]) /\ 0 \in 0 .. 0
                           /\ 0 - 0 =< PipeSize
    BY <2>1, CommandAssumption
  <2>3. CommandTypeOK
    BY <2>2 DEF CommandTypeOK
  <2> QED BY <2>3 DEF StateInv
<1> QED BY <1>2, <1>4, <1>5, <1>6 DEF LogInv, KeptInv

\* The log is kept by every step.
LEMMA LogSteps ==
  ASSUME LogInv, CommandInv, StateInv, [CommandNext]_allVars
  PROVE  LogInv'
<1>1. CASE LogStage
  BY <1>1, LogStageStep
<1>2. CASE Start
  <2>1. /\ UNCHANGED <<writerVars, failed, script, taken>>
        /\ at' = "raised" \/ at' = "waiting"
        /\ \A d \in Streams : reader'[d] = "flushing" <=> reader[d] = "flushing"
    BY <1>2 DEF Start, CommandInv, CountInv, DrainInv
  <2> QED BY <2>1, FrameStep
<1>3. CASE Return
  <2>1. /\ UNCHANGED <<writerVars, failed, script, taken, reader>>
        /\ at' = "raised" \/ at' = "returned"
        /\ \A d \in Streams : phase[d] = "idle"
    BY <1>3 DEF Return, Drained, osVars, readerVars
  <2> QED BY <2>1, FrameStep
<1>4. ASSUME /\ UNCHANGED <<writerVars, failed, script, taken, reader>>
             /\ at' = at \/ at' \in {"draining", "grace", "killed"}
      PROVE  LogInv'
  <2>1. /\ \A d \in Streams : reader'[d] = "flushing" <=> reader[d] = "flushing"
        /\ at' = "stage" => at = "stage"
        /\ at' = "returned" => \A d \in Streams : phase[d] = "idle"
    BY <1>4 DEF LogInv, PathInv
  <2> QED BY <1>4, <2>1, FrameStep
<1>5. CASE Reap \/ Exit \/ Ended \/ Kill \/ RequestCancel
  BY <1>4, <1>5 DEF Reap, Exit, Ended, Kill, RequestCancel, osVars, runVars, readerVars
<1>6. CASE TimeOut \/ CancelSeen \/ CancelTask
  BY <1>4, <1>6 DEF TimeOut, CancelSeen, CancelTask, Terminate, readerVars
<1>7. ASSUME NEW d \in Streams, Emit(d) PROVE LogInv'
  BY <1>4, <1>7 DEF Emit, runVars, readerVars
<1>8. ASSUME NEW m \in Members, End(m) \/ Redirect(m) PROVE LogInv'
  BY <1>4, <1>8 DEF End, Redirect, runVars, readerVars
<1>9. ASSUME NEW d \in Streams, Read(d) \/ EndOfFile(d) PROVE LogInv'
  BY <1>9, WriteStep, ReadUnlogged, EndOfFileStep
<1>10. ASSUME NEW c \in Clients, WriterStep(c) \/ LogFails(c) PROVE LogInv'
  BY <1>10, EnterStep, EnterFlushStep, AppendedStep, LogFailsStep DEF WriterStep
<1>11. CASE CancelReaders
  <2>1. \A d \in Streams : reader[d] # "off"
    BY <1>11 DEF CancelReaders, StateInv
  <2> QED BY <1>11, <2>1, CancelReadersStep
<1>12. CASE UNCHANGED allVars
  BY <1>4, <1>12 DEF allVars, commandVars, osVars, runVars, readerVars
<1> QED BY <1>1, <1>2, <1>3, <1>5, <1>6, <1>7, <1>8, <1>9, <1>10, <1>11, <1>12
        DEF CommandNext

\* The command stays where the code can be.
LEMMA StateSteps ==
  ASSUME CommandInv, StateInv, [CommandNext]_allVars
  PROVE  StateInv'
<1> USE DEF StateInv, CommandTypeOK, CommandInv, osVars, runVars, readerVars, stopVars
<1>1. CASE LogStage
  BY <1>1 DEF LogStage
<1>2. CASE Start
  BY <1>2 DEF Start, Members
<1>3. ASSUME NEW d \in Streams, Emit(d) PROVE StateInv'
  <2>1. /\ printed[d] < Len(script[d]) /\ printed[d] - taken[d] < PipeSize
        /\ printed' = [printed EXCEPT ![d] = printed[d] + 1]
        /\ UNCHANGED <<alive, holding, told, code, script, at, why, seen, taken, reader>>
    BY <1>3 DEF Emit
  <2>2. ASSUME NEW e \in Streams
        PROVE  /\ printed'[e] \in 0 .. Len(script[e]) /\ taken[e] \in 0 .. printed'[e]
               /\ printed'[e] - taken[e] =< PipeSize
    <3>1. /\ printed[e] \in Nat /\ taken[e] \in Nat /\ taken[e] <= printed[e]
          /\ printed[e] <= Len(script[e]) /\ script[e] \in Seq(Bytes) /\ PipeSize \in Nat
          /\ printed[e] - taken[e] =< PipeSize
      BY CommandAssumption DEF CountInv
    <3>2. printed'[e] = IF e = d THEN printed[e] + 1 ELSE printed[e]
      BY <2>1 DEF CountInv
    <3> QED BY <2>1, <3>1, <3>2
  <2> QED BY <2>1, <2>2
<1>4. ASSUME NEW m \in Members, End(m) \/ Redirect(m) PROVE StateInv'
  BY <1>4 DEF End, Redirect, StopInv
<1>5. CASE Reap \/ Exit \/ Ended \/ Return
  BY <1>5 DEF Reap, Exit, Ended, Return, StopInv
<1>6. CASE Kill
  BY <1>6 DEF Kill, StopInv
<1>7. CASE TimeOut \/ CancelSeen \/ CancelTask
  BY <1>7 DEF TimeOut, CancelSeen, CancelTask, Terminate, StopInv
<1>8. ASSUME NEW d \in Streams, Read(d) PROVE StateInv'
  <2> DEFINE last == Min({taken[d] + ReadSize, printed[d]})
  <2>1. /\ taken[d] < printed[d] /\ taken' = [taken EXCEPT ![d] = last]
        /\ UNCHANGED <<alive, holding, told, code, script, at, why, seen, printed, reader>>
    BY <1>8 DEF Read
  <2>2. last \in Nat /\ taken[d] <= last /\ last <= printed[d]
    <3>1. taken[d] \in Nat /\ printed[d] \in Nat /\ ReadSize \in Nat
      BY CommandAssumption DEF CountInv
    <3> QED BY <2>1, <3>1, MinOfTwo
  <2> HIDE DEF last
  <2>3. ASSUME NEW e \in Streams
        PROVE  taken'[e] \in 0 .. printed[e] /\ printed[e] - taken'[e] =< PipeSize
    <3>1. /\ printed[e] \in Nat /\ taken[e] \in Nat /\ taken[e] <= printed[e]
          /\ PipeSize \in Nat /\ printed[e] - taken[e] =< PipeSize
      BY CommandAssumption DEF CountInv
    <3>2. taken'[e] = IF e = d THEN last ELSE taken[e]
      BY <2>1 DEF CountInv
    <3> QED BY <2>2, <3>1, <3>2
  <2> QED BY <2>1, <2>3
<1>9. ASSUME NEW d \in Streams, EndOfFile(d) PROVE StateInv'
  BY <1>9 DEF EndOfFile, CountInv
<1>10. ASSUME NEW c \in Clients, WriterStep(c) \/ LogFails(c) PROVE StateInv'
  BY <1>10 DEF WriterStep, LogFails, commandVars
<1>11. CASE RequestCancel
  BY <1>11 DEF RequestCancel
<1>12. CASE CancelReaders
  BY <1>12 DEF CancelReaders, StopInv
<1>13. CASE UNCHANGED allVars
  BY <1>13 DEF allVars, commandVars
<1> QED BY <1>1, <1>2, <1>3, <1>4, <1>5, <1>6, <1>7, <1>8, <1>9, <1>10, <1>11, <1>12, <1>13
        DEF CommandNext

\* What was said of a client that writes is what it has written, redacted.
LEMMA KeptSaid ==
  ASSUME LogInv, NEW c \in Clients, ~failed[c]
  PROVE  /\ IsPrefix(Log(c), Redact(fed[c]))
         /\ Closed(c) /\ phase[c] = "idle" /\ ~reported => Redact(fed[c]) = Log(c)
<1> USE DEF LogInv
<1>1. Log(c) \in Seq(Bytes) /\ Flight(c) \in Seq(Bytes) /\ Said(c) \in Seq(Bytes)
      /\ Waiting(c) \in Seq(Bytes) /\ Said(c) = Log(c) \o Flight(c)
  BY SaidTypes DEF Said
<1>2. fed[c] \in Seq(Bytes) /\ pending[c] \in Seq(Bytes)
  BY DEF WriterInv, WriterTypes
<1>3. \A v \in Seq(Bytes) : Redact(v) \in Seq(Bytes)
  <2> SUFFICES ASSUME NEW v \in Seq(Bytes) PROVE Redact(v) \in Seq(Bytes)
    OBVIOUS
  <2>1. Len(v) \in 0 .. Len(v)
    OBVIOUS
  <2> QED BY <2>1, RedactTypes
<1>4. ASSUME NEW rest \in Seq(Bytes), Redact(fed[c]) = Said(c) \o rest
      PROVE  IsPrefix(Log(c), Redact(fed[c]))
  <2>1. PICK l, f \in Seq(Bytes) : l = Log(c) /\ f = Flight(c)
    BY <1>1
  <2>2. (l \o f) \o rest = l \o (f \o rest)
    <3>1. \A x \in Seq(Bytes) : (l \o f) \o x = l \o (f \o x)
      BY ONLY Joins
    <3> QED BY ONLY <3>1
  <2>3. PICK t \in Seq(Bytes) : t = f \o rest
    BY ONLY Joins
  <2>4. IsPrefix(l, l \o t)
    BY ONLY PrefixOfWhole
  <2> QED BY <1>1, <1>4, <2>1, <2>2, <2>3, <2>4
<1>5. Closed(c) => IsPrefix(Log(c), Redact(fed[c]))
  BY <1>4 DEF Closed
<1>6. Open(c) => IsPrefix(Log(c), Redact(fed[c]))
  <2> SUFFICES ASSUME Open(c) PROVE IsPrefix(Log(c), Redact(fed[c]))
    OBVIOUS
  <2>1. PICK gone \in Seq(Bytes) :
          Redact(fed[c]) = (Said(c) \o gone) \o Redact(pending[c] \o Waiting(c))
    BY OpenSaid
  <2>2. PICK a, b \in Seq(Bytes) : a = Said(c) /\ b = Redact(pending[c] \o Waiting(c))
    BY <1>1, <1>2, <1>3, Joins
  <2>3. (a \o gone) \o b = a \o (gone \o b)
    <3>1. \A x \in Seq(Bytes) : (a \o gone) \o x = a \o (gone \o x)
      BY ONLY Joins
    <3> QED BY ONLY <3>1
  <2>4. PICK rest \in Seq(Bytes) : rest = gone \o b
    BY ONLY Joins
  <2> QED BY <1>4, <2>1, <2>2, <2>3, <2>4
<1>7. First(c) => IsPrefix(Log(c), Redact(fed[c]))
  <2>1. PICK v \in Seq(Bytes) : v = Redact(fed[c])
    BY <1>2, <1>3
  <2>2. IsPrefix(<<>>, <<>> \o v) /\ <<>> \o v = v
    <3>1. <<>> \in Seq(Bytes)
      OBVIOUS
    <3> QED BY <3>1, PrefixOfWhole, ConcatEmptySeq
  <2> QED BY <2>1, <2>2 DEF First
<1>8. Kept(c)
  BY DEF KeptInv
<1>9. ASSUME Closed(c), phase[c] = "idle", ~reported PROVE Redact(fed[c]) = Log(c)
  <2>1. Redact(fed[c]) = Said(c) \o <<>> /\ Flight(c) = <<>>
    BY <1>9 DEF Closed, Flight
  <2>2. \A x \in Seq(Bytes) : x \o <<>> = x
    BY ConcatEmptySeq
  <2> QED BY <1>1, <2>1, <2>2
<1> QED BY <1>5, <1>6, <1>7, <1>8, <1>9 DEF Kept

\* The log of a command is a masked prefix of its output, complete or marked,
\* while readers, failures and the limit meet in any order (logs.py, process.py
\* _drain).
THEOREM LogStaysSound == CommandSpec => []LogIsSound
<1> DEFINE Inv == LogInv /\ CommandInv /\ StateInv
<1>1. CommandInit => Inv
  BY InitLog, InitCommand
<1>2. Inv /\ [CommandNext]_allVars => Inv'
  BY LogSteps, ReadStep, OtherSteps, StateSteps
<1>3. Inv => LogIsSound
  <2> SUFFICES ASSUME Inv PROVE LogIsSound
    OBVIOUS
  <2>1. WriterTypeOK
    BY DEF LogInv, WriterInv, WriterTypes, LockInv, WriterTypeOK
  <2>2. CommandTypeOK
    BY DEF StateInv
  <2>3. NoticeIsLast
    BY WriterAssumption DEF LogInv, WriterInv, WriterTypes, LimitInv, NoticeIsLast
  <2>4. LogIsRedacted
    BY KeptSaid DEF LogInv, WriterInv, CleanInv, Clean, LogIsRedacted
  <2>5. LogIsWhole
    <3> SUFFICES ASSUME at = "returned", NEW d \in Streams, ~failed[d]
                 PROVE  Log(d) = Redact(Output(d)) \/ (reported /\ written = MaxTotal)
      BY DEF LogIsWhole
    <3>1. d \in Clients /\ d # Handler
      BY WriterAssumption DEF Clients
    <3>2. /\ phase[d] = "idle" /\ reader[d] = "flushing" /\ fed[d] = Output(d)
          /\ reported => written = MaxTotal
      BY DEF LogInv, PathInv, CommandInv, DrainInv, WriterInv, LimitInv
    <3>3. Closed(d)
      BY <3>1, <3>2 DEF LogInv, KeptInv, Kept
    <3> QED BY <3>1, <3>2, <3>3, KeptSaid
  <2> QED BY <2>1, <2>2, <2>3, <2>4, <2>5 DEF LogIsSound
<1> HIDE DEF Inv
<1> QED BY <1>1, <1>2, <1>3, PTL DEF CommandSpec
=============================================================================
