----------------------------- MODULE Redaction -----------------------------
(***************************************************************************)
(* runner/logs.py SecretRedactor and StreamingSecretRedactor as functions  *)
(* on sequences of bytes.  A secret is replaced by three stars; a stream   *)
(* keeps back the end of what it was fed, since a secret may begin there.  *)
(***************************************************************************)
EXTENDS Naturals, Sequences, FiniteSetsExt

CONSTANTS
  Bytes,
  Secrets,  \* the secrets of the task, without empty ones
  Star      \* the byte of the replacement

ASSUME RedactionAssumption ==
  /\ Star \in Bytes
  /\ IsFiniteSet(Secrets)
  /\ Secrets \subseteq Seq(Bytes) \ {<<>>}

Stars == <<Star, Star, Star>>

MaxSecretLength == Max({Len(s) : s \in Secrets} \cup {0})

\* bytes.startswith(secret, position), with positions from 1.
StartsAt(value, s, p) ==
  p + Len(s) - 1 =< Len(value) /\ SubSeq(value, p, p + Len(s) - 1) = s

Matching(value, p) == {s \in Secrets : StartsAt(value, s, p)}

\* The secrets are tried from the longest to the shortest.
Longest(S) == CHOOSE s \in S : \A t \in S : Len(t) =< Len(s)

\* What the byte at a position becomes, with those of a secret that starts
\* there, and the position after them.
Masked(value, p) ==
  IF Matching(value, p) = {} THEN [text |-> <<value[p]>>, next |-> p + 1]
  ELSE [text |-> Stars, next |-> p + Len(Longest(Matching(value, p)))]

\* _redact_prefix from every position: what the bytes up to the limit become,
\* and the first position that was not consumed.
Scan(value, limit) ==
  LET from[p \in 1 .. Len(value) + 1] ==
        IF p > limit THEN [text |-> <<>>, next |-> p]
        ELSE LET here  == Masked(value, p)
                 later == from[here.next]
             IN  [text |-> here.text \o later.text, next |-> later.next]
  IN  from

RedactPrefix(value, limit) == Scan(value, limit)[1]

Redact(value) == RedactPrefix(value, Len(value)).text

\* Mutant of Retained: one byte too few is kept back.
RetainedShort == Max({0, MaxSecretLength - 2})

\* How many bytes feed() keeps back.
Retained == Max({0, MaxSecretLength - 1})

\* feed(): the text that can be written, and what stays pending.
Feed(pending, chunk) ==
  LET value == pending \o chunk
      done  == RedactPrefix(value, Max({0, Len(value) - Retained}))
  IN  [text |-> done.text, rest |-> SubSeq(value, done.next, Len(value))]

\* The secrets that can be masked: one with a star may be shown by the
\* replacement itself.
Maskable == {s \in Secrets : \A i \in DOMAIN s : s[i] # Star}

\* A text shows a secret.
Shows(text, s) == \E p \in DOMAIN text : StartsAt(text, s, p)
=============================================================================
