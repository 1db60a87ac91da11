----------------------------- MODULE PrefixLemmas -----------------------------
(***************************************************************************)
(* Facts about sequences and their prefixes, used by the proofs about the  *)
(* logs and the mailboxes of this system.                                  *)
(***************************************************************************)
EXTENDS SequencesExt, SequenceTheorems, TLAPS

\* A prefix is no longer and agrees event by event.
LEMMA PrefixPointwise ==
    ASSUME NEW S, NEW s \in Seq(S), NEW t \in Seq(S)
    PROVE  IsPrefix(s, t) <=> /\ Len(s) <= Len(t)
                              /\ \A k \in 1 .. Len(s) : s[k] = t[k]
<1>1. ASSUME Len(s) <= Len(t)
      PROVE  /\ SubSeq(s, 1, Len(s)) = s
             /\ SubSeq(t, 1, Len(s)) \in Seq(S)
             /\ Len(SubSeq(t, 1, Len(s))) = Len(s)
             /\ \A k \in 1 .. Len(s) : SubSeq(t, 1, Len(s))[k] = t[k]
  <2>1. SubSeq(s, 1, Len(s)) = s
    BY SubSeqFull
  <2>2. \A k \in 1 .. Len(s) : t[k] \in S
    BY <1>1, ElementOfSeq, LenProperties
  <2>3. Len(s) \in Nat /\ Len(s) \in Int /\ 1 \in Int
    BY LenProperties
  <2> QED
    BY <2>1, <2>2, <2>3, SubSeqProperties, SMT
<1>2. ASSUME Len(s) <= Len(t), SubSeq(s, 1, Len(s)) = SubSeq(t, 1, Len(s))
      PROVE  \A k \in 1 .. Len(s) : s[k] = t[k]
  BY <1>1, <1>2
<1>3. ASSUME Len(s) <= Len(t), \A k \in 1 .. Len(s) : s[k] = t[k]
      PROVE  SubSeq(s, 1, Len(s)) = SubSeq(t, 1, Len(s))
  <2>1. s = SubSeq(t, 1, Len(s))
    BY <1>1, <1>3, SeqEqual
  <2> QED
    BY <2>1, <1>1, <1>3
<1> QED
  BY <1>2, <1>3 DEF IsPrefix

\* A prefix of a prefix is a prefix.
LEMMA PrefixTransitive ==
    ASSUME NEW S, NEW s \in Seq(S), NEW t \in Seq(S), NEW u \in Seq(S),
           IsPrefix(s, t), IsPrefix(t, u)
    PROVE  IsPrefix(s, u)
<1>1. /\ Len(s) <= Len(t) /\ \A k \in 1 .. Len(s) : s[k] = t[k]
      /\ Len(t) <= Len(u) /\ \A k \in 1 .. Len(t) : t[k] = u[k]
  BY PrefixPointwise
<1>2. Len(s) \in Nat /\ Len(t) \in Nat /\ Len(u) \in Nat
  BY LenProperties
<1>3. Len(s) <= Len(u) /\ \A k \in 1 .. Len(s) : s[k] = u[k]
  BY <1>1, <1>2
<1> QED
  BY <1>3, PrefixPointwise

\* A log is a prefix of what appending makes of it.
LEMMA PrefixOfConcat ==
    ASSUME NEW S, NEW s \in Seq(S), NEW t \in Seq(S)
    PROVE  s \o t \in Seq(S) /\ IsPrefix(s, s \o t)
<1>1. /\ s \o t \in Seq(S)
      /\ Len(s \o t) = Len(s) + Len(t)
      /\ \A k \in 1 .. Len(s) + Len(t) :
            (s \o t)[k] = IF k <= Len(s) THEN s[k] ELSE t[k - Len(s)]
  BY ConcatProperties
<1>2. Len(s) \in Nat /\ Len(t) \in Nat
  BY LenProperties
<1>3. Len(s) <= Len(s \o t) /\ \A k \in 1 .. Len(s) : s[k] = (s \o t)[k]
  BY <1>1, <1>2
<1> QED
  BY <1>1, <1>3, PrefixPointwise

\* The first n events of a log are a prefix of length n.
LEMMA PrefixOfSubSeq ==
    ASSUME NEW S, NEW s \in Seq(S), NEW n \in 0 .. Len(s)
    PROVE  /\ SubSeq(s, 1, n) \in Seq(S)
           /\ Len(SubSeq(s, 1, n)) = n
           /\ IsPrefix(SubSeq(s, 1, n), s)
<1>1. Len(s) \in Nat /\ n \in Int /\ n >= 0 /\ n <= Len(s)
  BY LenProperties
<1>2. \A k \in 1 .. n : s[k] \in S
  BY <1>1, ElementOfSeq
<1>3. /\ SubSeq(s, 1, n) \in Seq(S)
      /\ Len(SubSeq(s, 1, n)) = n
      /\ \A k \in 1 .. n : SubSeq(s, 1, n)[k] = s[k]
  BY <1>1, <1>2, SubSeqProperties, SMT
<1> QED
  BY <1>1, <1>3, PrefixPointwise

\* Cutting a log to the length of its prefix gives the prefix.
LEMMA PrefixIsSubSeq ==
    ASSUME NEW S, NEW s \in Seq(S), NEW t \in Seq(S), IsPrefix(s, t)
    PROVE  Len(s) \in 0 .. Len(t) /\ SubSeq(t, 1, Len(s)) = s
BY LenProperties, SubSeqFull DEF IsPrefix

\* The first n events followed by the rest are the log.
LEMMA SubSeqContinues ==
    ASSUME NEW S, NEW s \in Seq(S), NEW n \in 0 .. Len(s)
    PROVE  /\ SubSeq(s, n + 1, Len(s)) \in Seq(S)
           /\ SubSeq(s, 1, n) \o SubSeq(s, n + 1, Len(s)) = s
<1>1. Len(s) \in Nat /\ n \in Int /\ n >= 0 /\ n <= Len(s)
  BY LenProperties
<1>2. \A k \in n + 1 .. Len(s) : s[k] \in S
  BY <1>1, ElementOfSeq
<1>3. SubSeq(s, n + 1, Len(s)) \in Seq(S)
  BY <1>1, <1>2, SubSeqProperties, SMT
<1>4. SubSeq(s, 1, n) \o SubSeq(s, n + 1, Len(s)) = SubSeq(s, 1, Len(s))
  <2>1. /\ 1 \in 1 .. Len(s) + 1
        /\ n \in 1 - 1 .. Len(s)
        /\ Len(s) \in n .. Len(s)
    BY <1>1
  <2> QED
    BY <2>1, ConcatAdjacentSubSeq
<1> QED
  BY <1>3, <1>4, SubSeqFull

\* The empty log is a prefix of every log.
LEMMA EmptyIsPrefix ==
    ASSUME NEW S, NEW s \in Seq(S)
    PROVE  IsPrefix(<<>>, s)
<1>1. SubSeq(s, 1, 0) = <<>> /\ SubSeq(<<>>, 1, 0) = <<>>
  BY SubSeqEmpty
<1>2. Len(<<>>) = 0 /\ Len(s) \in Nat
  BY EmptySeq, LenProperties
<1> QED
  BY <1>1, <1>2 DEF IsPrefix

\* Extending a sequence keeps its first events.
LEMMA SamePrefix ==
    ASSUME NEW S, NEW s \in Seq(S), NEW t \in Seq(S), IsPrefix(s, t),
           NEW n \in 0 .. Len(s)
    PROVE  SubSeq(t, 1, n) = SubSeq(s, 1, n)
<1>1. /\ Len(s) <= Len(t) /\ \A k \in 1 .. Len(s) : s[k] = t[k]
      /\ Len(s) \in Nat /\ Len(t) \in Nat
  BY PrefixPointwise, LenProperties
<1>2. /\ n \in Int /\ 1 \in Int /\ n >= 0
      /\ \A k \in 1 .. n : s[k] \in S /\ t[k] = s[k]
  BY <1>1, ElementOfSeq
<1>3. /\ SubSeq(s, 1, n) \in Seq(S) /\ SubSeq(t, 1, n) \in Seq(S)
      /\ Len(SubSeq(s, 1, n)) = n /\ Len(SubSeq(t, 1, n)) = n
      /\ \A k \in 1 .. n : SubSeq(s, 1, n)[k] = s[k]
      /\ \A k \in 1 .. n : SubSeq(t, 1, n)[k] = t[k]
  BY <1>2, SubSeqProperties, SMT
<1> QED
  BY <1>2, <1>3, SeqEqual

\* Two prefixes of one sequence: the shorter is a prefix of the longer.
LEMMA PrefixesOrdered ==
    ASSUME NEW S, NEW s \in Seq(S), NEW t \in Seq(S), NEW u \in Seq(S),
           IsPrefix(s, u), IsPrefix(t, u), Len(s) <= Len(t)
    PROVE  IsPrefix(s, t)
<1>1. /\ Len(s) <= Len(u) /\ \A k \in 1 .. Len(s) : s[k] = u[k]
      /\ Len(t) <= Len(u) /\ \A k \in 1 .. Len(t) : t[k] = u[k]
  BY PrefixPointwise
<1>2. Len(s) \in Nat /\ Len(t) \in Nat /\ Len(u) \in Nat
  BY LenProperties
<1>3. \A k \in 1 .. Len(s) : s[k] = t[k]
  BY <1>1, <1>2
<1> QED
  BY <1>3, PrefixPointwise

\* RemoveAt leaves out one element and keeps the order of the others.
LEMMA RemoveAtFacts ==
  ASSUME NEW S, NEW s \in Seq(S), NEW i \in 1 .. Len(s)
  PROVE  /\ RemoveAt(s, i) \in Seq(S)
         /\ Len(RemoveAt(s, i)) = Len(s) - 1
         /\ \A m \in 1 .. Len(s) - 1 : RemoveAt(s, i)[m] = IF m < i THEN s[m] ELSE s[m + 1]
<1> DEFINE before == SubSeq(s, 1, i - 1)
           after == SubSeq(s, i + 1, Len(s))
<1>0. Len(s) \in Nat /\ \A j \in 1 .. Len(s) : s[j] \in S BY ElementOfSeq, LenProperties
<1>1. before \in Seq(S) /\ Len(before) = i - 1 /\ \A j \in 1 .. i - 1 : before[j] = s[j]
  <2>1. \A j \in 1 .. i - 1 : s[j] \in S BY <1>0
  <2>2. i - 1 \in Int /\ 1 \in Int BY <1>0
  <2>3. /\ before \in Seq(S)
        /\ Len(before) = IF 1 <= i - 1 THEN i - 1 - 1 + 1 ELSE 0
        /\ \A j \in 1 .. i - 1 - 1 + 1 : before[j] = s[1 + j - 1]
    BY <2>1, <2>2, SubSeqProperties
  <2>4. QED BY <1>0, <2>3
<1>2. /\ after \in Seq(S) /\ Len(after) = Len(s) - i
      /\ \A j \in 1 .. Len(s) - i : after[j] = s[i + j]
  <2>1. \A j \in i + 1 .. Len(s) : s[j] \in S BY <1>0
  <2>2. i + 1 \in Int /\ Len(s) \in Int BY <1>0
  <2>3. /\ after \in Seq(S)
        /\ Len(after) = IF i + 1 <= Len(s) THEN Len(s) - (i + 1) + 1 ELSE 0
        /\ \A j \in 1 .. Len(s) - (i + 1) + 1 : after[j] = s[i + 1 + j - 1]
    BY <2>1, <2>2, SubSeqProperties
  <2>4. QED BY <1>0, <2>3
<1>3. /\ before \o after \in Seq(S) /\ Len(before \o after) = Len(before) + Len(after)
      /\ \A j \in 1 .. Len(before) + Len(after) :
           (before \o after)[j] = IF j <= Len(before) THEN before[j] ELSE after[j - Len(before)]
  BY <1>1, <1>2, ConcatProperties
<1> HIDE DEF before, after
<1>4. RemoveAt(s, i) = before \o after BY DEF RemoveAt, before, after
<1>5. ASSUME NEW m \in 1 .. Len(s) - 1
      PROVE  (before \o after)[m] = IF m < i THEN s[m] ELSE s[m + 1]
  <2>1. CASE m < i BY <1>0, <1>1, <1>2, <1>3, <2>1
  <2>2. CASE ~(m < i)
    <3>1. m - (i - 1) \in 1 .. Len(s) - i /\ i + (m - (i - 1)) = m + 1 BY <1>0, <2>2
    <3>2. (before \o after)[m] = after[m - (i - 1)] BY <1>0, <1>1, <1>2, <1>3, <2>2
    <3>3. QED BY <1>2, <2>2, <3>1, <3>2
  <2>3. QED BY <2>1, <2>2
<1>6. Len(before \o after) = Len(s) - 1
  <2>1. Len(before \o after) = (i - 1) + (Len(s) - i) BY <1>1, <1>2, <1>3
  <2>2. QED BY <1>0, <2>1
<1> DEFINE q == before \o after
<1>7. q \in Seq(S) /\ Len(q) = Len(s) - 1 BY <1>3, <1>6
<1>8. \A m \in 1 .. Len(s) - 1 : q[m] = IF m < i THEN s[m] ELSE s[m + 1] BY <1>5
<1>9. RemoveAt(s, i) = q BY <1>4
<1> HIDE DEF q
<1>10. QED BY <1>7, <1>8, <1>9
=============================================================================
