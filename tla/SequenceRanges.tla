--------------------------- MODULE SequenceRanges ---------------------------
(***************************************************************************)
(* Prefixes, ranges and remainders of a sequence: what the proofs about a  *)
(* stream need, whose messages are still to come, or came already.         *)
(***************************************************************************)
EXTENDS Integers, SequenceTheorems, TLAPS

\* A range of a sequence is a sequence of as many elements, the sequence's own.
LEMMA RangeElements ==
  ASSUME NEW S, NEW s \in Seq(S), NEW m \in 1 .. (Len(s) + 1), NEW n \in (m - 1) .. Len(s)
  PROVE  /\ SubSeq(s, m, n) \in Seq(S)
         /\ Len(SubSeq(s, m, n)) = n - m + 1
         /\ \A i \in 1 .. (n - m + 1) : SubSeq(s, m, n)[i] = s[m + i - 1]
<1>1. Len(s) \in Nat /\ m \in Int /\ n \in Int /\ m >= 1 /\ n <= Len(s) /\ m <= n + 1
  BY LenProperties
<1>2. \A i \in m .. n : i \in 1 .. Len(s)
  BY <1>1
<1>3. \A i \in m .. n : s[i] \in S
  BY <1>2, ElementOfSeq
<1>4. /\ SubSeq(s, m, n) \in Seq(S)
      /\ Len(SubSeq(s, m, n)) = IF m <= n THEN n - m + 1 ELSE 0
      /\ \A i \in 1 .. (n - m + 1) : SubSeq(s, m, n)[i] = s[m + i - 1]
  BY <1>1, <1>3, SubSeqProperties
<1>5. (IF m <= n THEN n - m + 1 ELSE 0) = n - m + 1
  BY <1>1
<1> QED
  BY <1>4, <1>5

\* An element appended at the end leaves every prefix as it was and ends every
\* remainder.
LEMMA AppendedRanges ==
  ASSUME NEW S, NEW s \in Seq(S), NEW x \in S, NEW d \in 0 .. Len(s)
  PROVE  /\ SubSeq(Append(s, x), 1, d) = SubSeq(s, 1, d)
         /\ SubSeq(Append(s, x), d + 1, Len(s) + 1) = Append(SubSeq(s, d + 1, Len(s)), x)
<1> DEFINE t == Append(s, x)
<1>1. /\ t \in Seq(S) /\ Len(t) = Len(s) + 1 /\ Len(s) \in Nat
      /\ \A i \in 1 .. Len(s) : t[i] = s[i]
      /\ t[Len(s) + 1] = x
  BY AppendProperties, LenProperties
<1> HIDE DEF t
<1>2. SubSeq(t, 1, d) = SubSeq(s, 1, d)
  <2>1. /\ 1 \in 1 .. (Len(t) + 1) /\ d \in (1 - 1) .. Len(t)
        /\ 1 \in 1 .. (Len(s) + 1) /\ d \in (1 - 1) .. Len(s)
    BY <1>1
  <2>2. /\ SubSeq(t, 1, d) \in Seq(S)
        /\ Len(SubSeq(t, 1, d)) = d - 1 + 1
        /\ \A i \in 1 .. (d - 1 + 1) : SubSeq(t, 1, d)[i] = t[1 + i - 1]
    BY <1>1, <2>1, RangeElements
  <2>3. /\ SubSeq(s, 1, d) \in Seq(S)
        /\ Len(SubSeq(s, 1, d)) = d - 1 + 1
        /\ \A i \in 1 .. (d - 1 + 1) : SubSeq(s, 1, d)[i] = s[1 + i - 1]
    BY <2>1, RangeElements
  <2>4. \A i \in 1 .. (d - 1 + 1) : t[1 + i - 1] = s[1 + i - 1]
    <3>1. \A i \in 1 .. (d - 1 + 1) : 1 + i - 1 \in 1 .. Len(s)
      BY <1>1
    <3> QED
      BY <1>1, <3>1
  <2> QED
    BY <2>2, <2>3, <2>4, SeqEqual
<1>3. SubSeq(t, d + 1, Len(s) + 1) = Append(SubSeq(s, d + 1, Len(s)), x)
  <2> DEFINE r == SubSeq(s, d + 1, Len(s))
             n == Len(s) - d
  <2>1. /\ d + 1 \in 1 .. (Len(t) + 1) /\ Len(s) + 1 \in (d + 1 - 1) .. Len(t)
        /\ d + 1 \in 1 .. (Len(s) + 1) /\ Len(s) \in (d + 1 - 1) .. Len(s)
        /\ n \in Nat /\ Len(s) - (d + 1) + 1 = n /\ Len(s) + 1 - (d + 1) + 1 = n + 1
    BY <1>1
  <2>2. /\ SubSeq(t, d + 1, Len(s) + 1) \in Seq(S)
        /\ Len(SubSeq(t, d + 1, Len(s) + 1)) = n + 1
        /\ \A i \in 1 .. (n + 1) : SubSeq(t, d + 1, Len(s) + 1)[i] = t[d + 1 + i - 1]
    BY <1>1, <2>1, RangeElements
  <2>3. r \in Seq(S) /\ Len(r) = n /\ \A i \in 1 .. n : r[i] = s[d + 1 + i - 1]
    <3>1. /\ r \in Seq(S)
          /\ Len(r) = Len(s) - (d + 1) + 1
          /\ \A i \in 1 .. (Len(s) - (d + 1) + 1) : r[i] = s[d + 1 + i - 1]
      <4> HIDE DEF n
      <4>1. d + 1 \in 1 .. (Len(s) + 1) /\ Len(s) \in (d + 1 - 1) .. Len(s)
        BY <2>1
      <4> QED
        BY <4>1, RangeElements
    <3> QED
      BY <2>1, <3>1
  <2> HIDE DEF r, n
  <2>4. /\ Append(r, x) \in Seq(S) /\ Len(Append(r, x)) = n + 1
        /\ \A i \in 1 .. n : Append(r, x)[i] = r[i]
        /\ Append(r, x)[n + 1] = x
    BY <2>3, AppendProperties
  <2>5. ASSUME NEW i \in 1 .. (n + 1)
        PROVE  t[d + 1 + i - 1] = Append(r, x)[i]
    <3>1. CASE i = n + 1
      <4>1. d + 1 + i - 1 = Len(s) + 1
        BY <1>1, <3>1 DEF n
      <4> QED
        BY <1>1, <2>4, <3>1, <4>1
    <3>2. CASE i # n + 1
      <4>1. i \in 1 .. n /\ d + 1 + i - 1 \in 1 .. Len(s)
        BY <1>1, <2>1, <3>2 DEF n
      <4> QED
        BY <1>1, <2>3, <2>4, <4>1
    <3> QED
      BY <3>1, <3>2
  <2>6. SubSeq(t, d + 1, Len(s) + 1) = Append(r, x)
    BY <2>2, <2>4, <2>5, SeqEqual
  <2> QED
    BY <2>6 DEF r
<1> QED
  BY <1>2, <1>3 DEF t

\* The element behind a prefix ends the next longer one, and begins the remainder.
LEMMA NextElement ==
  ASSUME NEW S, NEW s \in Seq(S), NEW d \in 0 .. (Len(s) - 1)
  PROVE  /\ s[d + 1] \in S
         /\ Append(SubSeq(s, 1, d), s[d + 1]) = SubSeq(s, 1, d + 1)
         /\ SubSeq(s, d + 1, Len(s)) # << >>
         /\ Head(SubSeq(s, d + 1, Len(s))) = s[d + 1]
         /\ Tail(SubSeq(s, d + 1, Len(s))) = SubSeq(s, d + 2, Len(s))
<1> DEFINE p == SubSeq(s, 1, d)
           q == SubSeq(s, 1, d + 1)
           r == SubSeq(s, d + 1, Len(s))
           u == SubSeq(s, d + 2, Len(s))
           n == Len(s) - d
<1>1. /\ Len(s) \in Nat /\ d \in Nat /\ d + 1 \in 1 .. Len(s) /\ n \in Nat /\ n >= 1
      /\ 1 \in 1 .. (Len(s) + 1) /\ d \in (1 - 1) .. Len(s) /\ d + 1 \in (1 - 1) .. Len(s)
      /\ d + 1 \in 1 .. (Len(s) + 1) /\ Len(s) \in (d + 1 - 1) .. Len(s)
      /\ d + 2 \in 1 .. (Len(s) + 1) /\ Len(s) \in (d + 2 - 1) .. Len(s)
      /\ d - 1 + 1 = d /\ d + 1 - 1 + 1 = d + 1
      /\ Len(s) - (d + 1) + 1 = n /\ Len(s) - (d + 2) + 1 = n - 1
  BY LenProperties
<1>2. s[d + 1] \in S
  BY <1>1, ElementOfSeq
<1>3. p \in Seq(S) /\ Len(p) = d /\ \A i \in 1 .. d : p[i] = s[1 + i - 1]
  BY <1>1, RangeElements
<1>4. q \in Seq(S) /\ Len(q) = d + 1 /\ \A i \in 1 .. (d + 1) : q[i] = s[1 + i - 1]
  BY <1>1, RangeElements
<1>5. r \in Seq(S) /\ Len(r) = n /\ \A i \in 1 .. n : r[i] = s[d + 1 + i - 1]
  <2>1. /\ r \in Seq(S)
        /\ Len(r) = Len(s) - (d + 1) + 1
        /\ \A i \in 1 .. (Len(s) - (d + 1) + 1) : r[i] = s[d + 1 + i - 1]
    <3> HIDE DEF n
    <3>1. d + 1 \in 1 .. (Len(s) + 1) /\ Len(s) \in (d + 1 - 1) .. Len(s)
      BY <1>1
    <3> QED
      BY <3>1, RangeElements
  <2> QED
    BY <1>1, <2>1
<1>6. u \in Seq(S) /\ Len(u) = n - 1 /\ \A i \in 1 .. (n - 1) : u[i] = s[d + 2 + i - 1]
  <2>1. /\ u \in Seq(S)
        /\ Len(u) = Len(s) - (d + 2) + 1
        /\ \A i \in 1 .. (Len(s) - (d + 2) + 1) : u[i] = s[d + 2 + i - 1]
    <3> HIDE DEF n
    <3>1. d + 2 \in 1 .. (Len(s) + 1) /\ Len(s) \in (d + 2 - 1) .. Len(s)
      BY <1>1
    <3> QED
      BY <3>1, RangeElements
  <2> QED
    BY <1>1, <2>1
<1> HIDE DEF p, q, r, u, n
<1>7. Append(p, s[d + 1]) = q
  <2>1. /\ Append(p, s[d + 1]) \in Seq(S) /\ Len(Append(p, s[d + 1])) = d + 1
        /\ \A i \in 1 .. d : Append(p, s[d + 1])[i] = p[i]
        /\ Append(p, s[d + 1])[d + 1] = s[d + 1]
    BY <1>2, <1>3, AppendProperties
  <2>2. ASSUME NEW i \in 1 .. (d + 1)
        PROVE  Append(p, s[d + 1])[i] = q[i]
    <3>1. q[i] = s[i]
      <4>1. 1 + i - 1 = i
        OBVIOUS
      <4> QED
        BY <1>4, <4>1
    <3>2. CASE i = d + 1
      BY <2>1, <3>1, <3>2
    <3>3. CASE i # d + 1
      <4>1. i \in 1 .. d /\ 1 + i - 1 = i
        BY <1>1, <3>3
      <4> QED
        BY <1>3, <2>1, <3>1, <4>1
    <3> QED
      BY <3>2, <3>3
  <2> QED
    BY <1>4, <2>1, <2>2, SeqEqual
<1>8. r # << >> /\ Head(r) = s[d + 1]
  <2>1. r # << >>
    BY <1>1, <1>5
  <2>2. 1 \in 1 .. n /\ d + 1 + 1 - 1 = d + 1
    BY <1>1
  <2>3. Head(r) = r[1]
    BY <1>5, <2>1, HeadTailProperties
  <2> QED
    BY <1>5, <2>1, <2>2, <2>3
<1>9. Tail(r) = u
  <2>1. /\ Tail(r) \in Seq(S) /\ Len(Tail(r)) = n - 1
        /\ \A i \in 1 .. Len(Tail(r)) : Tail(r)[i] = r[i + 1]
    BY <1>5, <1>8, HeadTailProperties
  <2>2. ASSUME NEW i \in 1 .. (n - 1)
        PROVE  Tail(r)[i] = u[i]
    <3>1. i + 1 \in 1 .. n /\ d + 1 + (i + 1) - 1 = d + 2 + i - 1
      BY <1>1
    <3> QED
      BY <1>5, <1>6, <2>1, <3>1
  <2> QED
    BY <1>6, <2>1, <2>2, SeqEqual
<1> QED
  BY <1>2, <1>7, <1>8, <1>9 DEF p, q, r, u

=============================================================================
