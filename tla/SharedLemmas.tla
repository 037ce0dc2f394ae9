---------------------------- MODULE SharedLemmas ----------------------------
(***************************************************************************)
(* What several of the modules with theorems rest on: lemmas about         *)
(* sequences and least numbers, in the first part, and about the operators *)
(* of RequestTracker, for any requests, any number of ids and any state of *)
(* the tracker, in the second.  The proofs about the streamer and the      *)
(* wallet, which have no tracker, use the first part only.                 *)
(***************************************************************************)
EXTENDS RequestTracker, SequencesExt, SequenceTheorems, FiniteSetTheorems, WellFoundedInduction,
        TLAPS

-----------------------------------------------------------------------------
(***************************************************************************)
(* Places of sequences that are put together or cut.                       *)
(***************************************************************************)

\* A concatenation has the places of the one and then those of the other.
LEMMA ConcatAt ==
  ASSUME NEW S, NEW s \in Seq(S), NEW t \in Seq(S)
  PROVE  /\ s \o t \in Seq(S) /\ Len(s \o t) = Len(s) + Len(t)
         /\ Len(s) \in Nat /\ Len(t) \in Nat
         /\ \A i \in 1 .. Len(s) : (s \o t)[i] = s[i] /\ s[i] \in S
         /\ \A i \in 1 .. Len(t) : (s \o t)[Len(s) + i] = t[i] /\ t[i] \in S
OBVIOUS

\* Concatenation is associative.
LEMMA Concatenated ==
  ASSUME NEW S, NEW s, NEW t, NEW u, s \in Seq(S), t \in Seq(S), u \in Seq(S)
  PROVE  (s \o t) \o u = s \o (t \o u)
BY ConcatAssociative

\* A sequence that is cut in two has its places in the one or the other.
LEMMA CutAt ==
  ASSUME NEW S, NEW s \in Seq(S), NEW n \in 0 .. Len(s)
  PROVE  /\ SubSeq(s, 1, n) \in Seq(S) /\ Len(SubSeq(s, 1, n)) = n
         /\ \A i \in 1 .. n : SubSeq(s, 1, n)[i] = s[i]
         /\ SubSeq(s, n + 1, Len(s)) \in Seq(S) /\ Len(SubSeq(s, n + 1, Len(s))) = Len(s) - n
         /\ \A i \in 1 .. Len(s) - n : SubSeq(s, n + 1, Len(s))[i] = s[n + i]
         /\ SubSeq(s, 1, n) \o SubSeq(s, n + 1, Len(s)) = s
<1>1. n \in Nat /\ Len(s) \in Nat /\ n <= Len(s)
  OBVIOUS
<1>2. SubSeq(s, 1, n) \in Seq(S) /\ Len(SubSeq(s, 1, n)) = n
  BY <1>1
<1>3. \A i \in 1 .. n : SubSeq(s, 1, n)[i] = s[i]
  BY <1>1
<1>4. SubSeq(s, n + 1, Len(s)) \in Seq(S) /\ Len(SubSeq(s, n + 1, Len(s))) = Len(s) - n
  BY <1>1
<1>5. \A i \in 1 .. Len(s) - n : SubSeq(s, n + 1, Len(s))[i] = s[n + i]
  BY <1>1
<1>6. SubSeq(s, 1, n) \o SubSeq(s, n + 1, Len(s)) = s
  <2> DEFINE a == SubSeq(s, 1, n)
             b == SubSeq(s, n + 1, Len(s))
  <2>1. /\ a \in Seq(S) /\ Len(a) = n /\ \A i \in 1 .. n : a[i] = s[i]
        /\ b \in Seq(S) /\ Len(b) = Len(s) - n /\ \A i \in 1 .. Len(s) - n : b[i] = s[n + i]
    BY <1>2, <1>3, <1>4, <1>5
  <2> HIDE DEF a, b
  <2>2. /\ a \o b \in Seq(S) /\ Len(a \o b) = Len(s)
        /\ \A i \in 1 .. n : (a \o b)[i] = s[i]
        /\ \A i \in 1 .. Len(s) - n : (a \o b)[n + i] = s[n + i]
    BY <1>1, <2>1, ConcatAt
  <2>3. ASSUME NEW i \in 1 .. Len(s) PROVE (a \o b)[i] = s[i]
    <3>1. CASE i <= n
      BY <1>1, <2>2, <3>1
    <3>2. CASE i > n
      <4>1. PICK j \in 1 .. Len(s) - n : i = n + j
        <5>1. i - n \in 1 .. Len(s) - n /\ i = n + (i - n)
          BY <1>1, <3>2
        <5>2. QED
          BY <5>1, Zenon
      <4>2. (a \o b)[n + j] = s[n + j]
        BY <2>2
      <4>3. QED
        BY <4>1, <4>2, Zenon
    <3>3. i <= n \/ i > n
      BY <1>1
    <3>4. QED
      BY <3>1, <3>2, <3>3, Zenon
  <2>4. a \o b = s
    BY <2>2, <2>3, SeqEqual
  <2>5. QED
    BY <2>4 DEF a, b
<1>7. QED
  BY <1>2, <1>3, <1>4, <1>5, <1>6

\* What comes first in a concatenation is a prefix of it.
LEMMA PrefixOfConcat ==
  ASSUME NEW S, NEW s, NEW t, s \in Seq(S), t \in Seq(S)
  PROVE  IsPrefix(s, s \o t)
<1> DEFINE u == s \o t
           n == Len(s)
<1>1. /\ u \in Seq(S) /\ n \in Nat /\ Len(u) \in Nat /\ n <= Len(u)
      /\ \A i \in 1 .. n : u[i] = s[i]
  BY ConcatAt
<1> HIDE DEF u
<1>2. /\ SubSeq(u, 1, n) \in Seq(S) /\ Len(SubSeq(u, 1, n)) = n
      /\ \A i \in 1 .. n : SubSeq(u, 1, n)[i] = s[i]
  BY <1>1, CutAt
<1>3. /\ SubSeq(s, 1, n) \in Seq(S) /\ Len(SubSeq(s, 1, n)) = n
      /\ \A i \in 1 .. n : SubSeq(s, 1, n)[i] = s[i]
  BY <1>1, CutAt
<1>4. SubSeq(s, 1, n) = SubSeq(u, 1, n)
  <2> DEFINE x == SubSeq(s, 1, n)
             y == SubSeq(u, 1, n)
  <2> HIDE DEF x, y, n
  <2>1. x \in Seq(S) /\ y \in Seq(S) /\ Len(x) = Len(y) /\ \A i \in 1 .. Len(x) : x[i] = y[i]
    BY <1>2, <1>3 DEF x, y
  <2>2. x = y
    BY <2>1, SeqEqual
  <2>3. QED
    BY <2>2 DEF x, y
<1>5. QED
  BY <1>1, <1>4, Zenon DEF IsPrefix, u

-----------------------------------------------------------------------------
(***************************************************************************)
(* Sequences of sequences.  What FlattenSeq computes is shown by choosing  *)
(* a shortest counterexample.                                              *)
(***************************************************************************)

\* What FlattenSeq computes on its way.
IsFlattening(f, seqs) ==
  f = [i \in 1 .. Len(seqs) |-> IF i = 1 THEN seqs[i] ELSE f[i - 1] \o seqs[i]]

\* A set of natural numbers that is not empty has a least one.
LEMMA LeastNatural ==
  ASSUME NEW C \in SUBSET Nat, C # {}
  PROVE  \E n \in C : \A m \in C : n <= m
<1>1. PICK n \in C : \A m \in C : ~(<<m, n>> \in OpToRel(<, Nat))
  BY WFMin, NatLessThanWellFounded, Zenon
<1>2. \A m \in C : ~(m < n)
  BY <1>1 DEF OpToRel
<1>3. QED
  BY <1>2

\* Induction over a set of natural numbers.
LEMMA Induction ==
  ASSUME NEW G, 0 \in G, \A n \in Nat : n \in G => n + 1 \in G
  PROVE  \A n \in Nat : n \in G
<1> DEFINE C == {n \in Nat : n \notin G}
<1>1. SUFFICES ASSUME C # {} PROVE FALSE
  OBVIOUS
<1>2. PICK n \in C : \A m \in C : n <= m
  <2>1. C \in SUBSET Nat
    OBVIOUS
  <2>2. QED
    BY <1>1, <2>1, LeastNatural, Zenon
<1>3. n \in Nat /\ n # 0 /\ n \notin G
  OBVIOUS
<1>4. n - 1 \in Nat /\ n - 1 \in C
  BY <1>3
<1>5. QED
  BY <1>2, <1>3, <1>4

\* A flattening of a sequence extends to one of a longer sequence.
LEMMA FlatteningAppended ==
  ASSUME NEW S, NEW s \in Seq(Seq(S)), NEW e \in Seq(S),
         NEW f \in [1 .. Len(s) -> Seq(S)], IsFlattening(f, s)
  PROVE  \E g \in [1 .. Len(s) + 1 -> Seq(S)] : IsFlattening(g, Append(s, e))
<1> DEFINE n == Len(s)
           t == Append(s, e)
           g == [i \in 1 .. n + 1 |-> IF i <= n THEN f[i] ELSE IF n = 0 THEN e ELSE f[n] \o e]
<1>1. /\ n \in Nat /\ Len(t) = n + 1 /\ t[n + 1] = e
      /\ \A i \in 1 .. n : t[i] = s[i]
  OBVIOUS
<1>2. \A i \in 1 .. n : f[i] = IF i = 1 THEN s[i] ELSE f[i - 1] \o s[i]
  BY Zenon DEF IsFlattening
<1>3. \A i \in 1 .. n + 1 : g[i] = IF i = 1 THEN t[i] ELSE g[i - 1] \o t[i]
  <2>1. SUFFICES ASSUME NEW i \in 1 .. n + 1
                 PROVE  g[i] = IF i = 1 THEN t[i] ELSE g[i - 1] \o t[i]
    OBVIOUS
  <2>2. CASE i <= n
    <3>1. i \in 1 .. n /\ g[i] = f[i] /\ t[i] = s[i]
      BY <1>1, <2>2
    <3>2. i # 1 => g[i - 1] = f[i - 1]
      BY <1>1, <2>2
    <3>3. QED
      BY <1>2, <3>1, <3>2
  <2>3. CASE i = n + 1
    BY <1>1, <2>3
  <2>4. QED
    BY <1>1, <2>2, <2>3
<1>4. g \in [1 .. n + 1 -> Seq(S)]
  BY <1>1
<1>5. IsFlattening(g, t)
  BY <1>1, <1>3, <1>4 DEF IsFlattening
<1>6. QED
  BY <1>4, <1>5

\* What a flattening is at each place.
LEMMA FlatteningAt ==
  ASSUME NEW s, NEW f, IsFlattening(f, s), NEW i \in 1 .. Len(s)
  PROVE  f[i] = IF i = 1 THEN s[i] ELSE f[i - 1] \o s[i]
BY Zenon DEF IsFlattening

\* Each sequence of sequences has a flattening: the shortest that had none would
\* be longer by one than one which has.
LEMMA FlatteningExists ==
  ASSUME NEW S, NEW s \in Seq(Seq(S))
  PROVE  \E f \in [1 .. Len(s) -> Seq(S)] : IsFlattening(f, s)
<1> DEFINE Good(t) == \E f \in [1 .. Len(t) -> Seq(S)] : IsFlattening(f, t)
           C == {n \in Nat : \E t \in Seq(Seq(S)) : Len(t) = n /\ ~Good(t)}
<1>1. SUFFICES ASSUME C # {} PROVE FALSE
  BY DEF Good
<1>2. PICK n \in C : \A m \in C : n <= m
  BY <1>1, LeastNatural
<1>3. PICK t \in Seq(Seq(S)) : Len(t) = n /\ ~Good(t)
  OBVIOUS
<1>4. CASE t = <<>>
  <2>1. <<>> \in [1 .. 0 -> Seq(S)] /\ Len(t) = 0
    BY <1>4
  <2>2. IsFlattening(<<>>, t)
    BY <1>4, <2>1 DEF IsFlattening
  <2>3. QED
    BY <1>3, <2>1, <2>2
<1>5. CASE t # <<>>
  <2>1. PICK u \in Seq(Seq(S)), e \in Seq(S) : t = Append(u, e)
    BY <1>5, SequenceEmptyOrAppend
  <2>2. Len(t) = Len(u) + 1 /\ Len(u) \in Nat
    BY <2>1
  <2>3. Good(u)
    <3>1. Len(u) \notin C
      <4>1. ~(n <= Len(u))
        BY <1>3, <2>2
      <4>2. QED
        BY <1>2, <4>1, Zenon
    <3>2. QED
      BY <2>2, <3>1, Zenon
  <2>4. PICK f \in [1 .. Len(u) -> Seq(S)] : IsFlattening(f, u)
    BY <2>3
  <2>5. QED
    BY <1>3, <2>1, <2>2, <2>4, FlatteningAppended, Zenon
<1>6. QED
  BY <1>4, <1>5

\* Flattenings of sequences that begin alike begin alike: there is no first place
\* where they differ.
LEMMA FlatteningsAgree ==
  ASSUME NEW s, NEW t, NEW n \in Nat, Len(s) \in Nat, Len(t) \in Nat, n <= Len(s), n <= Len(t),
         \A i \in 1 .. n : s[i] = t[i],
         NEW f, IsFlattening(f, s), NEW g, IsFlattening(g, t)
  PROVE  \A i \in 1 .. n : f[i] = g[i]
<1> DEFINE C == {i \in 1 .. n : f[i] # g[i]}
<1>1. SUFFICES ASSUME C # {} PROVE FALSE
  OBVIOUS
<1>2. PICK i \in C : \A j \in C : i <= j
  <2>1. C \in SUBSET Nat
    OBVIOUS
  <2>2. QED
    BY <1>1, <2>1, LeastNatural, Zenon
<1>3. /\ f[i] = IF i = 1 THEN s[i] ELSE f[i - 1] \o s[i]
      /\ g[i] = IF i = 1 THEN t[i] ELSE g[i - 1] \o t[i]
  <2>1. i \in 1 .. Len(s) /\ i \in 1 .. Len(t)
    OBVIOUS
  <2>2. QED
    BY <2>1, Zenon DEF IsFlattening
<1>4. i # 1 => f[i - 1] = g[i - 1]
  BY <1>2
<1>5. QED
  BY <1>3, <1>4

\* FlattenSeq is the last place of a flattening.
LEMMA FlattenSeqIs ==
  ASSUME NEW S, NEW s \in Seq(Seq(S)), s # <<>>
  PROVE  \E f \in [1 .. Len(s) -> Seq(S)] : IsFlattening(f, s) /\ FlattenSeq(s) = f[Len(s)]
<1> DEFINE h == CHOOSE f : f = [i \in 1 .. Len(s) |-> IF i = 1 THEN s[i] ELSE f[i - 1] \o s[i]]
<1>1. PICK f \in [1 .. Len(s) -> Seq(S)] : IsFlattening(f, s)
  BY FlatteningExists
<1>2. IsFlattening(h, s)
  BY <1>1, Zenon DEF IsFlattening
<1>3. Len(s) # 0 /\ Len(s) \in Nat
  OBVIOUS
<1>4. FlattenSeq(s) = h[Len(s)]
  BY <1>3, Zenon DEF FlattenSeq
<1>5. \A i \in 1 .. Len(s) : h[i] = f[i]
  <2> HIDE DEF h
  <2>1. QED
  BY <1>1, <1>2, <1>3, FlatteningsAgree
<1>6. h[Len(s)] = f[Len(s)]
  <2>1. Len(s) \in 1 .. Len(s)
    BY <1>3
  <2>2. QED
    BY <1>5, <2>1, Zenon
<1>7. QED
  BY <1>1, <1>4, <1>6, Zenon

\* An empty sequence of sequences is flattened to the empty sequence.
LEMMA FlattenEmpty == FlattenSeq(<<>>) = <<>>
<1>1. Len(<<>>) = 0
  OBVIOUS
<1>2. QED
  BY <1>1, Zenon DEF FlattenSeq

\* A flattened sequence is a sequence.
LEMMA FlattenType ==
  ASSUME NEW S, NEW s \in Seq(Seq(S))
  PROVE  FlattenSeq(s) \in Seq(S)
<1>1. CASE s = <<>>
  <2>1. FlattenSeq(s) = <<>>
    BY <1>1, FlattenEmpty, Zenon
  <2>2. QED
    BY <2>1
<1>2. CASE s # <<>>
  <2>1. PICK f \in [1 .. Len(s) -> Seq(S)] : FlattenSeq(s) = f[Len(s)]
    BY <1>2, FlattenSeqIs, Zenon
  <2>2. Len(s) \in 1 .. Len(s)
    BY <1>2
  <2>3. QED
    BY <2>1, <2>2
<1>3. QED
  BY <1>1, <1>2

\* A flattening of a longer sequence goes on where one of the shorter ends.
LEMMA FlatteningOfPrefix ==
  ASSUME NEW S, NEW s \in Seq(S), NEW e \in S,
         NEW f, IsFlattening(f, Append(s, e)), NEW g, IsFlattening(g, s)
  PROVE  \A i \in 1 .. Len(s) : f[i] = g[i]
<1> DEFINE t == Append(s, e)
           n == Len(s)
<1>1. /\ n \in Nat /\ Len(t) \in Nat /\ n <= Len(t) /\ n <= Len(s) /\ Len(s) \in Nat
      /\ \A i \in 1 .. n : t[i] = s[i]
  OBVIOUS
<1>2. IsFlattening(f, t)
  OBVIOUS
<1> HIDE DEF t, n
<1>3. \A i \in 1 .. n : f[i] = g[i]
  BY <1>1, <1>2, FlatteningsAgree
<1>4. QED
  BY <1>3 DEF n

\* What is appended comes out behind the rest.
LEMMA FlattenAppended ==
  ASSUME NEW S, NEW s \in Seq(Seq(S)), NEW e \in Seq(S)
  PROVE  FlattenSeq(Append(s, e)) = FlattenSeq(s) \o e
<1> DEFINE n == Len(s)
           t == Append(s, e)
<1>1. /\ t \in Seq(Seq(S)) /\ t # <<>> /\ n \in Nat /\ Len(t) = n + 1 /\ t[n + 1] = e
      /\ \A i \in 1 .. n : t[i] = s[i]
  BY AppendProperties
<1>2. PICK f \in [1 .. Len(t) -> Seq(S)] : IsFlattening(f, t) /\ FlattenSeq(t) = f[Len(t)]
  BY <1>1, FlattenSeqIs, Zenon
<1>3. f[n + 1] = IF n = 0 THEN e ELSE f[n] \o e
  <2> HIDE DEF t
  <2>1. n + 1 \in 1 .. Len(t)
    BY <1>1
  <2>2. f[n + 1] = IF n + 1 = 1 THEN t[n + 1] ELSE f[n + 1 - 1] \o t[n + 1]
    BY <1>2, <2>1, FlatteningAt
  <2>3. n + 1 - 1 = n /\ (n + 1 = 1 <=> n = 0)
    BY <1>1
  <2>4. QED
    BY <1>1, <2>2, <2>3
<1>4. CASE s = <<>>
  <2>1. f[n + 1] = e /\ FlattenSeq(s) = <<>>
    <3>1. n = 0
      BY <1>4
    <3>2. FlattenSeq(s) = <<>>
      BY <1>4, FlattenEmpty, Zenon
    <3>3. QED
      BY <1>3, <3>1, <3>2
  <2>2. <<>> \o e = e
    BY ConcatEmptySeq
  <2>3. QED
    BY <1>1, <1>2, <2>1, <2>2
<1>5. CASE s # <<>>
  <2>1. PICK g \in [1 .. n -> Seq(S)] : IsFlattening(g, s) /\ FlattenSeq(s) = g[n]
    BY <1>5, FlattenSeqIs, Zenon
  <2>2. \A i \in 1 .. n : f[i] = g[i]
    <3>1. IsFlattening(f, Append(s, e)) /\ IsFlattening(g, s)
      BY <1>2, <2>1
    <3>2. QED
      BY <3>1, FlatteningOfPrefix
  <2>3. n # 0 /\ n \in 1 .. n
    BY <1>5
  <2>4. f[n + 1] = f[n] \o e
    BY <1>3, <2>3
  <2>5. f[n] = g[n]
    BY <2>2, <2>3
  <2>6. QED
    BY <1>1, <1>2, <2>1, <2>4, <2>5
<1>6. QED
  BY <1>4, <1>5

\* What holds of a concatenation holds of one that is longer by one.
LEMMA FlattenConcatAppended ==
  ASSUME NEW S, NEW s \in Seq(Seq(S)), NEW v \in Seq(Seq(S)), NEW e \in Seq(S),
         FlattenSeq(s \o v) = FlattenSeq(s) \o FlattenSeq(v)
  PROVE  FlattenSeq(s \o Append(v, e)) = FlattenSeq(s) \o FlattenSeq(Append(v, e))
<1>1. s \o Append(v, e) = Append(s \o v, e) /\ s \o v \in Seq(Seq(S))
  OBVIOUS
<1>2. /\ FlattenSeq(s \o Append(v, e)) = FlattenSeq(s \o v) \o e
      /\ FlattenSeq(Append(v, e)) = FlattenSeq(v) \o e
  BY <1>1, FlattenAppended
<1>3. FlattenSeq(s) \in Seq(S) /\ FlattenSeq(v) \in Seq(S)
  BY FlattenType
<1>4. (FlattenSeq(s) \o FlattenSeq(v)) \o e = FlattenSeq(s) \o (FlattenSeq(v) \o e)
  BY <1>3, Concatenated, SMTT(30)
<1>5. QED
  BY <1>2, <1>4

\* Sequences put behind each other come out behind each other.
LEMMA FlattenConcatenated ==
  ASSUME NEW S, NEW s \in Seq(Seq(S)), NEW t \in Seq(Seq(S))
  PROVE  FlattenSeq(s \o t) = FlattenSeq(s) \o FlattenSeq(t)
<1> DEFINE Good(u) == FlattenSeq(s \o u) = FlattenSeq(s) \o FlattenSeq(u)
           C == {n \in Nat : \E u \in Seq(Seq(S)) : Len(u) = n /\ ~Good(u)}
<1>1. SUFFICES ASSUME C # {} PROVE FALSE
  <2>1. Len(t) \in Nat
    OBVIOUS
  <2>2. QED
    BY <2>1
<1>2. PICK n \in C : \A m \in C : n <= m
  <2>1. C \in SUBSET Nat
    OBVIOUS
  <2>2. QED
    BY <1>1, <2>1, LeastNatural, Zenon
<1>3. PICK u \in Seq(Seq(S)) : Len(u) = n /\ ~Good(u)
  OBVIOUS
<1>4. CASE u = <<>>
  <2>1. s \o u = s /\ FlattenSeq(s) \o <<>> = FlattenSeq(s)
    BY <1>4, ConcatEmptySeq, FlattenType
  <2>2. QED
    BY <1>3, <1>4, <2>1, FlattenEmpty
<1>5. CASE u # <<>>
  <2>1. PICK v \in Seq(Seq(S)), e \in Seq(S) : u = Append(v, e)
    BY <1>5, SequenceEmptyOrAppend
  <2>2. Len(u) = Len(v) + 1 /\ Len(v) \in Nat
    BY <2>1
  <2>3. Good(v)
    <3>1. Len(v) \notin C
      <4>1. ~(n <= Len(v))
        BY <1>3, <2>2
      <4>2. QED
        BY <1>2, <4>1, Zenon
    <3>2. QED
      BY <2>2, <3>1, Zenon
  <2>4. Good(Append(v, e))
    BY <2>3, FlattenConcatAppended
  <2>5. QED
    BY <1>3, <2>1, <2>4
<1>6. QED
  BY <1>4, <1>5

\* One sequence comes out as it is.
LEMMA FlattenOne ==
  ASSUME NEW S, NEW e \in Seq(S)
  PROVE  FlattenSeq(<<e>>) = e
<1>1. <<e>> = Append(<<>>, e) /\ <<>> \in Seq(Seq(S)) /\ <<>> \o e = e
  BY ConcatEmptySeq
<1>2. QED
  BY <1>1, FlattenAppended, FlattenEmpty

\* The first one comes out first.
LEMMA FlattenTaken ==
  ASSUME NEW S, NEW s \in Seq(Seq(S)), s # <<>>
  PROVE  FlattenSeq(s) = Head(s) \o FlattenSeq(Tail(s))
<1>1. /\ s = <<Head(s)>> \o Tail(s) /\ <<Head(s)>> \in Seq(Seq(S))
      /\ Tail(s) \in Seq(Seq(S)) /\ Head(s) \in Seq(S)
  OBVIOUS
<1>2. FlattenSeq(<<Head(s)>> \o Tail(s)) = FlattenSeq(<<Head(s)>>) \o FlattenSeq(Tail(s))
  BY <1>1, FlattenConcatenated
<1>3. FlattenSeq(<<Head(s)>>) = Head(s)
  BY <1>1, FlattenOne
<1>4. QED
  BY <1>1, <1>2, <1>3, Zenon

\* A sequence of a finite set has its elements, each once.
LEMMA SetToSeqIs ==
  ASSUME NEW S, IsFiniteSet(S)
  PROVE  /\ SetToSeq(S) \in Seq(S) /\ Range(SetToSeq(S)) = S
         /\ Len(SetToSeq(S)) = Cardinality(S)
<1> DEFINE n == Cardinality(S)
           Good(f) == f \in [1 .. n -> S] /\ IsInjective(f)
           s == SetToSeq(S)
<1>1. n \in Nat /\ ExistsBijection(1 .. n, S)
  BY FS_CardinalityType
<1>2. \E f : Good(f)
  BY <1>1 DEF ExistsBijection, Bijection, Injection, IsInjective
<1>3. s = CHOOSE f \in [1 .. n -> S] : IsInjective(f)
  BY Zenon DEF SetToSeq
<1>4. Good(s)
  <2> HIDE DEF n, s
  <2>1. QED
    BY <1>2, <1>3, Zenon
<1>5. s \in Seq(S) /\ Len(s) = n
  <2> HIDE DEF n, s
  <2>1. QED
    BY <1>1, <1>4
<1>6. Range(s) = S
  <2> HIDE DEF s
  <2>1. s \in Injection(1 .. n, S)
    BY <1>4 DEF Injection, IsInjective
  <2>2. IsFiniteSet(1 .. n) /\ Cardinality(1 .. n) = n
    BY <1>1, FS_Interval
  <2>3. s \in Surjection(1 .. n, S)
    BY <2>1, <2>2, FS_Injection
  <2>4. QED
    BY <1>4, <2>3 DEF Surjection, Range
<1>7. QED
  BY <1>5, <1>6

-----------------------------------------------------------------------------
(***************************************************************************)
(* Arithmetic and batches.                                                 *)
(***************************************************************************)

\* A non-empty set of numbers up to n has a greatest one: the position that
\* Inserted takes exists.
LEMMA MaxOfPositions ==
  ASSUME NEW n \in Nat, NEW S \in SUBSET (1 .. n), S # {}
  PROVE  Max(S) \in S /\ \A y \in S : y <= Max(S)
<1> DEFINE T == {n - x : x \in S}
<1>1. T \subseteq Nat
  <2>1. \A x \in S : n - x \in Nat
    OBVIOUS
  <2>2. QED
    BY <2>1
<1>2. T # {}
  <2>1. PICK x \in S : TRUE
    OBVIOUS
  <2>2. n - x \in T
    OBVIOUS
  <2>3. QED
    BY <2>2
<1>3. PICK t \in T : \A y \in T : ~(<<y, t>> \in OpToRel(<, Nat))
  BY <1>1, <1>2, WFMin, NatLessThanWellFounded, Zenon
<1>4. \A y \in T : ~(y < t)
  BY <1>1, <1>3 DEF OpToRel
<1>5. PICK x \in S : t = n - x
  OBVIOUS
<1>6. \A y \in S : x >= y
  BY <1>4, <1>5
<1>7. QED
  BY <1>6 DEF Max

\* Ids wrap around within Ids.
LEMMA IdInRange ==
  ASSUME NEW a \in Nat
  PROVE  a % IdCount \in Ids
BY TrackerAssumption DEF Ids

\* A batch is a sequence of requests, each of them once.
LEMMA BatchIsSequence ==
  ASSUME NEW U, NEW max \in Nat, NEW b \in Batches(U, max)
  PROVE  /\ b \in Seq(U)
         /\ Len(b) \in 1 .. max
         /\ DOMAIN b = 1 .. Len(b)
         /\ IsInjective(b)
<1>1. PICK n \in 1 .. max : b \in {c \in [1 .. n -> U] : IsInjective(c)}
  BY DEF Batches
<1>2. QED
  BY <1>1

-----------------------------------------------------------------------------
(***************************************************************************)
(* Type correctness.                                                       *)
(***************************************************************************)

\* Dropping handlers leaves every reply channel in one of its states.
LEMMA DroppedType ==
  ASSUME NEW R, reply \in [Req -> Outcomes]
  PROVE  Dropped(R) \in [Req -> Outcomes]
BY DEF Dropped, Outcomes

\* After the inserts every id has a request or none.
LEMMA InsertedType ==
  ASSUME TrackerTypeOK, NEW b \in Seq(Req)
  PROVE  Inserted(b) \in [Ids -> Req \cup {NoReq}]
<1>1. SUFFICES ASSUME NEW i \in Ids, PositionsWithId(b, i) # {}
               PROVE  b[Max(PositionsWithId(b, i))] \in Req
  BY DEF Inserted, TrackerTypeOK
<1>2. PositionsWithId(b, i) \in SUBSET (1 .. Len(b))
  BY DEF PositionsWithId
<1>3. Len(b) \in Nat
  OBVIOUS
<1>4. Max(PositionsWithId(b, i)) \in PositionsWithId(b, i)
  BY <1>1, <1>2, <1>3, MaxOfPositions, Zenon
<1>5. QED
  BY <1>2, <1>4

\* track_request keeps the types and makes well-formed raw requests.
LEMMA TrackRequestType ==
  ASSUME TrackerTypeOK, NEW b \in Seq(Req), TrackRequest(b)
  PROVE  /\ TrackerTypeOK'
         /\ Range(RawRequests(b)) \subseteq RawRequest
<1>1. next_id' \in Ids
  <2>1. next_id + Len(b) \in Nat
    BY TrackerAssumption DEF TrackerTypeOK, Ids
  <2>2. QED
    BY <2>1, IdInRange DEF TrackRequest
<1>2. pending' \in [Ids -> Req \cup {NoReq}]
  BY InsertedType DEF TrackRequest
<1>3. reply' \in [Req -> Outcomes]
  BY DroppedType DEF TrackRequest, TrackerTypeOK
<1>4. Range(RawRequests(b)) \subseteq RawRequest
  <2>1. SUFFICES ASSUME NEW k \in DOMAIN b
                 PROVE  [id |-> IdAt(k), req |-> b[k]] \in RawRequest
    BY DEF RawRequests, Range
  <2>2. IdAt(k) \in Ids
    <3>1. k \in 1 .. Len(b) /\ next_id \in Nat
      BY TrackerAssumption DEF TrackerTypeOK, Ids
    <3>2. next_id + k - 1 \in Nat
      BY <3>1
    <3>3. QED
      BY <3>2, IdInRange DEF IdAt
  <2>3. QED
    BY <2>2 DEF RawRequest
<1>5. QED
  BY <1>1, <1>2, <1>3, <1>4 DEF TrackRequest, TrackerTypeOK

\* The raw requests of a batch are a line.
LEMMA RawRequestsType ==
  ASSUME TrackerTypeOK, NEW b \in Seq(Req)
  PROVE  RawRequests(b) \in Seq(RawRequest) /\ Len(RawRequests(b)) = Len(b)
<1>1. DOMAIN b = 1 .. Len(b) /\ Len(b) \in Nat
  OBVIOUS
<1>2. ASSUME NEW k \in 1 .. Len(b) PROVE [id |-> IdAt(k), req |-> b[k]] \in RawRequest
  <2>1. next_id + k - 1 \in Nat
    BY TrackerAssumption DEF TrackerTypeOK, Ids
  <2>2. QED
    BY <2>1, IdInRange DEF IdAt, RawRequest
<1>3. RawRequests(b) \in [1 .. Len(b) -> RawRequest]
  BY <1>1, <1>2 DEF RawRequests
<1>4. QED
  BY <1>1, <1>3

\* handle_incoming keeps the types.
LEMMA HandleIncomingType ==
  ASSUME TrackerTypeOK, NEW msg \in RawIncoming, HandleIncoming(msg)
  PROVE  TrackerTypeOK'
<1>1. CASE IsKnownResponse(msg) /\ Resolve(msg)
  <2>1. msg \in Response
    BY <1>1 DEF IsKnownResponse, RawIncoming, Notification
  <2>2. pending[msg.id] \in Req
    BY <1>1, <2>1 DEF IsKnownResponse, TrackerTypeOK, Response
  <2>3. Settled(pending[msg.id], msg.result) \in Outcomes
    BY <2>1 DEF Settled, Outcomes, Response
  <2>4. QED
    BY <1>1, <2>1, <2>2, <2>3 DEF Resolve, TrackerTypeOK, Response
<1>2. CASE UNCHANGED trackerVars
  BY <1>2 DEF trackerVars, TrackerTypeOK
<1>3. QED
  BY <1>1, <1>2 DEF HandleIncoming

-----------------------------------------------------------------------------
(***************************************************************************)
(* Ids, as long as they do not wrap around.                                *)
(***************************************************************************)

\* Requests in a row, each of them once, are no more than there are.
LEMMA InjectiveLength ==
  ASSUME IsFiniteSet(Req), NEW s \in Seq(Req), IsInjective(s)
  PROVE  Len(s) <= Cardinality(Req)
<1>1. s \in Injection(1 .. Len(s), Req)
  BY DEF Injection
<1>2. Len(s) \in Nat
  OBVIOUS
<1>3. Cardinality(1 .. Len(s)) <= Cardinality(Req)
  BY <1>1, FS_Injection
<1>4. Cardinality(1 .. Len(s)) = Len(s)
  <2>1. 1 \in Int /\ Len(s) \in Int
    BY <1>2
  <2>2. Cardinality(1 .. Len(s)) = IF 1 > Len(s) THEN 0 ELSE Len(s) - 1 + 1
    BY <2>1, FS_Interval, Zenon
  <2>3. QED
    BY <1>2, <2>2
<1>5. QED
  BY <1>3, <1>4

\* What appending a batch to a log does to its places.
LEMMA LogAppended ==
  ASSUME NEW s \in Seq(Req), NEW b \in Seq(Req)
  PROVE  /\ s \o b \in Seq(Req)
         /\ Len(s \o b) = Len(s) + Len(b)
         /\ \A i \in 1 .. Len(s) : (s \o b)[i] = s[i]
         /\ \A k \in 1 .. Len(b) : (s \o b)[Len(s) + k] = b[k]
         /\ \A j \in 1 .. Len(s) + Len(b) :
              j \in 1 .. Len(s) \/ j - Len(s) \in 1 .. Len(b)
OBVIOUS

\* The requests of a log with a batch of others appended: all of both, each
\* of them once.
LEMMA LogOfOthers ==
  ASSUME NEW s \in Seq(Req), NEW b \in Seq(Req),
         IsInjective(s), IsInjective(b), Range(s) \cap Range(b) = {}
  PROVE  IsInjective(s \o b) /\ Range(s \o b) = Range(s) \cup Range(b)
<1> DEFINE t == s \o b
           n == Len(s)
<1>1. /\ DOMAIN s = 1 .. n /\ DOMAIN b = 1 .. Len(b) /\ DOMAIN t = 1 .. n + Len(b)
      /\ n \in Nat /\ Len(b) \in Nat
  BY LogAppended
<1>2. \A i \in 1 .. n : i \in DOMAIN t /\ t[i] = s[i] /\ s[i] \in Range(s)
  BY <1>1, LogAppended DEF Range
<1>3. \A k \in 1 .. Len(b) : n + k \in DOMAIN t /\ t[n + k] = b[k] /\ b[k] \in Range(b)
  BY <1>1, LogAppended DEF Range
<1>4. \A j \in DOMAIN t : j \in 1 .. n \/ (j - n \in 1 .. Len(b) /\ j = n + (j - n))
  BY <1>1
<1>5. Range(t) = Range(s) \cup Range(b)
  <2>1. Range(t) \subseteq Range(s) \cup Range(b)
    <3>1. SUFFICES ASSUME NEW j \in DOMAIN t PROVE t[j] \in Range(s) \cup Range(b)
      BY DEF Range
    <3>2. QED
      BY <1>2, <1>3, <1>4, <3>1
  <2>2. Range(s) \subseteq Range(t)
    BY <1>1, <1>2 DEF Range
  <2>3. Range(b) \subseteq Range(t)
    <3>1. SUFFICES ASSUME NEW k \in 1 .. Len(b) PROVE b[k] \in Range(t)
      BY <1>1 DEF Range
    <3>2. QED
      BY <1>3, <3>1 DEF Range
  <2>4. QED
    BY <2>1, <2>2, <2>3
<1>6. ASSUME NEW i \in DOMAIN t, NEW j \in DOMAIN t, t[i] = t[j] PROVE i = j
  <2>1. CASE i \in 1 .. n /\ j \in 1 .. n
    BY <1>1, <1>2, <1>6, <2>1 DEF IsInjective
  <2>2. CASE i - n \in 1 .. Len(b) /\ j - n \in 1 .. Len(b) /\ i = n + (i - n) /\ j = n + (j - n)
    <3>1. b[i - n] = b[j - n]
      BY <1>3, <1>6, <2>2
    <3>2. i - n = j - n
      BY <1>1, <2>2, <3>1 DEF IsInjective
    <3>3. QED
      BY <2>2, <3>2
  <2>3. CASE i \in 1 .. n /\ j - n \in 1 .. Len(b) /\ j = n + (j - n)
    BY <1>2, <1>3, <1>6, <2>3
  <2>4. CASE j \in 1 .. n /\ i - n \in 1 .. Len(b) /\ i = n + (i - n)
    BY <1>2, <1>3, <1>6, <2>4
  <2>5. QED
    BY <1>4, <2>1, <2>2, <2>3, <2>4
<1>7. QED
  BY <1>5, <1>6 DEF IsInjective

\* Without wrap-around the ids of a batch are the next ones in order: the
\* places that the batch takes after the n requests tracked before.
LEMMA BatchIds ==
  ASSUME NEW n \in Nat, next_id = n % IdCount,
         NEW b \in Seq(Req), n + Len(b) <= IdCount
  PROVE  /\ \A k \in 1 .. Len(b) : IdAt(k) = n + k - 1
         /\ \A i \in Ids : PositionsWithId(b, i) =
              IF i \in n .. n + Len(b) - 1 THEN {i - n + 1} ELSE {}
<1>1. Len(b) \in Nat /\ IdCount \in Nat \ {0} /\ DOMAIN b = 1 .. Len(b)
  BY TrackerAssumption
<1>2. \A k \in 1 .. Len(b) : IdAt(k) = n + k - 1
  <2>1. SUFFICES ASSUME NEW k \in 1 .. Len(b) PROVE IdAt(k) = n + k - 1
    OBVIOUS
  <2>2. next_id = n
    BY <1>1
  <2>3. n + k - 1 \in Nat /\ n + k - 1 < IdCount
    BY <1>1
  <2>4. QED
    BY <1>1, <2>2, <2>3 DEF IdAt
<1>3. ASSUME NEW i \in Ids
      PROVE  PositionsWithId(b, i) =
               IF i \in n .. n + Len(b) - 1 THEN {i - n + 1} ELSE {}
  <2>1. PositionsWithId(b, i) = {k \in 1 .. Len(b) : n + k - 1 = i}
    BY <1>1, <1>2 DEF PositionsWithId
  <2>2. i \in Nat
    BY <1>1 DEF Ids
  <2>3. QED
    BY <1>1, <2>1, <2>2
<1>4. QED
  BY <1>2, <1>3

\* The next id is the number of requests tracked, once a batch was.
LEMMA NextIdFollows ==
  ASSUME NEW n \in Nat, next_id = n % IdCount,
         NEW b \in Seq(Req), n + Len(b) <= IdCount, TrackRequest(b)
  PROVE  next_id' = (n + Len(b)) % IdCount
<1>1. Len(b) \in Nat /\ IdCount \in Nat \ {0}
  BY TrackerAssumption
<1>2. CASE n < IdCount
  BY <1>1, <1>2 DEF TrackRequest
<1>3. CASE n = IdCount
  BY <1>1, <1>3 DEF TrackRequest
<1>4. QED
  BY <1>1, <1>2, <1>3

\* The slots of those ids get the batch, in order.
LEMMA BatchInserted ==
  ASSUME NEW n \in Nat, next_id = n % IdCount,
         NEW b \in Seq(Req), n + Len(b) <= IdCount
  PROVE  \A i \in Ids : Inserted(b)[i] =
           IF i \in n .. n + Len(b) - 1 THEN b[i - n + 1] ELSE pending[i]
<1>1. SUFFICES ASSUME NEW i \in Ids
               PROVE  Inserted(b)[i] =
                        IF i \in n .. n + Len(b) - 1 THEN b[i - n + 1] ELSE pending[i]
  OBVIOUS
<1>2. CASE i \in n .. n + Len(b) - 1
  <2>1. PositionsWithId(b, i) = {i - n + 1}
    BY <1>2, BatchIds
  <2>2. Max({i - n + 1}) = i - n + 1
    <3>1. i - n + 1 \in Nat /\ {i - n + 1} \in SUBSET (1 .. i - n + 1)
      BY <1>2
    <3>2. Max({i - n + 1}) \in {i - n + 1}
      BY <3>1, MaxOfPositions
    <3>3. QED
      BY <3>2
  <2>3. QED
    BY <1>2, <2>1, <2>2 DEF Inserted
<1>3. CASE i \notin n .. n + Len(b) - 1
  <2>1. PositionsWithId(b, i) = {}
    BY <1>3, BatchIds
  <2>2. QED
    BY <1>3, <2>1 DEF Inserted
<1>4. QED
  BY <1>2, <1>3

\* Those slots are free: no handler is displaced.
LEMMA NothingDisplaced ==
  ASSUME TrackerTypeOK,
         NEW n \in Nat, next_id = n % IdCount,
         NEW b \in Seq(Req), n + Len(b) <= IdCount,
         \A i \in Ids : pending[i] # NoReq => i < n
  PROVE  Displaced(b) = {}
<1>1. Len(b) \in Nat /\ IdCount \in Nat \ {0} /\ DOMAIN b = 1 .. Len(b)
  BY TrackerAssumption
<1>2. DOMAIN Inserted(b) = Ids /\ DOMAIN pending = Ids
  BY DEF Inserted, TrackerTypeOK
<1>3. ASSUME NEW r \in Held PROVE r \in Range(Inserted(b))
  <2>1. PICK i \in Ids : pending[i] = r /\ r # NoReq
    BY <1>2, <1>3 DEF Held, Range
  <2>2. i < n
    BY <2>1
  <2>3. Inserted(b)[i] = r
    <3>1. i \notin n .. n + Len(b) - 1
      BY <1>1, <2>2 DEF Ids
    <3>2. QED
      BY <2>1, <3>1, BatchInserted
  <2>4. QED
    BY <1>2, <2>3 DEF Range
<1>4. ASSUME NEW r \in Range(b) PROVE r \in Range(Inserted(b))
  <2>1. PICK k \in 1 .. Len(b) : b[k] = r
    BY <1>1, <1>4 DEF Range
  <2>2. n + k - 1 \in Ids /\ n + k - 1 \in n .. n + Len(b) - 1
    BY <1>1 DEF Ids
  <2>3. Inserted(b)[n + k - 1] = b[(n + k - 1) - n + 1]
    BY <2>2, BatchInserted
  <2>4. (n + k - 1) - n + 1 = k
    BY <1>1
  <2>5. QED
    BY <1>2, <2>1, <2>2, <2>3, <2>4 DEF Range
<1>5. QED
  BY <1>3, <1>4 DEF Displaced

-----------------------------------------------------------------------------
(***************************************************************************)
(* Where the handlers are, also when ids wrap around.                      *)
(***************************************************************************)

\* The requests of the map are those under its ids.
LEMMA HeldUnderId ==
  ASSUME TrackerTypeOK
  PROVE  /\ Held = {r \in Req : \E i \in Ids : pending[i] = r}
         /\ \A i \in Ids : pending[i] # NoReq => pending[i] \in Held
BY TrackerAssumption DEF Held, Range, TrackerTypeOK

\* The inserts of a batch of other requests leave every handler under at
\* most one id, and the handlers they replace are dropped.
LEMMA TrackRequestOwnership ==
  ASSUME TrackerTypeOK, OneIdEach,
         NEW b \in Seq(Req), IsInjective(b), Range(b) \cap Held = {}, TrackRequest(b)
  PROVE  /\ OneIdEach'
         /\ Held' \subseteq Held \cup Range(b)
         /\ \A r \in Req : reply'[r] =
              IF r \in (Held \cup Range(b)) \ Held' /\ reply[r] = "open"
              THEN "canceled" ELSE reply[r]
<1> DEFINE P(i) == PositionsWithId(b, i)
<1>1. DOMAIN b = 1 .. Len(b) /\ Len(b) \in Nat
  OBVIOUS
<1>2. ASSUME NEW i \in Ids, P(i) # {}
      PROVE  /\ Max(P(i)) \in DOMAIN b /\ IdAt(Max(P(i))) = i
             /\ pending'[i] = b[Max(P(i))] /\ pending'[i] \in Range(b)
  <2>1. P(i) \in SUBSET (1 .. Len(b))
    BY <1>1 DEF PositionsWithId
  <2>2. Max(P(i)) \in P(i)
    BY <1>1, <1>2, <2>1, MaxOfPositions, Zenon
  <2>3. QED
    BY <1>2, <2>2 DEF PositionsWithId, TrackRequest, Inserted, Range
<1>3. ASSUME NEW i \in Ids, P(i) = {} PROVE pending'[i] = pending[i]
  BY <1>3 DEF TrackRequest, Inserted
<1>4. ASSUME NEW i \in Ids, pending[i] # NoReq PROVE pending[i] \in Held
  BY <1>4, HeldUnderId
<1>5. OneIdEach'
  <2>1. SUFFICES ASSUME NEW i \in Ids, NEW j \in Ids,
                        pending'[i] = pending'[j], pending'[i] # NoReq
                 PROVE  i = j
    BY DEF OneIdEach
  <2>2. CASE P(i) = {} /\ P(j) = {}
    BY <1>3, <2>1, <2>2 DEF OneIdEach
  <2>3. CASE P(i) # {} /\ P(j) # {}
    <3>1. b[Max(P(i))] = b[Max(P(j))] /\ Max(P(i)) \in DOMAIN b /\ Max(P(j)) \in DOMAIN b
      BY <1>2, <2>1, <2>3
    <3>2. Max(P(i)) = Max(P(j))
      BY <3>1 DEF IsInjective
    <3>3. QED
      BY <1>2, <2>3, <3>2
  <2>4. CASE (P(i) = {}) # (P(j) = {})
    BY <1>2, <1>3, <1>4, <2>1, <2>4
  <2>5. QED
    BY <2>2, <2>3, <2>4
<1>6. Held' \subseteq Held \cup Range(b)
  <2>1. SUFFICES ASSUME NEW i \in Ids, pending'[i] # NoReq
                 PROVE  pending'[i] \in Held \cup Range(b)
    BY TrackRequestType DEF Held, Range, TrackerTypeOK
  <2>2. QED
    BY <1>2, <1>3, <1>4, <2>1
<1>7. Displaced(b) = (Held \cup Range(b)) \ Held'
  <2>1. NoReq \notin Held /\ NoReq \notin Range(b)
    BY TrackerAssumption DEF Held, Range
  <2>2. Held' = Range(Inserted(b)) \ {NoReq}
    BY DEF Held, TrackRequest
  <2>3. QED
    BY <2>1, <2>2 DEF Displaced
<1>8. QED
  BY <1>5, <1>6, <1>7 DEF TrackRequest, Dropped

\* A message takes at most one handler out of the map and settles its
\* request; it changes no other request.
LEMMA HandleIncomingOwnership ==
  ASSUME TrackerTypeOK, OneIdEach, NEW msg \in RawIncoming, HandleIncoming(msg)
  PROVE  \/ UNCHANGED trackerVars
         \/ \E r \in Held :
              /\ msg \in Response /\ msg.id \in Ids /\ pending[msg.id] = r
              /\ OneIdEach'
              /\ Held' = Held \ {r}
              /\ pending' = [pending EXCEPT ![msg.id] = NoReq]
              /\ reply'[r] # "open"
              /\ \A q \in Req \ {r} : reply'[q] = reply[q] /\ answer'[q] = answer[q]
              /\ answer'[r] \in {answer[r], msg.of}
              /\ UNCHANGED next_id
<1>1. CASE IsKnownResponse(msg) /\ Resolve(msg)
  <2> DEFINE r == pending[msg.id]
  <2>1. msg \in Response /\ msg.id \in Ids
    BY <1>1 DEF IsKnownResponse, RawIncoming, Notification, Response
  <2>2. r \in Req /\ r \in Held
    BY <1>1, <2>1, HeldUnderId DEF IsKnownResponse
  <2>3. pending' = [pending EXCEPT ![msg.id] = NoReq]
    BY <1>1 DEF Resolve
  <2>4. \A i \in Ids : pending'[i] = IF i = msg.id THEN NoReq ELSE pending[i]
    BY <2>3 DEF TrackerTypeOK
  <2>5. OneIdEach'
    BY <2>4 DEF OneIdEach
  <2>6. Held' = Held \ {r}
    <3>1. TrackerTypeOK'
      BY HandleIncomingType
    <3>2. Held' = {q \in Req : \E i \in Ids : pending'[i] = q}
      BY <3>1, TrackerAssumption DEF Held, Range, TrackerTypeOK
    <3>3. ASSUME NEW q \in Held' PROVE q \in Held \ {r}
      <4>1. PICK i \in Ids : pending'[i] = q
        BY <3>2, <3>3
      <4>2. i # msg.id /\ pending[i] = q /\ q # NoReq /\ q \in Req
        BY <2>4, <3>2, <3>3, <4>1, TrackerAssumption
      <4>3. q # r
        BY <2>1, <4>1, <4>2 DEF OneIdEach
      <4>4. QED
        BY <4>2, <4>3, HeldUnderId
    <3>4. ASSUME NEW q \in Held \ {r} PROVE q \in Held'
      <4>1. PICK i \in Ids : pending[i] = q
        BY <3>4, HeldUnderId
      <4>2. pending'[i] = q
        BY <2>4, <3>4, <4>1
      <4>3. QED
        BY <3>2, <3>4, <4>2, HeldUnderId
    <3>5. QED
      BY <3>3, <3>4
  <2>7. reply'[r] # "open" /\ \A q \in Req \ {r} : reply'[q] = reply[q]
    <3>1. Settled(r, msg.result) # "open"
      BY <2>1 DEF Settled, Response
    <3>2. QED
      BY <1>1, <2>2, <3>1 DEF Resolve, TrackerTypeOK
  <2>8. /\ answer'[r] \in {answer[r], msg.of}
        /\ \A q \in Req \ {r} : answer'[q] = answer[q]
        /\ next_id' = next_id
    BY <1>1, <2>2 DEF Resolve, TrackerTypeOK
  <2>9. QED
    BY <2>1, <2>2, <2>3, <2>5, <2>6, <2>7, <2>8
<1>2. CASE UNCHANGED trackerVars
  BY <1>2
<1>3. QED
  BY <1>1, <1>2 DEF HandleIncoming

=============================================================================
