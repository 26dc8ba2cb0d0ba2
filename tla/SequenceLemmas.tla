--------------------------- MODULE SequenceLemmas ---------------------------
(***************************************************************************)
(* Facts about natural numbers and about sequences that the proofs of      *)
(* other modules rest on: induction, FlattenSeq, and functions applied to  *)
(* every element of a sequence.  Induction is by the least counterexample, *)
(* and what holds by induction is a set, since the induction rules of the  *)
(* library take an operator as a parameter.                                *)
(***************************************************************************)
EXTENDS SequencesExt, SequenceTheorems, FiniteSetTheorems, TLAPS

\* A set of natural numbers that is not empty has a least element.
LEMMA LeastElement ==
    ASSUME NEW S \in SUBSET Nat, S # {}
    PROVE  Min(S) \in S /\ \A x \in S : Min(S) <= x
<1>1. PICK x \in S : \A y \in S : ~ (<<y, x>> \in OpToRel(<, Nat))
  BY NatLessThanWellFounded, WFMin
<1>2. ASSUME NEW y \in S
      PROVE  x <= y
  <2>1. ~ (<<y, x>> \in {ss \in Nat \X Nat : ss[1] < ss[2]})
    BY <1>1 DEF OpToRel
  <2>2. ~ (y < x) /\ x \in Nat /\ y \in Nat
    BY <2>1
  <2> QED
    BY <2>2
<1> QED
  BY <1>1, <1>2 DEF Min

\* Induction up to N: a set that holds 0 and, with any number below N, also
\* the next one.
LEMMA InductionUpTo ==
    ASSUME NEW N \in Nat, NEW P, 0 \in P,
           \A n \in 0..N - 1 : n \in P => n + 1 \in P
    PROVE  \A n \in 0..N : n \in P
<1> DEFINE Bad == {n \in 0..N : n \notin P}
<1> SUFFICES ASSUME Bad # {}
             PROVE  FALSE
  OBVIOUS
<1>1. Bad \in SUBSET Nat
  OBVIOUS
<1>2. PICK m \in Bad : \A x \in Bad : m <= x
  <2> HIDE DEF Bad
  <2> QED
    BY <1>1, LeastElement
<1>3. m \in 0..N /\ m \notin P /\ m # 0
  OBVIOUS
<1>4. m - 1 \in 0..N - 1 /\ m - 1 \notin Bad /\ (m - 1) + 1 = m
  BY <1>2, <1>3
<1>5. m - 1 \in P
  BY <1>4
<1> QED
  BY <1>3, <1>4, <1>5

\* A set of positive numbers without a gap goes up to its size.
LEMMA InitialSegment ==
    ASSUME NEW L \in Nat, NEW A \in SUBSET (1..L), \A n \in A : 1..n \subseteq A
    PROVE  A = 1..Cardinality(A) /\ Cardinality(A) \in 0..L
<1> DEFINE out == (1..L + 1) \ A
<1>1. out \in SUBSET Nat /\ L + 1 \in out
  OBVIOUS
<1>2. PICK m \in out : \A x \in out : m <= x
  <2> HIDE DEF out
  <2> QED
    BY <1>1, LeastElement
<1>3. m \in 1..L + 1 /\ m \notin A
  OBVIOUS
<1>4. \A n \in A : n < m
  BY <1>3
<1>5. \A n \in 1..m - 1 : n \in A
  BY <1>2, <1>3
<1>6. \A n : n \in A <=> n \in 1..m - 1
  <2>1. \A n \in A : n \in 1..m - 1
    BY <1>3, <1>4
  <2> QED
    BY <1>5, <2>1
<1>7. Cardinality(1..m - 1) = m - 1
  BY <1>3, FS_Interval
<1>8. A = 1..m - 1
  BY <1>6
<1> QED
  BY <1>3, <1>7, <1>8
-----------------------------------------------------------------------------
(* FlattenSeq.                                                             *)

\* The equation of the recursive function that FlattenSeq is defined by, on
\* the first n of ss.
Flattens(f, ss, n) ==
    f = [i \in 1..n |-> IF i = 1 THEN ss[i] ELSE f[i - 1] \o ss[i]]

\* A function that satisfies it can be continued by one.
LEMMA FlattensNext ==
    ASSUME NEW ss, NEW n \in Nat, NEW f, Flattens(f, ss, n)
    PROVE  \E g : Flattens(g, ss, n + 1)
<1> DEFINE next == IF n = 0 THEN ss[1] ELSE f[n] \o ss[n + 1]
           g == [i \in 1..n + 1 |-> IF i = n + 1 THEN next ELSE f[i]]
           h == [i \in 1..n + 1 |-> IF i = 1 THEN ss[i] ELSE g[i - 1] \o ss[i]]
<1>1. ASSUME NEW i \in 1..n + 1
      PROVE  g[i] = h[i]
  <2>1. CASE i = n + 1
    BY <2>1
  <2>2. CASE i # n + 1
    <3>1. i \in 1..n /\ g[i] = f[i]
      BY <2>2
    <3>2. f[i] = IF i = 1 THEN ss[i] ELSE f[i - 1] \o ss[i]
      BY <3>1, Zenon DEF Flattens
    <3>3. i # 1 => g[i - 1] = f[i - 1]
      BY <3>1
    <3> QED
      BY <3>1, <3>2, <3>3
  <2> QED
    BY <2>1, <2>2
<1>2. g = h
  <2>1. DOMAIN g = 1..n + 1 /\ DOMAIN h = 1..n + 1
    OBVIOUS
  <2> HIDE DEF next
  <2> QED
    BY <1>1
<1>3. Flattens(g, ss, n + 1)
  <2> HIDE DEF next
  <2> QED
    BY <1>2 DEF Flattens
<1> QED
  BY <1>3

\* For every sequence of sequences there is such a function.
LEMMA FlattensExists ==
    ASSUME NEW ss, NEW N \in Nat
    PROVE  \E f : Flattens(f, ss, N)
<1> DEFINE P == {n \in 0..N : \E f : Flattens(f, ss, n)}
<1>1. 0 \in P
  <2>1. Flattens([i \in 1..0 |-> <<>>], ss, 0)
    BY DEF Flattens
  <2> QED
    BY <2>1
<1>2. \A n \in 0..N - 1 : n \in P => n + 1 \in P
  BY FlattensNext
<1>3. \A n \in 0..N : n \in P
  <2> HIDE DEF P
  <2> QED
    BY <1>1, <1>2, InductionUpTo
<1> QED
  BY <1>3

\* FlattenSeq is the last value of such a function.
LEMMA FlattenIs ==
    ASSUME NEW T, NEW ss \in Seq(T), ss # <<>>
    PROVE  \E f : Flattens(f, ss, Len(ss)) /\ FlattenSeq(ss) = f[Len(ss)]
<1> DEFINE n == Len(ss)
           f == CHOOSE f : f = [i \in 1..n |-> IF i = 1 THEN ss[i] ELSE f[i - 1] \o ss[i]]
<1>1. n \in Nat /\ n # 0
  BY EmptySeq, LenProperties
<1>2. \E g : Flattens(g, ss, n)
  <2> HIDE DEF n
  <2> QED
    BY <1>1, FlattensExists
<1>3. Flattens(f, ss, n)
  <2> HIDE DEF n
  <2> QED
    BY <1>2, Zenon DEF Flattens
<1>4. FlattenSeq(ss) = f[n]
  BY <1>1, Zenon DEF FlattenSeq
<1> HIDE DEF f
<1> QED
  BY <1>3, <1>4

\* Nothing put together is nothing.
LEMMA FlattenEmpty == FlattenSeq(<<>>) = <<>>
BY DEF FlattenSeq

\* Flattening goes from the left to the right.
LEMMA FlattenAppend ==
    ASSUME NEW T, NEW ss \in Seq(Seq(T)), NEW s \in Seq(T)
    PROVE  FlattenSeq(Append(ss, s)) = IF ss = <<>> THEN s ELSE FlattenSeq(ss) \o s
<1> DEFINE tt == Append(ss, s)
           n == Len(ss)
<1>1. /\ tt \in Seq(Seq(T)) /\ tt # <<>> /\ Len(tt) = n + 1 /\ n \in Nat
      /\ \A i \in 1..n : tt[i] = ss[i]
      /\ tt[n + 1] = s
  BY AppendProperties, LenProperties
<1> HIDE DEF tt
<1>2. PICK g : Flattens(g, tt, n + 1) /\ FlattenSeq(tt) = g[n + 1]
  BY <1>1, FlattenIs
<1>3. CASE ss = <<>>
  <2>1. n = 0
    BY <1>3
  <2>2. g = [i \in 1..1 |-> IF i = 1 THEN tt[i] ELSE g[i - 1] \o tt[i]]
    BY <1>2, <2>1 DEF Flattens
  <2>3. g[1] = tt[1]
    <3>1. 1 \in 1..1
      OBVIOUS
    <3> QED
      BY <2>2, <3>1, Zenon
  <2> QED
    BY <1>1, <1>2, <1>3, <2>1, <2>3 DEF tt
<1>4. CASE ss # <<>>
  <2>1. PICK f : Flattens(f, ss, n) /\ FlattenSeq(ss) = f[n]
    BY <1>4, FlattenIs
  <2>2. n # 0
    BY <1>4, EmptySeq
  <2> HIDE DEF n
  <2>3. \A i \in 1..n : f[i] = g[i]
    <3> DEFINE P == {i \in 0..n : i = 0 \/ f[i] = g[i]}
    <3>1. 0 \in P
      BY <1>1
    <3>2. ASSUME NEW i \in 0..n - 1, i \in P
          PROVE  i + 1 \in P
      <4> DEFINE j == i + 1
      <4>1. /\ j \in 0..n /\ j \in 1..n /\ j \in 1..n + 1
            /\ j - 1 = i /\ (j = 1 <=> i = 0) /\ ss[j] = tt[j]
        BY <1>1
      <4> HIDE DEF j
      <4>2. f[j] = IF j = 1 THEN ss[j] ELSE f[j - 1] \o ss[j]
        BY <2>1, <4>1, Zenon DEF Flattens
      <4>3. g[j] = IF j = 1 THEN tt[j] ELSE g[j - 1] \o tt[j]
        BY <1>2, <4>1, Zenon DEF Flattens
      <4>4. i # 0 => f[i] = g[i]
        BY <3>2
      <4>5. f[j] = g[j]
        BY <4>1, <4>2, <4>3, <4>4
      <4> QED
        BY <4>1, <4>5 DEF j
    <3>3. \A i \in 0..n : i \in P
      <4> HIDE DEF P
      <4> QED
        BY <1>1, <3>1, <3>2, InductionUpTo
    <3> QED
      BY <3>3
  <2>4. n + 1 \in 1..n + 1 /\ n + 1 # 1 /\ (n + 1) - 1 = n /\ n \in 1..n
    BY <1>1, <2>2
  <2>5. g[n + 1] = IF n + 1 = 1 THEN tt[n + 1] ELSE g[(n + 1) - 1] \o tt[n + 1]
    BY <1>2, <2>4, Zenon DEF Flattens
  <2>6. g[n + 1] = f[n] \o s
    BY <1>1, <2>3, <2>4, <2>5
  <2> QED
    BY <1>2, <1>4, <2>1, <2>6 DEF tt
<1> QED
  BY <1>3, <1>4

\* The same with the empty case folded in.
LEMMA FlattenOne ==
    ASSUME NEW T, NEW ss \in Seq(Seq(T)), NEW s \in Seq(T)
    PROVE  FlattenSeq(Append(ss, s)) = FlattenSeq(ss) \o s
<1>1. <<>> \o s = s
  BY ConcatEmptySeq
<1> QED
  BY <1>1, FlattenAppend, FlattenEmpty

\* The first elements of a sequence, and one more.
LEMMA PrefixNext ==
    ASSUME NEW T, NEW s \in Seq(T), NEW k \in 0..Len(s) - 1
    PROVE  /\ [i \in 1..k |-> s[i]] \in Seq(T) /\ s[k + 1] \in T
           /\ [i \in 1..k + 1 |-> s[i]] = Append([i \in 1..k |-> s[i]], s[k + 1])
<1>1. /\ k \in Nat /\ \A i \in 1..k + 1 : i \in 1..Len(s) /\ s[i] \in T
  BY LenProperties
<1> DEFINE p == [i \in 1..k |-> s[i]]
           q == [i \in 1..k + 1 |-> s[i]]
<1>2. p \in Seq(T) /\ Len(p) = k /\ q \in Seq(T) /\ Len(q) = k + 1 /\ s[k + 1] \in T
  BY <1>1
<1>3. /\ Append(p, s[k + 1]) \in Seq(T) /\ Len(Append(p, s[k + 1])) = k + 1
      /\ \A i \in 1..k : Append(p, s[k + 1])[i] = p[i]
      /\ Append(p, s[k + 1])[k + 1] = s[k + 1]
  <2> HIDE DEF p
  <2> QED
    BY <1>2, AppendProperties
<1>4. \A i \in 1..k + 1 : q[i] = Append(p, s[k + 1])[i]
  BY <1>1, <1>3
<1>5. q = Append(p, s[k + 1])
  <2> DEFINE r == Append(p, s[k + 1])
  <2>1. r \in Seq(T) /\ q \in Seq(T) /\ Len(q) = Len(r) /\ \A i \in 1..Len(q) : q[i] = r[i]
    BY <1>2, <1>3, <1>4
  <2> HIDE DEF q, r
  <2>2. q = r
    BY <2>1, SeqEqual
  <2> QED
    BY <2>2 DEF r
<1> QED
  BY <1>2, <1>5

\* Appending to the second part is appending to the whole.
LEMMA ConcatAppend ==
    ASSUME NEW T, NEW s \in Seq(T), NEW t \in Seq(T), NEW e \in T
    PROVE  s \o t \in Seq(T) /\ s \o Append(t, e) = Append(s \o t, e)
<1>1. /\ s \o t \in Seq(T)
      /\ Append(t, e) = t \o <<e>> /\ Append(s \o t, e) = (s \o t) \o <<e>> /\ <<e>> \in Seq(T)
  BY ConcatProperties, AppendIsConcat
<1> QED
  BY <1>1, ConcatAssociative

\* What comes of sequences over T is a sequence over T.
LEMMA FlattenType ==
    ASSUME NEW T, NEW ss \in Seq(Seq(T))
    PROVE  FlattenSeq(ss) \in Seq(T)
<1> DEFINE n == Len(ss)
           Prefix(k) == [i \in 1..k |-> ss[i]]
           P == {k \in 0..n : FlattenSeq(Prefix(k)) \in Seq(T)}
<1>1. n \in Nat /\ Prefix(n) = ss /\ Prefix(0) = <<>>
  BY LenProperties
<1>2. 0 \in P
  <2>1. 0 \in 0..n /\ <<>> \in Seq(T)
    BY <1>1
  <2> HIDE DEF Prefix
  <2> QED
    BY <1>1, <2>1, FlattenEmpty
<1>3. ASSUME NEW k \in 0..n - 1, k \in P
      PROVE  k + 1 \in P
  <2>1. /\ Prefix(k) \in Seq(Seq(T)) /\ ss[k + 1] \in Seq(T)
        /\ Prefix(k + 1) = Append(Prefix(k), ss[k + 1])
    BY PrefixNext
  <2>2. FlattenSeq(Prefix(k)) \in Seq(T)
    BY <1>3
  <2> HIDE DEF Prefix
  <2>3. FlattenSeq(Prefix(k + 1)) = FlattenSeq(Prefix(k)) \o ss[k + 1]
    BY <2>1, FlattenOne
  <2>4. FlattenSeq(Prefix(k + 1)) \in Seq(T)
    BY <2>1, <2>2, <2>3, ConcatProperties
  <2> QED
    BY <2>4
<1>4. n \in P
  <2> HIDE DEF P
  <2>1. \A k \in 0..n : k \in P
    BY <1>1, <1>2, <1>3, InductionUpTo
  <2> QED
    BY <1>1, <2>1
<1> QED
  BY <1>1, <1>4

\* Two halves may be flattened one by one.
LEMMA FlattenConcat ==
    ASSUME NEW T, NEW ss \in Seq(Seq(T)), NEW tt \in Seq(Seq(T))
    PROVE  FlattenSeq(ss \o tt) = FlattenSeq(ss) \o FlattenSeq(tt)
<1> DEFINE n == Len(tt)
           Prefix(k) == [i \in 1..k |-> tt[i]]
           P == {k \in 0..n : FlattenSeq(ss \o Prefix(k)) = FlattenSeq(ss) \o FlattenSeq(Prefix(k))}
<1>0. FlattenSeq(ss) \in Seq(T)
  BY FlattenType
<1>1. n \in Nat /\ Prefix(n) = tt /\ Prefix(0) = <<>>
  BY LenProperties
<1>2. 0 \in P
  <2>1. ss \o <<>> = ss /\ FlattenSeq(ss) \o <<>> = FlattenSeq(ss) /\ 0 \in 0..n
    BY <1>0, <1>1, ConcatEmptySeq
  <2> HIDE DEF Prefix, n
  <2> QED
    BY <1>1, <2>1, FlattenEmpty
<1>3. ASSUME NEW k \in 0..n - 1, k \in P
      PROVE  k + 1 \in P
  <2> DEFINE p == Prefix(k)
             t == tt[k + 1]
  <2>1. p \in Seq(Seq(T)) /\ t \in Seq(T) /\ Prefix(k + 1) = Append(p, t)
    BY PrefixNext
  <2>2. FlattenSeq(ss \o p) = FlattenSeq(ss) \o FlattenSeq(p)
    BY <1>3
  <2>3. k + 1 \in 0..n
    OBVIOUS
  <2> HIDE DEF Prefix, p, t
  <2>4. p \in Seq(Seq(T)) /\ t \in Seq(T)
    BY <2>1
  <2>5. ss \o Append(p, t) = Append(ss \o p, t) /\ ss \o p \in Seq(Seq(T))
    <3> DEFINE U == Seq(T)
    <3>1. ss \in Seq(U) /\ p \in Seq(U) /\ t \in U
      BY <2>4
    <3> HIDE DEF U
    <3>2. ss \o Append(p, t) = Append(ss \o p, t) /\ ss \o p \in Seq(U)
      BY <3>1, ConcatAppend
    <3> QED
      BY <3>2 DEF U
  <2>6. /\ FlattenSeq(Append(ss \o p, t)) = FlattenSeq(ss \o p) \o t
        /\ FlattenSeq(Append(p, t)) = FlattenSeq(p) \o t
    BY <2>1, <2>5, FlattenOne
  <2>7. FlattenSeq(p) \in Seq(T)
    BY <2>1, FlattenType
  <2>9. (FlattenSeq(ss) \o FlattenSeq(p)) \o t = FlattenSeq(ss) \o (FlattenSeq(p) \o t)
    <3> DEFINE a == FlattenSeq(ss)
               b == FlattenSeq(p)
    <3>1. a \in Seq(T) /\ b \in Seq(T) /\ t \in Seq(T)
      BY <1>0, <2>4, <2>7
    <3> HIDE DEF a, b
    <3>2. (a \o b) \o t = a \o (b \o t)
      BY <3>1, ConcatAssociative, SMTT(30)
    <3> QED
      BY <3>2 DEF a, b
  <2>8. FlattenSeq(ss \o Prefix(k + 1)) = FlattenSeq(ss) \o FlattenSeq(Prefix(k + 1))
    BY <2>1, <2>2, <2>5, <2>6, <2>9
  <2> QED
    BY <2>3, <2>8
<1>4. n \in P
  <2> HIDE DEF P
  <2>1. \A k \in 0..n : k \in P
    BY <1>1, <1>2, <1>3, InductionUpTo
  <2> QED
    BY <1>1, <2>1
<1> QED
  BY <1>1, <1>4
-----------------------------------------------------------------------------
\* Induction over sequences: a set that holds the empty one and, with any
\* sequence, also every one that is longer by one.
LEMMA SequenceInduction ==
    ASSUME NEW T, NEW P, <<>> \in P,
           \A s \in Seq(T), x \in T : s \in P => Append(s, x) \in P
    PROVE  \A s \in Seq(T) : s \in P
<1> SUFFICES ASSUME NEW s \in Seq(T)
             PROVE  s \in P
  OBVIOUS
<1> DEFINE n == Len(s)
           Prefix(k) == [i \in 1..k |-> s[i]]
           Q == {k \in 0..n : Prefix(k) \in P}
<1>1. n \in Nat /\ Prefix(n) = s /\ Prefix(0) = <<>>
  BY LenProperties
<1>2. 0 \in Q
  BY <1>1
<1>3. ASSUME NEW k \in 0..n - 1, k \in Q
      PROVE  k + 1 \in Q
  <2>1. /\ Prefix(k) \in Seq(T) /\ s[k + 1] \in T
        /\ Prefix(k + 1) = Append(Prefix(k), s[k + 1])
    BY PrefixNext
  <2>2. Prefix(k) \in P /\ k + 1 \in 0..n
    BY <1>3
  <2> HIDE DEF Prefix, n
  <2>3. Prefix(k + 1) \in P
    BY <2>1, <2>2
  <2> QED
    BY <2>2, <2>3
<1>4. n \in Q
  <2> HIDE DEF Q
  <2>1. \A k \in 0..n : k \in Q
    BY <1>1, <1>2, <1>3, InductionUpTo
  <2> QED
    BY <1>1, <2>1
<1> QED
  BY <1>1, <1>4
-----------------------------------------------------------------------------
(* A function applied to every element of a sequence, and the sequences it *)
(* returns put together.                                                   *)

\* f takes T to U.
Maps(T, U, f) == \A x \in T : f[x] \in U

Mapped(f, s) == [i \in 1..Len(s) |-> f[s[i]]]

Spread(f, s) == FlattenSeq(Mapped(f, s))

\* Mapping keeps the length, and its result has the function's range.
LEMMA MappedType ==
    ASSUME NEW T, NEW U, NEW f, Maps(T, U, f), NEW s \in Seq(T)
    PROVE  Mapped(f, s) \in Seq(U) /\ Len(Mapped(f, s)) = Len(s)
<1> DEFINE n == Len(s)
           m == [i \in 1..n |-> f[s[i]]]
<1>1. n \in Nat /\ \A i \in 1..n : s[i] \in T
  BY LenProperties
<1>2. \A i \in 1..n : f[s[i]] \in U
  BY <1>1 DEF Maps
<1>3. m \in Seq(U) /\ Len(m) = n
  <2> HIDE DEF n
  <2> QED
    BY <1>1, <1>2
<1> QED
  BY <1>1, <1>3 DEF Mapped

\* Mapping goes from the left to the right.
LEMMA MappedAppend ==
    ASSUME NEW T, NEW U, NEW f, Maps(T, U, f),
           NEW s \in Seq(T), NEW x \in T
    PROVE  Mapped(f, Append(s, x)) = Append(Mapped(f, s), f[x])
<1> DEFINE a == Append(s, x)
           l == Mapped(f, a)
           m == Mapped(f, s)
           r == Append(m, f[x])
           n == Len(s)
<1>1. /\ a \in Seq(T) /\ Len(a) = n + 1 /\ n \in Nat
      /\ \A i \in 1..n : a[i] = s[i]
      /\ a[n + 1] = x
  BY AppendProperties, LenProperties
<1>2. m \in Seq(U) /\ Len(m) = n /\ \A i \in 1..n : m[i] = f[s[i]]
  <2>1. m \in Seq(U) /\ Len(m) = n
    BY MappedType
  <2>2. \A i \in 1..n : m[i] = f[s[i]]
    BY DEF Mapped
  <2> QED
    BY <2>1, <2>2
<1>7. f[x] \in U
  BY DEF Maps
<1> HIDE DEF a, m
<1>3. l \in Seq(U) /\ Len(l) = n + 1 /\ \A i \in 1..n + 1 : l[i] = f[a[i]]
  <2> HIDE DEF n
  <2>1. l \in Seq(U) /\ Len(l) = Len(a) /\ \A i \in 1..Len(a) : l[i] = f[a[i]]
    <3>1. l \in Seq(U) /\ Len(l) = Len(a)
      BY <1>1, MappedType
    <3>2. \A i \in 1..Len(a) : l[i] = f[a[i]]
      BY DEF Mapped
    <3> QED
      BY <3>1, <3>2
  <2> HIDE DEF l
  <2> QED
    BY <1>1, <2>1
<1> HIDE DEF n
<1>4. /\ r \in Seq(U) /\ Len(r) = n + 1
      /\ \A i \in 1..n : r[i] = m[i]
      /\ r[n + 1] = f[x]
  BY <1>2, <1>7, AppendProperties
<1>5. \A i \in 1..n + 1 : l[i] = r[i]
  BY <1>1, <1>2, <1>3, <1>4
<1>6. l = r
  <2> HIDE DEF l, r
  <2> QED
    BY <1>3, <1>4, <1>5, SeqEqual
<1> QED
  BY <1>6 DEF a, m

\* Nothing is mapped to nothing.
LEMMA MappedEmpty ==
    ASSUME NEW f
    PROVE  Mapped(f, <<>>) = <<>>
BY DEF Mapped

\* What is put together of sequences over U is a sequence over U.
LEMMA SpreadType ==
    ASSUME NEW T, NEW U, NEW f, Maps(T, Seq(U), f), NEW s \in Seq(T)
    PROVE  Spread(f, s) \in Seq(U)
<1> DEFINE W == Seq(U)
           m == Mapped(f, s)
<1>1. m \in Seq(W)
  <2>1. Maps(T, W, f)
    OBVIOUS
  <2> HIDE DEF W
  <2> QED
    BY <2>1, MappedType
<1>2. m \in Seq(Seq(U))
  BY <1>1
<1> HIDE DEF m
<1>3. FlattenSeq(m) \in Seq(U)
  BY <1>2, FlattenType
<1> QED
  BY <1>3 DEF Spread, m

\* Nothing is spread to nothing.
LEMMA SpreadEmpty ==
    ASSUME NEW f
    PROVE  Spread(f, <<>>) = <<>>
BY MappedEmpty, FlattenEmpty DEF Spread

\* Spreading goes from the left to the right.
LEMMA SpreadAppend ==
    ASSUME NEW T, NEW U, NEW f, Maps(T, Seq(U), f),
           NEW s \in Seq(T), NEW x \in T
    PROVE  Spread(f, Append(s, x)) = Spread(f, s) \o f[x]
<1> DEFINE W == Seq(U)
           m == Mapped(f, s)
           e == f[x]
<1>1. m \in Seq(W) /\ Mapped(f, Append(s, x)) = Append(m, e)
  <2>1. Maps(T, W, f)
    OBVIOUS
  <2> HIDE DEF W
  <2>2. m \in Seq(W)
    BY <2>1, MappedType
  <2>3. Mapped(f, Append(s, x)) = Append(m, e)
    BY <2>1, MappedAppend
  <2> QED
    BY <2>2, <2>3
<1>2. m \in Seq(Seq(U)) /\ e \in Seq(U)
  BY <1>1 DEF Maps
<1> HIDE DEF m, e
<1>3. FlattenSeq(Append(m, e)) = FlattenSeq(m) \o e
  BY <1>2, FlattenOne
<1> QED
  BY <1>1, <1>3 DEF Spread, m, e

\* Spreading one element.
LEMMA SpreadOne ==
    ASSUME NEW T, NEW U, NEW f, Maps(T, Seq(U), f), NEW x \in T
    PROVE  Spread(f, <<x>>) = f[x] /\ Spread(f, <<x>>) \in Seq(U)
<1> DEFINE none == <<>>
<1>1. <<x>> = Append(none, x) /\ none \in Seq(T) /\ f[x] \in Seq(U)
  BY EmptySeq DEF Maps
<1>2. Spread(f, none) = none /\ none \o f[x] = f[x]
  BY <1>1, SpreadEmpty, ConcatEmptySeq
<1> HIDE DEF none
<1>3. Spread(f, Append(none, x)) = Spread(f, none) \o f[x]
  BY <1>1, SpreadAppend
<1> QED
  BY <1>1, <1>2, <1>3

\* Nothing comes of a sequence exactly if nothing comes of its elements.
LEMMA SpreadIsEmpty ==
    ASSUME NEW T, NEW U, NEW f, Maps(T, Seq(U), f)
    PROVE  \A s \in Seq(T) : Spread(f, s) = <<>> <=> \A i \in 1..Len(s) : f[s[i]] = <<>>
<1> DEFINE P == {s \in Seq(T) : Spread(f, s) = <<>> <=> \A i \in 1..Len(s) : f[s[i]] = <<>>}
<1>1. <<>> \in P
  BY SpreadEmpty
<1>2. ASSUME NEW s \in Seq(T), NEW x \in T, s \in P
      PROVE  Append(s, x) \in P
  <2> DEFINE a == Append(s, x)
             n == Len(s)
  <2>1. /\ a \in Seq(T) /\ Len(a) = n + 1 /\ n \in Nat /\ a[n + 1] = x
        /\ \A i \in 1..n : a[i] = s[i]
    BY AppendProperties, LenProperties
  <2>2. Spread(f, a) = Spread(f, s) \o f[x]
    BY SpreadAppend
  <2>3. Spread(f, s) \in Seq(U) /\ f[x] \in Seq(U)
    BY SpreadType DEF Maps
  <2>4. Spread(f, a) = <<>> <=> Spread(f, s) = <<>> /\ f[x] = <<>>
    BY <2>2, <2>3, ConcatEqualIffEmpty
  <2>5. Spread(f, s) = <<>> <=> \A i \in 1..n : f[s[i]] = <<>>
    BY <1>2
  <2> HIDE DEF a, n
  <2>6. (\A i \in 1..n + 1 : f[a[i]] = <<>>) <=> (\A i \in 1..n : f[s[i]] = <<>>) /\ f[x] = <<>>
    BY <2>1
  <2>7. a \in P
    BY <2>1, <2>4, <2>5, <2>6
  <2> QED
    BY <2>7 DEF a
<1> HIDE DEF P
<1>3. \A s \in Seq(T) : s \in P
  BY <1>1, <1>2, SequenceInduction
<1> QED
  BY <1>3 DEF P

\* Two halves may be mapped one by one.
LEMMA MappedConcat ==
    ASSUME NEW T, NEW U, NEW f, Maps(T, U, f), NEW s \in Seq(T)
    PROVE  \A t \in Seq(T) : Mapped(f, s \o t) = Mapped(f, s) \o Mapped(f, t)
<1> DEFINE P == {t \in Seq(T) : Mapped(f, s \o t) = Mapped(f, s) \o Mapped(f, t)}
<1>0. Mapped(f, s) \in Seq(U)
  BY MappedType
<1>1. <<>> \in P
  <2>1. s \o <<>> = s /\ Mapped(f, s) \o <<>> = Mapped(f, s) /\ <<>> \in Seq(T)
    BY <1>0, ConcatEmptySeq, EmptySeq
  <2> QED
    BY <2>1, MappedEmpty
<1>2. ASSUME NEW t \in Seq(T), NEW x \in T, t \in P
      PROVE  Append(t, x) \in P
  <2> DEFINE u == s \o t
             m == Mapped(f, s)
             n == Mapped(f, t)
             e == f[x]
  <2>1. u \in Seq(T) /\ s \o Append(t, x) = Append(u, x) /\ Append(t, x) \in Seq(T)
    BY ConcatAppend, AppendProperties
  <2>2. m \in Seq(U) /\ n \in Seq(U) /\ e \in U /\ Mapped(f, u) = m \o n
    BY <1>0, <1>2, MappedType DEF Maps
  <2>3. Mapped(f, Append(t, x)) = Append(n, e)
    BY MappedAppend
  <2> HIDE DEF u
  <2>4. Mapped(f, Append(u, x)) = Append(Mapped(f, u), e)
    BY <2>1, MappedAppend
  <2> HIDE DEF m, n, e
  <2>5. m \o Append(n, e) = Append(m \o n, e)
    BY <2>2, ConcatAppend
  <2>6. Mapped(f, s \o Append(t, x)) = m \o Mapped(f, Append(t, x))
    BY <2>1, <2>2, <2>3, <2>4, <2>5
  <2> QED
    BY <2>1, <2>6 DEF m
<1> HIDE DEF P
<1>3. \A t \in Seq(T) : t \in P
  BY <1>1, <1>2, SequenceInduction
<1> QED
  BY <1>3 DEF P

\* Two halves may be spread one by one.
LEMMA SpreadConcat ==
    ASSUME NEW T, NEW U, NEW f, Maps(T, Seq(U), f), NEW s \in Seq(T), NEW t \in Seq(T)
    PROVE  Spread(f, s \o t) = Spread(f, s) \o Spread(f, t)
<1> DEFINE W == Seq(U)
           m == Mapped(f, s)
           n == Mapped(f, t)
<1>1. m \in Seq(W) /\ n \in Seq(W) /\ Mapped(f, s \o t) = m \o n
  <2> HIDE DEF W
  <2>1. Maps(T, W, f)
    BY DEF W
  <2>2. m \in Seq(W) /\ n \in Seq(W)
    BY <2>1, MappedType
  <2>3. Mapped(f, s \o t) = m \o n
    BY <2>1, MappedConcat
  <2> QED
    BY <2>2, <2>3
<1>2. m \in Seq(Seq(U)) /\ n \in Seq(Seq(U))
  BY <1>1
<1> HIDE DEF m, n
<1>3. FlattenSeq(m \o n) = FlattenSeq(m) \o FlattenSeq(n)
  BY <1>2, FlattenConcat
<1> QED
  BY <1>1, <1>3 DEF Spread, m, n

\* Only the values at the elements count.
LEMMA MappedSame ==
    ASSUME NEW f, NEW g, NEW s, \A i \in 1..Len(s) : f[s[i]] = g[s[i]]
    PROVE  Mapped(f, s) = Mapped(g, s) /\ Spread(f, s) = Spread(g, s)
<1>1. Mapped(f, s) = Mapped(g, s)
  BY DEF Mapped
<1> QED
  BY <1>1 DEF Spread

\* h is f and then, at every value of f, g.
Then(T, f, g, h) == \A x \in T : h[x] = g[f[x]]

\* h is f with g mapped over what it returns.
ThenMapped(T, f, g, h) == \A x \in T : h[x] = Mapped(g, f[x])

\* h is f with g spread over what it returns.
ThenSpread(T, f, g, h) == \A x \in T : h[x] = Spread(g, f[x])

\* Mapping twice is mapping once.
LEMMA MappedThen ==
    ASSUME NEW T, NEW U, NEW f, Maps(T, U, f), NEW g, NEW h, Then(T, f, g, h), NEW s \in Seq(T)
    PROVE  Mapped(g, Mapped(f, s)) = Mapped(h, s) /\ Spread(g, Mapped(f, s)) = Spread(h, s)
<1> DEFINE n == Len(s)
           m == Mapped(f, s)
<1>1. n \in Nat /\ Len(m) = n /\ \A i \in 1..n : s[i] \in T
  BY LenProperties, MappedType
<1>2. \A i \in 1..n : m[i] = f[s[i]]
  BY DEF Mapped
<1>3. \A i \in 1..n : g[m[i]] = h[s[i]]
  BY <1>1, <1>2 DEF Then
<1> HIDE DEF m, n
<1>4. Mapped(g, m) = Mapped(h, s)
  <2>1. [i \in 1..n |-> g[m[i]]] = [i \in 1..n |-> h[s[i]]]
    BY <1>3
  <2> QED
    BY <1>1, <2>1 DEF Mapped, n
<1> QED
  BY <1>4 DEF Spread, m

\* Mapping over what was put together is mapping over the parts.
LEMMA MappedSpread ==
    ASSUME NEW T, NEW U, NEW V, NEW f, Maps(T, Seq(U), f), NEW g, Maps(U, V, g),
           NEW h, ThenMapped(T, f, g, h)
    PROVE  \A s \in Seq(T) : Mapped(g, Spread(f, s)) = Spread(h, s)
<1> DEFINE P == {s \in Seq(T) : Mapped(g, Spread(f, s)) = Spread(h, s)}
<1>1. <<>> \in P
  BY SpreadEmpty, MappedEmpty
<1>2. ASSUME NEW s \in Seq(T), NEW x \in T, s \in P
      PROVE  Append(s, x) \in P
  <2> DEFINE a == Append(s, x)
             l == Spread(f, s)
             m == f[x]
  <2>1. a \in Seq(T) /\ l \in Seq(U) /\ m \in Seq(U) /\ h[x] = Mapped(g, m)
    BY AppendProperties, SpreadType DEF Maps, ThenMapped
  <2>2. Maps(T, Seq(V), h)
    BY MappedType DEF Maps, ThenMapped
  <2>3. Spread(f, a) = l \o m /\ Spread(h, a) = Spread(h, s) \o h[x]
    BY <2>2, SpreadAppend
  <2>4. Mapped(g, l) = Spread(h, s)
    BY <1>2
  <2> HIDE DEF a, l, m
  <2>5. Mapped(g, l \o m) = Mapped(g, l) \o Mapped(g, m)
    BY <2>1, MappedConcat
  <2>6. a \in P
    BY <2>1, <2>3, <2>4, <2>5
  <2> QED
    BY <2>6 DEF a
<1> HIDE DEF P
<1>3. \A s \in Seq(T) : s \in P
  BY <1>1, <1>2, SequenceInduction
<1> QED
  BY <1>3 DEF P

\* Spreading over what was put together is spreading over the parts.
LEMMA SpreadSpread ==
    ASSUME NEW T, NEW U, NEW V, NEW f, Maps(T, Seq(U), f), NEW g, Maps(U, Seq(V), g),
           NEW h, ThenSpread(T, f, g, h)
    PROVE  \A s \in Seq(T) : Spread(g, Spread(f, s)) = Spread(h, s)
<1> DEFINE P == {s \in Seq(T) : Spread(g, Spread(f, s)) = Spread(h, s)}
<1>1. <<>> \in P
  BY SpreadEmpty
<1>2. ASSUME NEW s \in Seq(T), NEW x \in T, s \in P
      PROVE  Append(s, x) \in P
  <2> DEFINE a == Append(s, x)
             l == Spread(f, s)
             m == f[x]
  <2>1. a \in Seq(T) /\ l \in Seq(U) /\ m \in Seq(U) /\ h[x] = Spread(g, m)
    BY AppendProperties, SpreadType DEF Maps, ThenSpread
  <2>2. Maps(T, Seq(V), h)
    BY SpreadType DEF Maps, ThenSpread
  <2>3. Spread(f, a) = l \o m /\ Spread(h, a) = Spread(h, s) \o h[x]
    BY <2>2, SpreadAppend
  <2>4. Spread(g, l) = Spread(h, s)
    BY <1>2
  <2> HIDE DEF a, l, m
  <2>5. Spread(g, l \o m) = Spread(g, l) \o Spread(g, m)
    BY <2>1, SpreadConcat
  <2>6. a \in P
    BY <2>1, <2>3, <2>4, <2>5
  <2> QED
    BY <2>6 DEF a
<1> HIDE DEF P
<1>3. \A s \in Seq(T) : s \in P
  BY <1>1, <1>2, SequenceInduction
<1> QED
  BY <1>3 DEF P

\* Spreading single values is mapping.
LEMMA SpreadSingles ==
    ASSUME NEW T, NEW U, NEW f, Maps(T, U, f), NEW g, \A x \in T : g[x] = <<f[x]>>
    PROVE  \A s \in Seq(T) : Spread(g, s) = Mapped(f, s)
<1> DEFINE P == {s \in Seq(T) : Spread(g, s) = Mapped(f, s)}
<1>1. <<>> \in P
  BY SpreadEmpty, MappedEmpty
<1>2. ASSUME NEW s \in Seq(T), NEW x \in T, s \in P
      PROVE  Append(s, x) \in P
  <2> DEFINE a == Append(s, x)
             m == Mapped(f, s)
             e == f[x]
  <2>1. a \in Seq(T) /\ m \in Seq(U) /\ e \in U /\ g[x] = <<e>>
    BY AppendProperties, MappedType DEF Maps
  <2>2. Maps(T, Seq(U), g)
    BY DEF Maps
  <2>3. Spread(g, a) = Spread(g, s) \o g[x] /\ Mapped(f, a) = Append(m, e)
    BY <2>2, SpreadAppend, MappedAppend
  <2>4. Spread(g, s) = m
    BY <1>2
  <2> HIDE DEF a, m, e
  <2>5. Append(m, e) = m \o <<e>>
    BY <2>1, AppendIsConcat
  <2>6. a \in P
    BY <2>1, <2>3, <2>4, <2>5
  <2> QED
    BY <2>6 DEF a
<1> HIDE DEF P
<1>3. \A s \in Seq(T) : s \in P
  BY <1>1, <1>2, SequenceInduction
<1> QED
  BY <1>3 DEF P

\* The elements of what is put together are the elements of the parts.
LEMMA SpreadRange ==
    ASSUME NEW T, NEW U, NEW f, Maps(T, Seq(U), f)
    PROVE  \A s \in Seq(T) : Range(Spread(f, s)) = UNION {Range(f[x]) : x \in Range(s)}
<1> DEFINE P == {s \in Seq(T) : Range(Spread(f, s)) = UNION {Range(f[x]) : x \in Range(s)}}
<1>1. <<>> \in P
  <2>1. Range(<<>>) = {} /\ <<>> \in Seq(T)
    BY EmptySeq DEF Range
  <2> QED
    BY <2>1, SpreadEmpty
<1>2. ASSUME NEW s \in Seq(T), NEW x \in T, s \in P
      PROVE  Append(s, x) \in P
  <2> DEFINE a == Append(s, x)
             l == Spread(f, s)
             m == f[x]
             one == <<x>>
  <2>1. a \in Seq(T) /\ l \in Seq(U) /\ m \in Seq(U)
    BY AppendProperties, SpreadType DEF Maps
  <2>2. Spread(f, a) = l \o m
    BY SpreadAppend
  <2>3. a = s \o one /\ one \in Seq(T) /\ Range(one) = {x}
    BY AppendIsConcat DEF Range
  <2>4. Range(l) = UNION {Range(f[y]) : y \in Range(s)}
    BY <1>2
  <2> HIDE DEF l, m, a, one
  <2>5. Range(l \o m) = Range(l) \union Range(m)
    BY <2>1, RangeConcatenation
  <2>6. Range(a) = Range(s) \union {x}
    BY <2>3, RangeConcatenation
  <2>7. UNION {Range(f[y]) : y \in Range(a)} = (UNION {Range(f[y]) : y \in Range(s)}) \union Range(f[x])
    BY <2>6
  <2>8. a \in P
    BY <2>1, <2>2, <2>4, <2>5, <2>7 DEF m
  <2> QED
    BY <2>8 DEF a
<1> HIDE DEF P
<1>3. \A s \in Seq(T) : s \in P
  BY <1>1, <1>2, SequenceInduction
<1> QED
  BY <1>3 DEF P

\* The numbers from 1 to n, one after the other.
Numbers(n) == [k \in 1..n |-> k]

\* Flattening is spreading over the numbers.
LEMMA SpreadNumbers ==
    ASSUME NEW n \in Nat, NEW f, f = [k \in 1..n |-> f[k]]
    PROVE  /\ Numbers(n) \in Seq(1..n) /\ Len(Numbers(n)) = n
           /\ Mapped(f, Numbers(n)) = f /\ Spread(f, Numbers(n)) = FlattenSeq(f)
<1>1. Numbers(n) \in Seq(1..n) /\ Len(Numbers(n)) = n /\ \A k \in 1..n : Numbers(n)[k] = k
  BY DEF Numbers
<1>2. Mapped(f, Numbers(n)) = [k \in 1..n |-> f[k]]
  BY <1>1 DEF Mapped
<1> QED
  BY <1>1, <1>2 DEF Spread

\* A function that is empty at all numbers but one.
LEMMA SpreadAt ==
    ASSUME NEW U, NEW n \in Nat, NEW f, Maps(1..n, Seq(U), f),
           NEW j \in 1..n, \A k \in 1..n : k # j => f[k] = <<>>
    PROVE  Spread(f, Numbers(n)) = f[j]
<1> DEFINE s == Numbers(n)
           Prefix(m) == [k \in 1..m |-> s[k]]
           P == {m \in 0..n : Spread(f, Prefix(m)) = IF j <= m THEN f[j] ELSE <<>>}
<1>1. s \in Seq(1..n) /\ Len(s) = n /\ \A k \in 1..n : s[k] = k
  BY DEF Numbers
<1> HIDE DEF s
<1>2. Prefix(n) = s /\ Prefix(0) = <<>>
  BY <1>1
<1>3. 0 \in P
  <2>1. Spread(f, <<>>) = <<>>
    BY SpreadEmpty
  <2>2. ~ (j <= 0) /\ 0 \in 0..n
    OBVIOUS
  <2> HIDE DEF Prefix
  <2> QED
    BY <1>2, <2>1, <2>2
<1>4. ASSUME NEW m \in 0..n - 1, m \in P
      PROVE  m + 1 \in P
  <2>1. /\ Prefix(m) \in Seq(1..n) /\ s[m + 1] \in 1..n
        /\ Prefix(m + 1) = Append(Prefix(m), s[m + 1])
    BY <1>1, PrefixNext
  <2>2. s[m + 1] = m + 1 /\ m + 1 \in 1..n /\ m + 1 \in 0..n
    BY <1>1
  <2>3. Spread(f, Prefix(m)) = IF j <= m THEN f[j] ELSE <<>>
    BY <1>4
  <2> HIDE DEF Prefix
  <2>4. Spread(f, Prefix(m + 1)) = Spread(f, Prefix(m)) \o f[m + 1]
    <3> DEFINE T == 1..n
               p == Prefix(m)
               x == s[m + 1]
    <3>1. Maps(T, Seq(U), f) /\ p \in Seq(T) /\ x \in T
      BY <2>1
    <3> HIDE DEF T, p, x, P
    <3>2. Spread(f, Append(p, x)) = Spread(f, p) \o f[x]
      BY <3>1, SpreadAppend
    <3> QED
      BY <2>1, <2>2, <3>2 DEF p, x
  <2>5. f[j] \in Seq(U) /\ f[j] \o <<>> = f[j] /\ <<>> \o f[j] = f[j] /\ <<>> \o <<>> = <<>>
    <3>1. f[j] \in Seq(U)
      BY DEF Maps
    <3> QED
      BY <3>1, ConcatEmptySeq, EmptySeq
  <2>6. CASE j = m + 1
    <3>1. ~ (j <= m) /\ j <= m + 1
      BY <2>6
    <3>2. Spread(f, Prefix(m + 1)) = f[j]
      BY <2>3, <2>4, <2>5, <2>6, <3>1
    <3> QED
      BY <2>2, <3>1, <3>2
  <2>7. CASE j # m + 1
    <3>1. f[m + 1] = <<>> /\ (j <= m <=> j <= m + 1)
      BY <2>2, <2>7
    <3>2. Spread(f, Prefix(m + 1)) = IF j <= m + 1 THEN f[j] ELSE <<>>
      BY <2>3, <2>4, <2>5, <3>1
    <3> QED
      BY <2>2, <3>2
  <2> QED
    BY <2>6, <2>7
<1>5. n \in P
  <2> HIDE DEF P
  <2>1. \A m \in 0..n : m \in P
    BY <1>3, <1>4, InductionUpTo
  <2> QED
    BY <2>1
<1> HIDE DEF Prefix
<1> QED
  BY <1>2, <1>5 DEF s
=============================================================================
