---------------------------- MODULE StreamProofs ----------------------------
(***************************************************************************)
(* What reaches the client is a well-formed stream, it is reported as      *)
(* complete only if it is, and then holds everything the provider said:    *)
(* an inductive invariant of StreamTranslation over all events encoded so  *)
(* far, yielded or not, and the refinement of AnthropicStream.             *)
(***************************************************************************)
EXTENDS StreamTranslation, SequenceLemmas

Data == Texts \union Names \union Pieces \union StopReasons

\* Everything encoded so far; a yield only moves the boundary within it.
Full == sent \o pending

\* How many of the first n of log are of a type.
Count(log, n, type) == Cardinality({i \in 1..n : log[i].type = type})

\* Whether e may follow the first n of log: AnthropicStream's Allowed, for
\* any part of any log.
AllowedAfter(log, n, e) ==
    LET starts == Count(log, n, "content_block_start")
        stops == Count(log, n, "content_block_stop")
        over == Count(log, n, "message_stop") > 0 \/ Count(log, n, "error") > 0
        summed == Count(log, n, "message_delta") > 0
    IN  \/ e.type = "message_start" /\ n = 0
        \/ /\ Count(log, n, "message_start") > 0 /\ ~over /\ ~summed
           /\ \/ e.type = "content_block_start" /\ ~(starts > stops) /\ e.index = starts
              \/ /\ e.type \in {"content_block_delta", "content_block_stop"}
                 /\ starts > stops /\ e.index = starts - 1
              \/ e.type = "message_delta" /\ ~(starts > stops) /\ starts > 0
              \/ e.type = "error"
        \/ e.type = "message_stop" /\ summed /\ ~over

WellFormed(log) == \A n \in 0..Len(log) - 1 : AllowedAfter(log, n, log[n + 1])

\* A message that is not over: so many blocks begun, so many ended, and
\* whether it has been summed up.
Underway(log, starts, stops, summed) ==
    /\ log \in Seq(Events)
    /\ WellFormed(log)
    /\ Count(log, Len(log), "message_start") > 0
    /\ Count(log, Len(log), "content_block_start") = starts
    /\ Count(log, Len(log), "content_block_stop") = stops
    /\ Count(log, Len(log), "message_delta") = summed
    /\ Count(log, Len(log), "message_stop") = 0
    /\ Count(log, Len(log), "error") = 0
-----------------------------------------------------------------------------
(* Logs.                                                                   *)

\* What is counted is finite.
LEMMA CountType ==
    ASSUME NEW log, NEW n \in Nat, NEW type
    PROVE  /\ IsFiniteSet({i \in 1..n : log[i].type = type})
           /\ Count(log, n, type) \in Nat
<1>1. IsFiniteSet(1..n)
  BY FS_Interval
<1>2. IsFiniteSet({i \in 1..n : log[i].type = type})
  BY <1>1, FS_Subset
<1> QED
  BY <1>2, FS_CardinalityType DEF Count

\* One more element counts for itself.
LEMMA CountNext ==
    ASSUME NEW log, NEW n \in Nat, NEW type
    PROVE  Count(log, n + 1, type)
             = Count(log, n, type) + (IF log[n + 1].type = type THEN 1 ELSE 0)
<1> DEFINE S == {i \in 1..n : log[i].type = type}
           T == {i \in 1..n + 1 : log[i].type = type}
<1>1. IsFiniteSet(S) /\ Cardinality(S) \in Nat
  <2>1. IsFiniteSet(1..n) /\ S \in SUBSET (1..n)
    BY FS_Interval
  <2> HIDE DEF S
  <2> QED
    BY <2>1, FS_Subset, FS_CardinalityType
<1>2. n + 1 \notin S /\ T = IF log[n + 1].type = type THEN S \union {n + 1} ELSE S
  OBVIOUS
<1> HIDE DEF S, T
<1>3. Cardinality(S \union {n + 1}) = Cardinality(S) + 1
  BY <1>1, <1>2, FS_AddElement
<1>4. Cardinality(T) = Cardinality(S) + (IF log[n + 1].type = type THEN 1 ELSE 0)
  BY <1>1, <1>2, <1>3
<1> QED
  BY <1>4 DEF S, T, Count

\* Only the part that is counted matters.
LEMMA CountSame ==
    ASSUME NEW log, NEW other, NEW n \in Nat, \A i \in 1..n : log[i] = other[i], NEW type
    PROVE  Count(log, n, type) = Count(other, n, type)
<1>1. {i \in 1..n : log[i].type = type} = {i \in 1..n : other[i].type = type}
  OBVIOUS
<1> QED
  BY <1>1 DEF Count

\* Whether e may follow depends on the part before it only.
LEMMA AllowedSame ==
    ASSUME NEW log, NEW other, NEW n \in Nat, \A i \in 1..n : log[i] = other[i], NEW e
    PROVE  AllowedAfter(log, n, e) <=> AllowedAfter(other, n, e)
<1>1. \A type : Count(log, n, type) = Count(other, n, type)
  BY CountSame
<1> QED
  BY <1>1 DEF AllowedAfter

\* A log grows by what may follow it.
LEMMA WellFormedAppend ==
    ASSUME NEW log \in Seq(Events), NEW e \in Events,
           WellFormed(log), AllowedAfter(log, Len(log), e)
    PROVE  Append(log, e) \in Seq(Events) /\ WellFormed(Append(log, e))
<1> DEFINE more == Append(log, e)
<1>1. /\ more \in Seq(Events) /\ Len(more) = Len(log) + 1 /\ Len(log) \in Nat
      /\ \A i \in 1..Len(log) : more[i] = log[i]
      /\ more[Len(log) + 1] = e
  BY AppendProperties, LenProperties
<1> HIDE DEF more
<1>2. ASSUME NEW n \in 0..Len(more) - 1
      PROVE  AllowedAfter(more, n, more[n + 1])
  <2>1. n \in Nat /\ \A i \in 1..n : more[i] = log[i]
    BY <1>1
  <2>2. AllowedAfter(more, n, more[n + 1]) <=> AllowedAfter(log, n, more[n + 1])
    BY <2>1, AllowedSame
  <2>3. CASE n = Len(log)
    BY <1>1, <2>2, <2>3
  <2>4. CASE n # Len(log)
    <3>1. n \in 0..Len(log) - 1 /\ more[n + 1] = log[n + 1]
      BY <1>1, <2>4
    <3> QED
      BY <2>2, <3>1 DEF WellFormed
  <2> QED
    BY <2>3, <2>4
<1> QED
  BY <1>1, <1>2 DEF WellFormed, more

\* What one more event does to the counts of a message under way.
LEMMA CountAppend ==
    ASSUME NEW log \in Seq(Events), NEW e \in Events, NEW type
    PROVE  /\ Count(log, Len(log), type) \in Nat
           /\ Count(Append(log, e), Len(Append(log, e)), type)
                = Count(log, Len(log), type) + (IF e.type = type THEN 1 ELSE 0)
<1> DEFINE more == Append(log, e)
<1>1. /\ Len(more) = Len(log) + 1 /\ Len(log) \in Nat
      /\ \A i \in 1..Len(log) : more[i] = log[i]
      /\ more[Len(log) + 1] = e
  BY AppendProperties, LenProperties
<1> HIDE DEF more
<1>2. Count(more, Len(log), type) = Count(log, Len(log), type)
  BY <1>1, CountSame
<1>3. Count(more, Len(log) + 1, type)
        = Count(more, Len(log), type) + (IF more[Len(log) + 1].type = type THEN 1 ELSE 0)
  BY <1>1, CountNext
<1> QED
  BY <1>1, <1>2, <1>3, CountType DEF more

\* The events of a message in their order.
LEMMA UnderwayNext ==
    ASSUME NEW log, NEW starts, NEW stops, NEW summed, Underway(log, starts, stops, summed),
           NEW e \in Events
    PROVE  /\ starts \in Nat /\ stops \in Nat
           /\ e.type = "content_block_start" /\ starts <= stops /\ e.index = starts /\ summed = 0
                => Underway(Append(log, e), starts + 1, stops, 0)
           /\ e.type = "content_block_delta" /\ starts > stops /\ e.index = starts - 1 /\ summed = 0
                => Underway(Append(log, e), starts, stops, 0)
           /\ e.type = "content_block_stop" /\ starts > stops /\ e.index = starts - 1 /\ summed = 0
                => Underway(Append(log, e), starts, stops + 1, 0)
           /\ e.type = "message_delta" /\ starts <= stops /\ starts > 0 /\ summed = 0
                => Underway(Append(log, e), starts, stops, 1)
           /\ e.type = "message_stop" /\ summed = 1
                => Append(log, e) \in Seq(Events) /\ WellFormed(Append(log, e))
           /\ e.type = "error" /\ summed = 0
                => Append(log, e) \in Seq(Events) /\ WellFormed(Append(log, e))
<1> DEFINE n == Len(log)
           more == Append(log, e)
<1>1. log \in Seq(Events) /\ WellFormed(log) /\ n \in Nat
  BY LenProperties DEF Underway
<1>2. \A type : /\ Count(log, n, type) \in Nat
                /\ Count(more, Len(more), type)
                     = Count(log, n, type) + (IF e.type = type THEN 1 ELSE 0)
  BY <1>1, CountAppend
<1>3. /\ starts \in Nat /\ stops \in Nat
      /\ Count(log, n, "message_start") > 0
      /\ Count(log, n, "content_block_start") = starts
      /\ Count(log, n, "content_block_stop") = stops
      /\ Count(log, n, "message_delta") = summed
      /\ Count(log, n, "message_stop") = 0
      /\ Count(log, n, "error") = 0
  BY <1>2 DEF Underway
<1>4. AllowedAfter(log, n, e) => more \in Seq(Events) /\ WellFormed(more)
  BY <1>1, WellFormedAppend
<1> HIDE DEF n, more
<1>5. CASE e.type = "content_block_start" /\ starts <= stops /\ e.index = starts /\ summed = 0
  <2>1. AllowedAfter(log, n, e)
    BY <1>3, <1>5 DEF AllowedAfter
  <2> QED
    BY <1>2, <1>3, <1>4, <1>5, <2>1 DEF Underway, more
<1>6. CASE e.type = "content_block_delta" /\ starts > stops /\ e.index = starts - 1 /\ summed = 0
  <2>1. AllowedAfter(log, n, e)
    BY <1>3, <1>6 DEF AllowedAfter
  <2> QED
    BY <1>2, <1>3, <1>4, <1>6, <2>1 DEF Underway, more
<1>7. CASE e.type = "content_block_stop" /\ starts > stops /\ e.index = starts - 1 /\ summed = 0
  <2>1. AllowedAfter(log, n, e)
    BY <1>3, <1>7 DEF AllowedAfter
  <2> QED
    BY <1>2, <1>3, <1>4, <1>7, <2>1 DEF Underway, more
<1>8. CASE e.type = "message_delta" /\ starts <= stops /\ starts > 0 /\ summed = 0
  <2>1. AllowedAfter(log, n, e)
    BY <1>3, <1>8 DEF AllowedAfter
  <2> QED
    BY <1>2, <1>3, <1>4, <1>8, <2>1 DEF Underway, more
<1>9. CASE e.type = "message_stop" /\ summed = 1
  <2>1. AllowedAfter(log, n, e)
    BY <1>3, <1>9 DEF AllowedAfter
  <2> QED
    BY <1>3, <1>4, <1>9, <2>1 DEF more
<1>10. CASE e.type = "error" /\ summed = 0
  <2>1. AllowedAfter(log, n, e)
    BY <1>3, <1>10 DEF AllowedAfter
  <2> QED
    BY <1>3, <1>4, <1>10, <2>1 DEF more
<1> QED
  BY <1>3, <1>5, <1>6, <1>7, <1>8, <1>9, <1>10 DEF more
-----------------------------------------------------------------------------
(* What the events carry.                                                  *)

\* What one event brings.
Load(e) == IF e.type = "content_block_delta" THEN e.data ELSE <<>>

\* What one more event adds to what is carried.
LEMMA CarriedAppend ==
    ASSUME NEW log \in Seq(Events), NEW e \in Events
    PROVE  /\ Carried(log) \in Seq(Data)
           /\ Carried(Append(log, e)) = Carried(log) \o Load(e)
<1> DEFINE Loads(events) == [k \in 1..Len(events) |-> Load(events[k])]
           more == Append(log, e)
<1>1. /\ more \in Seq(Events) /\ Len(more) = Len(log) + 1 /\ Len(log) \in Nat
      /\ \A i \in 1..Len(log) : more[i] = log[i]
      /\ more[Len(log) + 1] = e
  BY AppendProperties, LenProperties
<1>2. \A x \in Events : Load(x) \in Seq(Data)
  BY EmptySeq DEF Load, Events, Data
<1>3. Loads(log) \in Seq(Seq(Data)) /\ Loads(more) \in Seq(Seq(Data))
  <2> HIDE DEF more
  <2>1. \A i \in 1..Len(log) : log[i] \in Events
    BY ElementOfSeq
  <2>2. \A i \in 1..Len(more) : more[i] \in Events
    BY <1>1, ElementOfSeq
  <2> QED
    BY <1>1, <1>2, <2>1, <2>2
<1>4. Loads(more) = Append(Loads(log), Load(e))
  <2> DEFINE a == Loads(more)
             b == Append(Loads(log), Load(e))
             U == Seq(Data)
  <2> HIDE DEF more, U
  <2>1. Loads(log) \in Seq(U) /\ Load(e) \in U /\ Len(Loads(log)) = Len(log)
    BY <1>1, <1>2, <1>3 DEF U
  <2>2. /\ b \in Seq(U) /\ Len(b) = Len(log) + 1
        /\ \A i \in 1..Len(log) : b[i] = Loads(log)[i]
        /\ b[Len(log) + 1] = Load(e)
    <3> DEFINE l == Loads(log)
    <3> HIDE DEF l
    <3>1. l \in Seq(U) /\ Load(e) \in U /\ Len(l) = Len(log)
      BY <2>1 DEF l
    <3>2. /\ Append(l, Load(e)) \in Seq(U) /\ Len(Append(l, Load(e))) = Len(log) + 1
          /\ \A i \in 1..Len(log) : Append(l, Load(e))[i] = l[i]
          /\ Append(l, Load(e))[Len(log) + 1] = Load(e)
      BY <3>1, AppendProperties
    <3> QED
      BY <3>2 DEF l
  <2>3. a \in Seq(U) /\ Len(a) = Len(log) + 1
    BY <1>1, <1>3 DEF U
  <2>4. \A i \in 1..Len(log) + 1 : a[i] = b[i]
    <3> HIDE DEF b
    <3> QED
      BY <1>1, <2>2
  <2> HIDE DEF a, b
  <2>5. a = b
    BY <2>2, <2>3, <2>4, SeqEqual
  <2> QED
    BY <2>5 DEF a, b
<1>5. Carried(log) = FlattenSeq(Loads(log)) /\ Carried(more) = FlattenSeq(Loads(more))
  BY DEF Carried, Load
<1>6. Load(e) \in Seq(Data)
  BY <1>2
<1> HIDE DEF Loads
<1>7. /\ FlattenSeq(Loads(log)) \in Seq(Data)
      /\ FlattenSeq(Append(Loads(log), Load(e))) = FlattenSeq(Loads(log)) \o Load(e)
  BY <1>3, <1>6, FlattenType, FlattenOne
<1> QED
  BY <1>4, <1>5, <1>7

\* No event, nothing carried.
LEMMA CarriedEmpty == Carried(<<>>) = <<>>
BY FlattenEmpty DEF Carried
-----------------------------------------------------------------------------
(* The encoding of the end.                                                *)

\* InOrder enumerates: there is an element of every rank.
LEMMA InOrderType ==
    ASSUME NEW S \in SUBSET Nat, IsFiniteSet(S)
    PROVE  /\ Cardinality(S) \in Nat
           /\ \A k \in 1..Cardinality(S) : InOrder(S)[k] \in S
<1> DEFINE Below(i) == {j \in S : j < i}
           n == Cardinality(S)
           rank == [i \in S |-> Cardinality(Below(i)) + 1]
<1>1. n \in Nat
  BY FS_CardinalityType
<1>2. ASSUME NEW i \in S
      PROVE  IsFiniteSet(Below(i)) /\ Cardinality(Below(i)) \in 0..n - 1
  <2>1. Below(i) \in SUBSET S /\ i \notin Below(i)
    OBVIOUS
  <2> HIDE DEF Below, n
  <2>2. /\ IsFiniteSet(Below(i)) /\ Cardinality(Below(i)) \in Nat
        /\ Cardinality(Below(i)) <= n /\ Cardinality(Below(i)) # n
    BY <2>1, FS_Subset, FS_CardinalityType DEF n
  <2> QED
    BY <1>1, <2>2
<1>3. ASSUME NEW i \in S, NEW j \in S, i < j
      PROVE  Cardinality(Below(i)) < Cardinality(Below(j))
  <2>1. Below(i) \in SUBSET Below(j) /\ i \in Below(j) /\ i \notin Below(i)
    <3>1. i \in Nat /\ j \in Nat
      OBVIOUS
    <3>2. ASSUME NEW x \in Below(i)
          PROVE  x \in Below(j)
      <4>1. x \in S /\ x \in Nat /\ x < i
        OBVIOUS
      <4> QED
        BY <1>3, <3>1, <4>1
    <3>3. i \in Below(j) /\ i \notin Below(i)
      BY <1>3, <3>1
    <3> HIDE DEF Below
    <3> QED
      BY <3>2, <3>3
  <2>2. /\ IsFiniteSet(Below(j)) /\ Cardinality(Below(i)) \in Int /\ Cardinality(Below(j)) \in Int
    BY <1>1, <1>2
  <2> HIDE DEF Below
  <2>3. Cardinality(Below(i)) <= Cardinality(Below(j)) /\ Cardinality(Below(i)) # Cardinality(Below(j))
    BY <2>1, <2>2, FS_Subset
  <2> QED
    BY <2>2, <2>3
<1> HIDE DEF Below
<1>4. rank \in Injection(S, 1..n)
  <2>1. rank \in [S -> 1..n]
    BY <1>1, <1>2
  <2>2. ASSUME NEW i \in S, NEW j \in S, rank[i] = rank[j]
        PROVE  i = j
    <3>1. Cardinality(Below(i)) = Cardinality(Below(j))
      BY <1>1, <1>2, <2>2
    <3>2. ~(i < j) /\ ~(j < i)
      BY <1>1, <1>2, <1>3, <3>1
    <3> QED
      BY <3>2
  <2> HIDE DEF rank
  <2> QED
    BY <2>1, <2>2 DEF Injection, IsInjective
<1>5. IsFiniteSet(1..n) /\ Cardinality(1..n) = n
  <2>1. 1 \in Int /\ n \in Int /\ (IF 1 > n THEN 0 ELSE n - 1 + 1) = n
    BY <1>1
  <2> HIDE DEF n
  <2> QED
    BY <2>1, FS_Interval
<1>6. rank \in Surjection(S, 1..n)
  <2> HIDE DEF rank
  <2> QED
    BY <1>4, <1>5, FS_Injection DEF n
<1>7. ASSUME NEW k \in 1..n
      PROVE  \E i \in S : Cardinality(Below(i)) = k - 1
  <2>1. PICK i \in S : rank[i] = k
    <3> HIDE DEF rank
    <3> QED
      BY <1>6 DEF Surjection
  <2> QED
    BY <1>1, <1>2, <2>1
<1>8. ASSUME NEW k \in 1..n
      PROVE  InOrder(S)[k] \in S
  <2>1. InOrder(S)[k] = CHOOSE i \in S : Cardinality(Below(i)) = k - 1
    BY DEF InOrder, Below
  <2> QED
    BY <1>7, <2>1
<1> QED
  BY <1>1, <1>8

\* Three events one after the other.
LEMMA ThreeMore ==
    ASSUME NEW T, NEW log \in Seq(T), NEW s \in Seq(T), NEW a \in T, NEW b \in T, NEW c \in T
    PROVE  /\ log \o s \in Seq(T) /\ <<a, b, c>> \in Seq(T)
           /\ log \o (s \o <<a, b, c>>) = Append(Append(Append(log \o s, a), b), c)
<1>1. <<a, b, c>> = Append(Append(Append(<<>>, a), b), c)
  OBVIOUS
<1>2. /\ <<>> \in Seq(T) /\ Append(<<>>, a) \in Seq(T)
      /\ Append(Append(<<>>, a), b) \in Seq(T)
      /\ Append(Append(Append(<<>>, a), b), c) \in Seq(T)
  BY EmptySeq, AppendProperties
<1>3. ASSUME NEW l \in Seq(T)
      PROVE  l \o <<a, b, c>> = Append(Append(Append(l, a), b), c)
  <2>1. l \o <<>> = l
    BY ConcatEmptySeq
  <2>2. l \o Append(<<>>, a) = Append(l \o <<>>, a)
    BY <1>2, ConcatAppend
  <2>3. l \o Append(Append(<<>>, a), b) = Append(l \o Append(<<>>, a), b)
    BY <1>2, ConcatAppend
  <2>4. l \o Append(Append(Append(<<>>, a), b), c) = Append(l \o Append(Append(<<>>, a), b), c)
    BY <1>2, ConcatAppend
  <2> QED
    BY <1>1, <2>1, <2>2, <2>3, <2>4
<1>4. log \o s \in Seq(T)
  BY ConcatProperties
<1>5. <<a, b, c>> \in Seq(T)
  OBVIOUS
<1>6. log \o (s \o <<a, b, c>>) = (log \o s) \o <<a, b, c>>
  BY <1>5, ConcatAssociative
<1> QED
  BY <1>3, <1>4, <1>5, <1>6

\* The encoder: it has numbered one block or none, the one of the text.
EncoderOK(e) ==
    /\ e \in [nextBlock : 0..1, textBlock : {-1, 0}, tools : {e.tools}, usage : Usage]
    /\ e.nextBlock = e.textBlock + 1
    /\ DOMAIN e.tools \subseteq Indexes
    /\ IsFiniteSet(DOMAIN e.tools)
    /\ e.tools \in [DOMAIN e.tools -> BufferedTool]

\* The arguments of the tools of e, in order.
EncodedArguments(e) ==
    [k \in 1..Cardinality(DOMAIN e.tools) |-> e.tools[InOrder(DOMAIN e.tools)[k]].arguments]

\* The tools of the encoder, taken in their order, are tools.
LEMMA ToolInOrder ==
    ASSUME NEW e, EncoderOK(e)
    PROVE  /\ Cardinality(DOMAIN e.tools) \in Nat
           /\ \A k \in 1..Cardinality(DOMAIN e.tools) :
                e.tools[InOrder(DOMAIN e.tools)[k]] \in BufferedTool
           /\ EncodedArguments(e) \in Seq(Seq(Data))
<1> DEFINE D == DOMAIN e.tools
<1>1. e.tools \in [D -> BufferedTool]
  BY DEF EncoderOK
<1>2. D \in SUBSET Nat /\ IsFiniteSet(D)
  BY <1>1, StreamAssumption DEF EncoderOK
<1> HIDE DEF D
<1>3. Cardinality(D) \in Nat /\ \A k \in 1..Cardinality(D) : InOrder(D)[k] \in D
  BY <1>2, InOrderType
<1>4. \A k \in 1..Cardinality(D) : e.tools[InOrder(D)[k]] \in BufferedTool
  BY <1>1, <1>3
<1>5. \A t \in BufferedTool : t.arguments \in Seq(Data)
  BY SeqMonotonic DEF BufferedTool, Data
<1>6. EncodedArguments(e) = [k \in 1..Cardinality(D) |-> e.tools[InOrder(D)[k]].arguments]
  BY DEF EncodedArguments, D
<1>7. EncodedArguments(e) \in Seq(Seq(Data))
  <2> DEFINE n == Cardinality(D)
             f == [k \in 1..n |-> e.tools[InOrder(D)[k]].arguments]
  <2>1. n \in Nat /\ \A k \in 1..n : f[k] \in Seq(Data)
    BY <1>3, <1>4, <1>5
  <2> HIDE DEF n
  <2>2. f \in [1..n -> Seq(Data)]
    BY <2>1
  <2> HIDE DEF f
  <2>3. f \in Seq(Seq(Data))
    BY <2>1, <2>2, SeqDef
  <2> QED
    BY <1>6, <2>3 DEF f, n
<1> QED
  BY <1>3, <1>4, <1>7 DEF D

\* One tool is one whole block, and carries its arguments.
LEMMA ToolBlockNext ==
    ASSUME NEW log, NEW b \in Nat, Underway(log, b, b, 0),
           NEW tool \in BufferedTool,
           NEW s \in Seq(Events), NEW before \in Seq(Events), log = before \o s
    PROVE  /\ ToolBlock(tool, b) \in Seq(Events)
           /\ Underway(before \o (s \o ToolBlock(tool, b)), b + 1, b + 1, 0)
           /\ Carried(before \o (s \o ToolBlock(tool, b))) = Carried(log) \o tool.arguments
<1> DEFINE x == ToolOpens(tool, b)
           y == Event("content_block_delta", b, tool.arguments, 0)
           z == Bare("content_block_stop", b)
<1>1. tool.name \in Seq(Data) /\ tool.arguments \in Seq(Data) /\ <<>> \in Seq(Data)
  BY SeqMonotonic, EmptySeq DEF BufferedTool, Data
<1>2. x \in Events /\ y \in Events /\ z \in Events
  <2>1. tool.id \in Seq(Ids) /\ <<>> \in Seq(Ids)
    BY EmptySeq DEF BufferedTool
  <2> QED
    BY <1>1, <2>1 DEF Events, Event, Bare, ToolOpens, Data
<1>3. /\ x.type = "content_block_start" /\ x.index = b /\ Load(x) = <<>>
      /\ y.type = "content_block_delta" /\ y.index = b /\ Load(y) = tool.arguments
      /\ z.type = "content_block_stop" /\ z.index = b /\ Load(z) = <<>>
  BY DEF Event, Bare, ToolOpens, Load
<1>4. ToolBlock(tool, b) = <<x, y, z>>
  BY DEF ToolBlock
<1> HIDE DEF x, y, z
<1>5. <<x, y, z>> \in Seq(Events)
      /\ before \o (s \o <<x, y, z>>) = Append(Append(Append(log, x), y), z)
  BY <1>2, ThreeMore, SMTT(30)
<1>6. Underway(Append(log, x), b + 1, b, 0)
  BY <1>2, <1>3, UnderwayNext
<1>7. Underway(Append(Append(log, x), y), b + 1, b, 0)
  BY <1>2, <1>3, <1>6, UnderwayNext
<1>8. Underway(Append(Append(Append(log, x), y), z), b + 1, b + 1, 0)
  BY <1>2, <1>3, <1>7, UnderwayNext
<1>9. log \in Seq(Events) /\ Append(log, x) \in Seq(Events)
      /\ Append(Append(log, x), y) \in Seq(Events)
  BY <1>6, <1>7 DEF Underway
<1>10. Carried(log) \in Seq(Data) /\ Carried(Append(log, x)) = Carried(log) \o <<>>
  BY <1>2, <1>3, <1>9, CarriedAppend
<1>11. Carried(Append(Append(log, x), y)) = Carried(Append(log, x)) \o tool.arguments
  BY <1>2, <1>3, <1>9, CarriedAppend
<1>12. Carried(Append(Append(Append(log, x), y), z)) = Carried(Append(Append(log, x), y)) \o <<>>
  BY <1>2, <1>3, <1>9, CarriedAppend
<1>13. Carried(Append(Append(log, x), y)) \in Seq(Data)
  BY <1>2, <1>9, CarriedAppend
<1>14. /\ Carried(log) \o <<>> = Carried(log)
       /\ Carried(Append(Append(log, x), y)) \o <<>> = Carried(Append(Append(log, x), y))
  BY <1>10, <1>13, ConcatEmptySeq
<1>15. Carried(Append(Append(Append(log, x), y), z)) = Carried(log) \o tool.arguments
  BY <1>10, <1>11, <1>12, <1>14
<1> QED
  BY <1>4, <1>5, <1>8, <1>15

\* All tools are so many whole blocks, and carry the arguments in order.
LEMMA EncodedTools ==
    ASSUME NEW log, NEW b \in Nat, Underway(log, b, b, 0), NEW e, EncoderOK(e),
           DOMAIN e.tools # {} => e.nextBlock = b
    PROVE  LET n == Cardinality(DOMAIN e.tools)
           IN  /\ n \in Nat /\ ToolBlocks(e) \in Seq(Events)
               /\ Underway(log \o ToolBlocks(e), b + n, b + n, 0)
               /\ Carried(log \o ToolBlocks(e))
                    = Carried(log) \o FlattenSeq(EncodedArguments(e))
<1> DEFINE n == Cardinality(DOMAIN e.tools)
           tool(k) == e.tools[InOrder(DOMAIN e.tools)[k]]
           block(k) == ToolBlock(tool(k), e.nextBlock + k - 1)
           Blocks(m) == [k \in 1..m |-> block(k)]
           Args(m) == [k \in 1..m |-> tool(k).arguments]
           P == {m \in 0..n : /\ Blocks(m) \in Seq(Seq(Events))
                              /\ Args(m) \in Seq(Seq(Data))
                              /\ Underway(log \o FlattenSeq(Blocks(m)), b + m, b + m, 0)
                              /\ Carried(log \o FlattenSeq(Blocks(m)))
                                   = Carried(log) \o FlattenSeq(Args(m))}
<1>1. n \in Nat /\ \A k \in 1..n : tool(k) \in BufferedTool
  BY ToolInOrder
<1>2. n # 0 => DOMAIN e.tools # {}
  BY FS_EmptySet
<1>3. log \in Seq(Events) /\ Carried(log) \in Seq(Data)
  <2>1. log \in Seq(Events)
    BY DEF Underway
  <2>2. Bare("message_start", 0) \in Events
    BY EmptySeq DEF Bare, Event, Events
  <2> QED
    BY <2>1, <2>2, CarriedAppend
<1>4. ToolBlocks(e) = FlattenSeq(Blocks(n)) /\ EncodedArguments(e) = Args(n)
  BY DEF ToolBlocks, EncodedArguments
<1>5. 0 \in P
  <2>1. Blocks(0) = <<>> /\ Args(0) = <<>> /\ 0 \in 0..n
    BY <1>1
  <2>2. log \o <<>> = log /\ Carried(log) \o <<>> = Carried(log)
    BY <1>3, ConcatEmptySeq
  <2>3. <<>> \in Seq(Seq(Events)) /\ <<>> \in Seq(Seq(Data)) /\ b + 0 = b
    BY EmptySeq
  <2> HIDE DEF Blocks, Args, n
  <2> QED
    BY <2>1, <2>2, <2>3, FlattenEmpty
<1>6. ASSUME NEW m \in 0..n - 1, m \in P
      PROVE  m + 1 \in P
  <2> DEFINE s == FlattenSeq(Blocks(m))
             l == log \o s
             t == tool(m + 1)
  <2>1. m + 1 \in 1..n /\ m + 1 \in 0..n /\ e.nextBlock + (m + 1) - 1 = b + m /\ b + m \in Nat
    BY <1>1, <1>2 DEF EncoderOK
  <2>2. t \in BufferedTool /\ block(m + 1) = ToolBlock(t, b + m)
    BY <1>1, <2>1
  <2>3. /\ Blocks(m) \in Seq(Seq(Events)) /\ Args(m) \in Seq(Seq(Data))
        /\ Underway(l, b + m, b + m, 0)
        /\ Carried(l) = Carried(log) \o FlattenSeq(Args(m))
    BY <1>6
  <2>4. m \in Nat /\ \A k \in 1..m : k \in 1..n
    BY <1>1
  <2>5. s \in Seq(Events)
    <3> HIDE DEF Blocks
    <3> QED
      BY <2>3, FlattenType
  <2>6. Blocks(m + 1) = Append(Blocks(m), block(m + 1))
    <3> HIDE DEF block
    <3> QED
      BY <2>4
  <2>7. Args(m + 1) = Append(Args(m), t.arguments)
    <3> HIDE DEF tool
    <3> QED
      BY <2>4
  <2>8. t.arguments \in Seq(Data)
    BY <2>2, SeqMonotonic DEF BufferedTool, Data
  <2> HIDE DEF Blocks, Args, block, t
  <2>9. /\ ToolBlock(t, b + m) \in Seq(Events)
        /\ Underway(log \o (s \o ToolBlock(t, b + m)), (b + m) + 1, (b + m) + 1, 0)
        /\ Carried(log \o (s \o ToolBlock(t, b + m))) = Carried(l) \o t.arguments
    <3> HIDE DEF s
    <3>1. log \in Seq(Events) /\ s \in Seq(Events) /\ l = log \o s
      BY <1>3, <2>5
    <3> HIDE DEF l
    <3> QED
      BY <2>1, <2>2, <2>3, <3>1, ToolBlockNext, ZenonT(60)
  <2>10. /\ FlattenSeq(Blocks(m + 1)) = s \o ToolBlock(t, b + m)
         /\ Blocks(m + 1) \in Seq(Seq(Events))
    <3> DEFINE old == Blocks(m)
               one == ToolBlock(t, b + m)
    <3>1. old \in Seq(Seq(Events)) /\ one \in Seq(Events)
      BY <2>3, <2>9
    <3>2. Blocks(m + 1) = Append(old, one)
      BY <2>2, <2>6
    <3> HIDE DEF old, one
    <3>3. FlattenSeq(Append(old, one)) = FlattenSeq(old) \o one
      BY <3>1, FlattenOne
    <3>4. Append(old, one) \in Seq(Seq(Events))
      <4> DEFINE U == Seq(Events)
      <4>1. old \in Seq(U) /\ one \in U
        BY <3>1
      <4> HIDE DEF U
      <4>2. Append(old, one) \in Seq(U)
        BY <4>1, AppendProperties
      <4> QED
        BY <4>2 DEF U
    <3> QED
      BY <3>2, <3>3, <3>4 DEF old, one, s
  <2>11. /\ FlattenSeq(Args(m + 1)) = FlattenSeq(Args(m)) \o t.arguments
         /\ FlattenSeq(Args(m)) \in Seq(Data)
         /\ Args(m + 1) \in Seq(Seq(Data))
    <3> DEFINE old == Args(m)
               one == t.arguments
    <3>1. old \in Seq(Seq(Data)) /\ one \in Seq(Data)
      BY <2>3, <2>8
    <3>2. Args(m + 1) = Append(old, one)
      BY <2>7
    <3> HIDE DEF old, one
    <3>3. FlattenSeq(Append(old, one)) = FlattenSeq(old) \o one
      BY <3>1, FlattenOne
    <3>4. FlattenSeq(old) \in Seq(Data)
      BY <3>1, FlattenType
    <3>5. Append(old, one) \in Seq(Seq(Data))
      <4> DEFINE U == Seq(Data)
      <4>1. old \in Seq(U) /\ one \in U
        BY <3>1
      <4> HIDE DEF U
      <4>2. Append(old, one) \in Seq(U)
        BY <4>1, AppendProperties
      <4> QED
        BY <4>2 DEF U
    <3> QED
      BY <3>2, <3>3, <3>4, <3>5 DEF old, one
  <2>12. Carried(log \o FlattenSeq(Blocks(m + 1))) = Carried(log) \o FlattenSeq(Args(m + 1))
    <3> DEFINE c == Carried(log)
               f == FlattenSeq(Args(m))
               a == t.arguments
    <3>1. c \in Seq(Data) /\ f \in Seq(Data) /\ a \in Seq(Data)
      BY <1>3, <2>8, <2>11
    <3> HIDE DEF c, f, a
    <3>2. (c \o f) \o a = c \o (f \o a)
      BY <3>1, ConcatAssociative, SMTT(30)
    <3> QED
      BY <2>3, <2>9, <2>10, <2>11, <3>2 DEF c, f, a
  <2>13. (b + m) + 1 = b + (m + 1)
    BY <2>1
  <2> HIDE DEF n, s, l
  <2> QED
    BY <2>1, <2>9, <2>10, <2>11, <2>12, <2>13
<1>7. n \in P
  <2> HIDE DEF P, n
  <2>1. \A m \in 0..n : m \in P
    BY <1>1, <1>5, <1>6, InductionUpTo
  <2> QED
    BY <1>1, <2>1
<1>8. /\ Blocks(n) \in Seq(Seq(Events))
      /\ Underway(log \o FlattenSeq(Blocks(n)), b + n, b + n, 0)
      /\ Carried(log \o FlattenSeq(Blocks(n))) = Carried(log) \o FlattenSeq(Args(n))
  BY <1>7
<1>9. FlattenSeq(Blocks(n)) \in Seq(Events)
  <2> HIDE DEF Blocks
  <2> QED
    BY <1>8, FlattenType
<1> HIDE DEF Blocks, Args
<1>10. /\ n \in Nat /\ ToolBlocks(e) \in Seq(Events)
       /\ Underway(log \o ToolBlocks(e), b + n, b + n, 0)
       /\ Carried(log \o ToolBlocks(e)) = Carried(log) \o FlattenSeq(EncodedArguments(e))
  BY <1>1, <1>4, <1>8, <1>9
<1> QED
  BY <1>10

\* An event that is no delta adds nothing to what is carried.
LEMMA OneMore ==
    ASSUME NEW log \in Seq(Events), NEW x \in Events
    PROVE  /\ log \o <<x>> = Append(log, x)
           /\ Append(log, x) \in Seq(Events)
           /\ x.type # "content_block_delta" => Carried(Append(log, x)) = Carried(log)
<1>1. <<x>> = Append(<<>>, x) /\ <<>> \in Seq(Events)
  OBVIOUS
<1>2. log \o Append(<<>>, x) = Append(log \o <<>>, x) /\ log \o <<>> = log
  BY <1>1, ConcatAppend, ConcatEmptySeq
<1>3. Append(log, x) \in Seq(Events)
  BY AppendProperties
<1>4. Carried(log) \in Seq(Data) /\ Carried(Append(log, x)) = Carried(log) \o Load(x)
  BY CarriedAppend
<1>5. Carried(log) \o <<>> = Carried(log)
  BY <1>4, ConcatEmptySeq
<1>6. x.type # "content_block_delta" => Load(x) = <<>>
  BY DEF Load
<1> QED
  BY <1>1, <1>2, <1>3, <1>4, <1>5, <1>6

\* Two events one after the other.
LEMMA TwoMore ==
    ASSUME NEW log \in Seq(Events), NEW x \in Events, NEW y \in Events
    PROVE  /\ <<x, y>> \in Seq(Events)
           /\ log \o <<x, y>> = Append(Append(log, x), y)
<1>1. <<x, y>> = Append(<<x>>, y) /\ <<x>> \in Seq(Events) /\ <<x, y>> \in Seq(Events)
  OBVIOUS
<1>2. log \o Append(<<x>>, y) = Append(log \o <<x>>, y)
  BY <1>1, ConcatAppend
<1> QED
  BY <1>1, <1>2, OneMore

\* A fragment of text: its block begins with the first one.
LEMMA TextNext ==
    ASSUME NEW log, NEW e, EncoderOK(e), Underway(log, e.nextBlock, 0, 0), NEW t \in Texts
    PROVE  /\ EncodeText(e, t) \in Seq(Events)
           /\ Underway(log \o EncodeText(e, t), 1, 0, 0)
           /\ Carried(log \o EncodeText(e, t)) = Append(Carried(log), t)
<1> DEFINE x == Bare("content_block_start", 0)
           y == Event("content_block_delta", 0, <<t>>, 0)
<1>1. <<t>> \in Seq(Data) /\ <<>> \in Seq(Data) /\ t \in Data /\ <<>> \in Seq(Ids)
  BY DEF Data
<1>2. x \in Events /\ y \in Events
  BY <1>1 DEF Events, Event, Bare, Data
<1>3. /\ x.type = "content_block_start" /\ x.index = 0
      /\ y.type = "content_block_delta" /\ y.index = 0 /\ Load(y) = <<t>>
  BY DEF Event, Bare, Load
<1>4. log \in Seq(Events)
  BY DEF Underway
<1>5. EncodeText(e, t) = IF e.textBlock # -1 THEN <<y>> ELSE <<x, y>>
  BY DEF EncodeText, EncoderOK
<1>6. (e.textBlock = -1 /\ e.nextBlock = 0) \/ (e.textBlock = 0 /\ e.nextBlock = 1)
  BY DEF EncoderOK
<1> HIDE DEF x, y
<1>7. ASSUME NEW l, Underway(l, 1, 0, 0), Carried(l) = Carried(log)
      PROVE  Underway(Append(l, y), 1, 0, 0) /\ Carried(Append(l, y)) = Append(Carried(log), t)
  <2>1. l \in Seq(Events)
    BY <1>7 DEF Underway
  <2>2. Underway(Append(l, y), 1, 0, 0)
    BY <1>2, <1>3, <1>7, UnderwayNext
  <2> DEFINE c == Carried(log)
  <2>3. c \in Seq(Data) /\ Carried(Append(l, y)) = c \o <<t>>
    BY <1>2, <1>3, <1>4, <1>7, <2>1, CarriedAppend
  <2> HIDE DEF c
  <2>4. c \o <<t>> = Append(c, t)
    <3>1. <<t>> = Append(<<>>, t) /\ <<>> \in Seq(Data)
      OBVIOUS
    <3>2. c \o Append(<<>>, t) = Append(c \o <<>>, t) /\ c \o <<>> = c
      BY <1>1, <2>3, <3>1, ConcatAppend, ConcatEmptySeq
    <3> QED
      BY <3>1, <3>2
  <2> QED
    BY <2>2, <2>3, <2>4 DEF c
<1>8. CASE e.textBlock = -1
  <2>1. e.nextBlock = 0 /\ EncodeText(e, t) = <<x, y>>
    BY <1>5, <1>6, <1>8
  <2>2. Underway(Append(log, x), 1, 0, 0) /\ Carried(Append(log, x)) = Carried(log)
    BY <1>2, <1>3, <1>4, <2>1, UnderwayNext, OneMore
  <2>3. log \o <<x, y>> = Append(Append(log, x), y) /\ <<x, y>> \in Seq(Events)
    BY <1>2, <1>4, TwoMore
  <2>4. Underway(Append(Append(log, x), y), 1, 0, 0)
        /\ Carried(Append(Append(log, x), y)) = Append(Carried(log), t)
    BY <1>7, <2>2
  <2> QED
    BY <2>1, <2>3, <2>4
<1>9. CASE e.textBlock = 0
  <2>1. e.nextBlock = 1 /\ EncodeText(e, t) = <<y>>
    BY <1>5, <1>6, <1>9
  <2>2. log \o <<y>> = Append(log, y) /\ <<y>> \in Seq(Events)
    BY <1>2, <1>4, OneMore
  <2>3. Underway(Append(log, y), 1, 0, 0) /\ Carried(Append(log, y)) = Append(Carried(log), t)
    BY <1>7, <2>1
  <2> QED
    BY <2>1, <2>2, <2>3
<1> QED
  BY <1>6, <1>8, <1>9

\* The text's block is ended, and a message with no block gets one.
LEMMA TextEnded ==
    ASSUME NEW log, NEW e, EncoderOK(e), Underway(log, e.nextBlock, 0, 0)
    PROVE  /\ TextEnd(e) \in Seq(Events)
           /\ Carried(log \o TextEnd(e)) = Carried(log)
           /\ \E b \in 0..1 :
                /\ Underway(log \o TextEnd(e), b, b, 0)
                /\ DOMAIN e.tools # {} => e.nextBlock = b
                /\ DOMAIN e.tools = {} => b > 0
<1> DEFINE x == Bare("content_block_start", 0)
           z == Bare("content_block_stop", 0)
<1>1. x \in Events /\ z \in Events
  BY EmptySeq DEF Events, Event, Bare
<1>2. /\ x.type = "content_block_start" /\ x.index = 0
      /\ z.type = "content_block_stop" /\ z.index = 0
  BY DEF Event, Bare
<1>3. log \in Seq(Events)
  BY DEF Underway
<1>4. (e.textBlock = -1 /\ e.nextBlock = 0) \/ (e.textBlock = 0 /\ e.nextBlock = 1)
  BY DEF EncoderOK
<1>5. TextEnd(e) = IF e.textBlock # -1 THEN <<z>>
                   ELSE IF DOMAIN e.tools = {} THEN <<x, z>> ELSE <<>>
  BY <1>4 DEF TextEnd
<1> HIDE DEF x, z
<1>6. CASE e.textBlock = 0
  <2>1. TextEnd(e) = <<z>> /\ e.nextBlock = 1
    BY <1>4, <1>5, <1>6
  <2>2. /\ <<z>> \in Seq(Events) /\ log \o <<z>> = Append(log, z)
        /\ Carried(Append(log, z)) = Carried(log)
    BY <1>1, <1>2, <1>3, OneMore
  <2>3. Underway(Append(log, z), 1, 1, 0)
    BY <1>1, <1>2, <2>1, UnderwayNext
  <2>4. log \o TextEnd(e) = Append(log, z) /\ TextEnd(e) \in Seq(Events)
    BY <2>1, <2>2
  <2>5. 1 \in 0..1 /\ 1 > 0
    OBVIOUS
  <2> QED
    BY <2>1, <2>2, <2>3, <2>4, <2>5, Zenon
<1>7. CASE e.textBlock = -1 /\ DOMAIN e.tools = {}
  <2>1. TextEnd(e) = <<x, z>> /\ e.nextBlock = 0
    BY <1>4, <1>5, <1>7
  <2>2. /\ <<x, z>> \in Seq(Events) /\ log \o <<x, z>> = Append(Append(log, x), z)
        /\ Append(log, x) \in Seq(Events)
        /\ Carried(Append(log, x)) = Carried(log)
    BY <1>1, <1>2, <1>3, OneMore, TwoMore
  <2>3. Carried(Append(Append(log, x), z)) = Carried(Append(log, x))
    BY <1>1, <1>2, <2>2, OneMore
  <2>4. Underway(Append(log, x), 1, 0, 0)
    BY <1>1, <1>2, <2>1, UnderwayNext
  <2>5. Underway(Append(Append(log, x), z), 1, 1, 0)
    BY <1>1, <1>2, <2>4, UnderwayNext
  <2>6. log \o TextEnd(e) = Append(Append(log, x), z) /\ TextEnd(e) \in Seq(Events)
    BY <2>1, <2>2
  <2>7. 1 \in 0..1 /\ 1 > 0
    OBVIOUS
  <2> QED
    BY <1>7, <2>1, <2>2, <2>3, <2>5, <2>6, <2>7, Zenon
<1>8. CASE e.textBlock = -1 /\ DOMAIN e.tools # {}
  <2>1. TextEnd(e) = <<>> /\ e.nextBlock = 0
    BY <1>4, <1>5, <1>8
  <2>2. log \o <<>> = log /\ <<>> \in Seq(Events)
    BY <1>3, ConcatEmptySeq
  <2> QED
    BY <1>8, <2>1, <2>2
<1> QED
  BY <1>4, <1>6, <1>7, <1>8

\* A value that may be missing, or what stands for it.
LEMMA ValueOrType ==
    ASSUME NEW T, NEW S \in SUBSET T, NEW given \in Optional(S), NEW default \in T
    PROVE  ValueOr(given, default) \in T
<1>1. given = {} \/ \E x \in S : given = {x}
  BY DEF Optional
<1> QED
  BY <1>1 DEF ValueOr

\* The encoding of the end makes a well-formed whole of what went before, and
\* adds the arguments of the tools to what it carries.
LEMMA FinishedNext ==
    ASSUME NEW log, NEW e, EncoderOK(e), Underway(log, e.nextBlock, 0, 0),
           NEW reason \in StopReasons, NEW usage \in Optional(Usages)
    PROVE  /\ EncodeFinished(e, reason, usage) \in Seq(Events)
           /\ WellFormed(log \o EncodeFinished(e, reason, usage))
           /\ Carried(log \o EncodeFinished(e, reason, usage))
                = Carried(log) \o FlattenSeq(EncodedArguments(e))
<1> DEFINE d == Event("message_delta", 0, <<reason>>, ValueOr(usage, e.usage).output)
           z == Bare("message_stop", 0)
           a == TextEnd(e)
           ts == ToolBlocks(e)
           n == Cardinality(DOMAIN e.tools)
           l == (log \o a) \o ts
<1>1. d \in Events /\ z \in Events
  <2>1. <<>> \in Seq(Data) /\ <<reason>> \in Seq(Data) /\ <<>> \in Seq(Ids)
    BY DEF Data
  <2>2. ValueOr(usage, e.usage).output \in Nat
    <3>1. e.usage \in Usage /\ Usages \in SUBSET Usage
      BY StreamAssumption DEF EncoderOK
    <3>2. ValueOr(usage, e.usage) \in Usage
      BY <3>1, ValueOrType
    <3> QED
      BY <3>2 DEF Usage
  <2> QED
    BY <2>1, <2>2 DEF Events, Event, Bare, Data
<1>2. d.type = "message_delta" /\ z.type = "message_stop"
  BY DEF Event, Bare
<1>3. EncodeFinished(e, reason, usage) = (a \o ts) \o <<d, z>>
  BY DEF EncodeFinished
<1>4. log \in Seq(Events) /\ a \in Seq(Events) /\ Carried(log \o a) = Carried(log)
  BY TextEnded DEF Underway
<1>5. PICK b \in 0..1 :
        /\ Underway(log \o a, b, b, 0)
        /\ DOMAIN e.tools # {} => e.nextBlock = b
        /\ DOMAIN e.tools = {} => b > 0
  BY TextEnded
<1>6. /\ n \in Nat /\ ts \in Seq(Events) /\ Underway(l, b + n, b + n, 0)
      /\ Carried(l) = Carried(log \o a) \o FlattenSeq(EncodedArguments(e))
  BY <1>5, EncodedTools
<1>7. b + n > 0
  <2>1. DOMAIN e.tools # {} => n # 0
    BY FS_EmptySet DEF EncoderOK
  <2> HIDE DEF n
  <2> QED
    BY <1>5, <1>6, <2>1
<1> HIDE DEF d, z, a, ts, n, l
<1>8. l \in Seq(Events) /\ b + n \in Nat
  BY <1>6 DEF Underway
<1>9. /\ a \o ts \in Seq(Events) /\ <<d, z>> \in Seq(Events)
      /\ (a \o ts) \o <<d, z>> \in Seq(Events)
  BY <1>1, <1>4, <1>6, ConcatProperties
<1>10. log \o ((a \o ts) \o <<d, z>>) = Append(Append(l, d), z)
  <2> DEFINE m == a \o ts
             w == <<d, z>>
  <2>1. m \in Seq(Events) /\ w \in Seq(Events)
    BY <1>9
  <2>2. l \o w = Append(Append(l, d), z)
    BY <1>1, <1>8, TwoMore
  <2>3. (log \o a) \o ts = log \o m
    BY <1>4, <1>6, ConcatAssociative, SMTT(30)
  <2> HIDE DEF m, w
  <2>4. (log \o m) \o w = log \o (m \o w)
    BY <1>4, <2>1, ConcatAssociative, SMTT(30)
  <2> QED
    BY <2>2, <2>3, <2>4 DEF m, w, l
<1>11. Underway(Append(l, d), b + n, b + n, 1)
  <2> DEFINE k == b + n
  <2>1. k \in Nat /\ k > 0 /\ Underway(l, k, k, 0)
    BY <1>6, <1>7, <1>8
  <2> HIDE DEF k
  <2>2. Underway(Append(l, d), k, k, 1)
    BY <1>1, <1>2, <2>1, UnderwayNext
  <2> QED
    BY <2>2 DEF k
<1>12. WellFormed(Append(Append(l, d), z))
  BY <1>1, <1>2, <1>11, UnderwayNext
<1>13. /\ Append(l, d) \in Seq(Events) /\ Carried(Append(l, d)) = Carried(l)
  BY <1>1, <1>2, <1>8, OneMore
<1>14. Carried(Append(Append(l, d), z)) = Carried(Append(l, d))
  BY <1>1, <1>2, <1>13, OneMore
<1> QED
  BY <1>3, <1>4, <1>6, <1>9, <1>10, <1>12, <1>13, <1>14
-----------------------------------------------------------------------------
(* The invariant.                                                          *)

ParserType ==
    [tools : [Indexes -> StreamedTool], reason : StopReasons \union {None},
     usage : Optional(Usages)]

SaidType ==
    [parts : Nat, text : Seq(Texts), arguments : [Indexes -> Seq(Pieces)],
     reason : DOMAIN StopReason \union {None}, usage : Optional(Usages),
     late : BOOLEAN]

Shape ==
    /\ pc \in {"reading", "finished", "closed", "gone"}
    /\ parser \in ParserType
    /\ EncoderOK(encoder)
    /\ said \in SaidType
    /\ pending \in Seq(Events) /\ sent \in Seq(Events)

\* What the parser and the encoder hold of what was said.
Heard ==
    /\ parser.reason = None <=> said.reason = None
    /\ DOMAIN encoder.tools = {i \in Indexes : parser.tools[i].started}
    /\ \A i \in Indexes : /\ parser.tools[i].arguments = said.arguments[i]
                          /\ parser.tools[i].started => parser.tools[i].seen
    /\ \A i \in DOMAIN encoder.tools : encoder.tools[i].arguments = said.arguments[i]

\* Up to its end a message has at most the block of the text, which is open.
Reading ==
    pc = "reading" => Underway(Full, encoder.nextBlock, 0, 0) /\ Carried(Full) = said.text

\* A message that is over is whole, also where it has not been yielded.
Whole ==
    Count(Full, Len(Full), "message_stop") # 0 =>
        /\ parser.reason # None
        /\ ToolsValid(parser.tools)
        /\ Carried(Full) = said.text \o SaidArguments

StreamInv == Shape /\ Heard /\ WellFormed(Full) /\ Reading /\ Whole
-----------------------------------------------------------------------------
(* The invariant holds.                                                    *)

\* A stream begins with its message_start, not yet yielded.
LEMMA StreamStart == Init => StreamInv
<1> SUFFICES ASSUME Init PROVE StreamInv
  OBVIOUS
<1> DEFINE x == Event("message_start", 0, <<>>, Estimate)
           log == Append(<<>>, x)
<1>1. x \in Events /\ x.type = "message_start"
  BY EmptySeq, StreamAssumption DEF Event, Events
<1>2. <<>> \in Seq(Events) /\ Len(<<>>) = 0
  BY EmptySeq
<1>3. Full = log
  <2> HIDE DEF x
  <2>1. <<>> \o <<x>> = log
    BY <1>1, <1>2, OneMore
  <2> QED
    BY <2>1 DEF Init, Full, x
<1>4. \A type : Count(<<>>, 0, type) = 0
  <2>1. \A type : {i \in 1..0 : <<>>[i].type = type} = {}
    OBVIOUS
  <2> QED
    BY <2>1, FS_EmptySet DEF Count
<1> HIDE DEF x
<1>5. log \in Seq(Events) /\ WellFormed(log)
  <2>1. WellFormed(<<>>)
    BY DEF WellFormed
  <2>2. AllowedAfter(<<>>, 0, x)
    BY <1>1 DEF AllowedAfter
  <2> QED
    BY <1>1, <1>2, <2>1, <2>2, WellFormedAppend
<1>6. \A type : Count(log, Len(log), type) = IF x.type = type THEN 1 ELSE 0
  <2> TAKE type
  <2>1. Count(log, Len(log), type) = Count(<<>>, 0, type) + (IF x.type = type THEN 1 ELSE 0)
    <3> DEFINE empty == <<>>
    <3>1. empty \in Seq(Events) /\ Len(empty) = 0 /\ log = Append(empty, x)
      BY <1>2
    <3> HIDE DEF empty, log
    <3>2. Count(log, Len(log), type) = Count(empty, Len(empty), type) + (IF x.type = type THEN 1 ELSE 0)
      BY <1>1, <3>1, CountAppend
    <3> QED
      BY <3>1, <3>2 DEF empty
  <2> QED
    BY <1>4, <2>1
<1>7. Carried(log) = <<>>
  BY <1>1, <1>2, OneMore, CarriedEmpty
<1> HIDE DEF log
<1>8. encoder.nextBlock = 0 /\ said.text = <<>>
  BY DEF Init
<1>9. Reading /\ Whole /\ WellFormed(Full)
  <2>1. Underway(log, 0, 0, 0)
    BY <1>1, <1>5, <1>6 DEF Underway
  <2> QED
    BY <1>1, <1>3, <1>5, <1>6, <1>7, <1>8, <2>1 DEF Reading, Whole
<1>10. Shape
  <2>1. NoTool \in StreamedTool
    BY EmptySeq DEF NoTool, StreamedTool
  <2>2. <<x>> \in Seq(Events)
    BY <1>1
  <2>3. EncoderOK(encoder)
    <3>1. encoder = [nextBlock |-> 0, textBlock |-> -1, tools |-> <<>>,
                     usage |-> [input |-> Estimate, output |-> 0]]
      BY DEF Init
    <3>2. DOMAIN encoder.tools = {} /\ encoder.tools \in [{} -> BufferedTool]
      BY <3>1
    <3>3. [input |-> Estimate, output |-> 0] \in Usage
      BY StreamAssumption DEF Usage
    <3> QED
      BY <3>1, <3>2, <3>3, FS_EmptySet DEF EncoderOK
  <2>4. parser \in ParserType
    BY <2>1 DEF Init, ParserType, Optional
  <2>5. said \in SaidType
    BY EmptySeq DEF Init, SaidType, Optional
  <2> QED
    BY <1>2, <2>2, <2>3, <2>4, <2>5 DEF Init, Shape, x
<1>11. Heard
  BY DEF Init, Heard, NoTool
<1> QED
  BY <1>9, <1>10, <1>11 DEF StreamInv

\* The log keeps its meaning in a step that encodes nothing.
LEMMA LogKept ==
    ASSUME Reading, Whole, WellFormed(Full), Full' = Full,
           pc' = "reading" => pc = "reading",
           encoder'.nextBlock = encoder.nextBlock, said'.text = said.text,
           pc # "reading" => parser' = parser /\ said' = said
    PROVE  Reading' /\ Whole' /\ WellFormed(Full)'
<1>1. WellFormed(Full)' /\ Reading'
  BY DEF Reading
<1>2. CASE pc = "reading"
  BY <1>2 DEF Reading, Whole, Underway
<1>3. CASE pc # "reading"
  <2>1. SaidArguments' = SaidArguments
    BY <1>3 DEF SaidArguments, Seen
  <2> QED
    BY <1>1, <1>3, <2>1 DEF Whole
<1> QED
  BY <1>1, <1>2, <1>3

\* A yield moves an event from what is pending to what was sent.
LEMMA YieldKeeps ==
    ASSUME NEW T, NEW s \in Seq(T), NEW p \in Seq(T), p # <<>>
    PROVE  /\ Head(p) \in T /\ Tail(p) \in Seq(T) /\ Append(s, Head(p)) \in Seq(T)
           /\ Append(s, Head(p)) \o Tail(p) = s \o p
<1>1. Head(p) \in T /\ Tail(p) \in Seq(T) /\ Len(p) \in Nat /\ Len(p) > 0 /\ Len(s) \in Nat
  BY HeadTailProperties, EmptySeq, LenProperties
<1> DEFINE a == Append(s, Head(p)) \o Tail(p)
           b == s \o p
<1>2. Append(s, Head(p)) \in Seq(T)
  BY <1>1, AppendProperties
<1>3. a \in Seq(T) /\ b \in Seq(T)
  BY <1>1, <1>2, ConcatProperties
<1>4. Len(a) = Len(b) /\ \A i \in 1..Len(b) : a[i] = b[i]
  OBVIOUS
<1> HIDE DEF a, b
<1>5. a = b
  BY <1>3, <1>4, SeqEqual
<1> QED
  BY <1>1, <1>2, <1>5 DEF a, b

\* A fragment of text goes into the open block, or opens it.
LEMMA SayTextStep ==
    ASSUME StreamInv, NEW t \in Texts, SayText(t)
    PROVE  StreamInv'
<1> DEFINE e == encoder
           s == EncodeText(encoder, t)
<1>1. /\ pc = "reading" /\ pending = <<>> /\ pending' = s /\ sent' = sent /\ pc' = pc
      /\ parser' = parser
      /\ encoder' = IF e.textBlock # -1 THEN e
                    ELSE [e EXCEPT !.textBlock = e.nextBlock, !.nextBlock = @ + 1]
      /\ said' = [said EXCEPT !.parts = @ + 1, !.text = Append(@, t)]
  BY Zenon DEF SayText, Say, Listening
<1>2. sent \in Seq(Events) /\ Full = sent /\ EncoderOK(e)
  <2>1. sent \in Seq(Events)
    BY DEF StreamInv, Shape
  <2>2. sent \o <<>> = sent
    BY <2>1, ConcatEmptySeq
  <2> QED
    BY <1>1, <2>1, <2>2 DEF StreamInv, Shape, Full
<1>3. Underway(sent, e.nextBlock, 0, 0) /\ Carried(sent) = said.text
  BY <1>1, <1>2 DEF StreamInv, Reading
<1>4. /\ s \in Seq(Events) /\ Underway(sent \o s, 1, 0, 0)
      /\ Carried(sent \o s) = Append(said.text, t)
  BY <1>2, <1>3, TextNext
<1>5. Full' = sent \o s
  BY <1>1 DEF Full
<1>6. /\ EncoderOK(encoder') /\ encoder'.nextBlock = 1 /\ encoder'.tools = encoder.tools
  <2>1. CASE encoder.textBlock # -1
    <3>1. encoder' = encoder /\ encoder.textBlock = 0
      BY <1>1, <1>2, <2>1 DEF EncoderOK
    <3> QED
      BY <1>2, <3>1 DEF EncoderOK
  <2>2. CASE encoder.textBlock = -1
    <3>1. encoder.nextBlock = 0
      BY <1>2, <2>2 DEF EncoderOK
    <3>2. encoder' = [encoder EXCEPT !.textBlock = 0, !.nextBlock = 1]
      BY <1>1, <2>2, <3>1
    <3>3. /\ encoder'.nextBlock = 1 /\ encoder'.textBlock = 0
          /\ encoder'.tools = encoder.tools
          /\ encoder' \in [nextBlock : 0..1, textBlock : {-1, 0}, tools : {encoder.tools},
                           usage : Usage]
      <4> DEFINE A == 0..1
                 B == {-1, 0}
                 C == Usage
                 tl == encoder.tools
      <4>1. 1 \in A /\ 0 \in B /\ encoder \in [nextBlock : A, textBlock : B, tools : {tl}, usage : C]
        BY <1>2 DEF EncoderOK
      <4> HIDE DEF A, B, C, tl
      <4>2. /\ encoder'.nextBlock = 1 /\ encoder'.textBlock = 0 /\ encoder'.tools = tl
            /\ encoder' \in [nextBlock : A, textBlock : B, tools : {tl}, usage : C]
        BY <3>2, <4>1
      <4> QED
        BY <4>2 DEF A, B, C, tl
    <3> QED
      BY <1>2, <3>3 DEF EncoderOK
  <2> QED
    BY <2>1, <2>2
<1>7. said \in SaidType /\ Append(said.text, t) \in Seq(Texts) /\ said.parts + 1 \in Nat
  <2>1. said \in SaidType
    BY DEF StreamInv, Shape
  <2> QED
    BY <2>1, AppendProperties DEF SaidType
<1>8. /\ said' \in SaidType /\ said'.text = Append(said.text, t)
      /\ said'.arguments = said.arguments /\ said'.reason = said.reason
  <2> DEFINE more == Append(said.text, t)
  <2>1. said' = [said EXCEPT !.parts = said.parts + 1, !.text = more] /\ more \in Seq(Texts)
    BY <1>1, <1>7
  <2> HIDE DEF more
  <2>2. /\ said' \in SaidType /\ said'.text = more
        /\ said'.arguments = said.arguments /\ said'.reason = said.reason
    BY <1>7, <2>1 DEF SaidType
  <2> QED
    BY <2>2 DEF more
<1> HIDE DEF s
<1>9. Shape'
  BY <1>1, <1>2, <1>4, <1>6, <1>8 DEF StreamInv, Shape
<1>10. Heard'
  BY <1>1, <1>6, <1>8 DEF StreamInv, Heard
<1>11. Reading' /\ WellFormed(Full)'
  BY <1>4, <1>5, <1>6, <1>8 DEF Reading, Underway
<1>12. Whole'
  BY <1>4, <1>5 DEF Whole, Underway
<1> QED
  BY <1>9, <1>10, <1>11, <1>12 DEF StreamInv

\* A count of tokens goes to the parser and to the encoder.
LEMMA SayUsageStep ==
    ASSUME StreamInv, NEW u \in Usages, SayUsage(u)
    PROVE  StreamInv'
<1>1. /\ pc = "reading" /\ pc' = pc /\ pending' = pending /\ sent' = sent
      /\ parser' = [parser EXCEPT !.usage = {u}]
      /\ encoder' = [encoder EXCEPT !.usage = u]
      /\ said' = [said EXCEPT !.parts = @ + 1, !.usage = {u}]
  BY Zenon DEF SayUsage, Say, Listening
<1>2. Shape' /\ encoder'.nextBlock = encoder.nextBlock /\ encoder'.tools = encoder.tools
  <2>0. u \in Usage /\ {u} \in Optional(Usages)
    BY StreamAssumption DEF Optional
  <2>1. EncoderOK(encoder') /\ encoder'.nextBlock = encoder.nextBlock /\ encoder'.tools = encoder.tools
    BY <1>1, <2>0 DEF StreamInv, Shape, EncoderOK
  <2>2. parser' \in ParserType
    BY <1>1, <2>0 DEF StreamInv, Shape, ParserType
  <2>3. said' \in SaidType
    <3> DEFINE p == said.parts + 1
    <3>1. said \in SaidType /\ p \in Nat /\ said' = [said EXCEPT !.parts = p, !.usage = {u}]
      BY <1>1 DEF StreamInv, Shape, SaidType
    <3> HIDE DEF p
    <3> QED
      BY <2>0, <3>1 DEF SaidType
  <2> QED
    BY <1>1, <2>1, <2>2, <2>3 DEF StreamInv, Shape
<1>3. /\ said'.text = said.text /\ said'.arguments = said.arguments /\ said'.reason = said.reason
      /\ parser'.tools = parser.tools /\ parser'.reason = parser.reason
  BY <1>1 DEF StreamInv, Shape, ParserType, SaidType
<1>4. Heard'
  BY <1>2, <1>3 DEF StreamInv, Heard
<1>5. Full' = Full
  BY <1>1 DEF Full
<1>6. Reading' /\ Whole' /\ WellFormed(Full)'
  BY <1>1, <1>2, <1>3, <1>5, LogKept DEF StreamInv
<1> QED
  BY <1>2, <1>4, <1>6 DEF StreamInv

\* A reason to stop is only remembered.
LEMMA SayReasonStep ==
    ASSUME StreamInv, NEW reason \in Reasons, SayReason(reason)
    PROVE  StreamInv'
<1>1. /\ pc = "reading" /\ pc' = pc /\ pending' = pending /\ sent' = sent /\ encoder' = encoder
      /\ parser' = [parser EXCEPT !.reason = StopReason[reason]]
      /\ said' = [said EXCEPT !.parts = @ + 1, !.reason = reason]
  BY Zenon DEF SayReason, Say, Listening
<1>2. /\ reason \in DOMAIN StopReason /\ StopReason[reason] \in StopReasons
      /\ reason # None /\ StopReason[reason] # None
  <2>1. reason \in DOMAIN StopReason
    BY StreamAssumption
  <2>2. StopReason[reason] \in StopReasons
    BY <2>1 DEF StopReasons
  <2>3. reason # None /\ StopReason[reason] # None
    BY <2>1 DEF StopReason, None
  <2> QED
    BY <2>1, <2>2, <2>3
<1>3. Shape'
  <2>1. parser' \in ParserType
    BY <1>1, <1>2 DEF StreamInv, Shape, ParserType
  <2>2. said' \in SaidType
    <3> DEFINE p == said.parts + 1
    <3>1. said \in SaidType /\ p \in Nat /\ said' = [said EXCEPT !.parts = p, !.reason = reason]
      BY <1>1 DEF StreamInv, Shape, SaidType
    <3> HIDE DEF p
    <3> QED
      BY <1>2, <3>1 DEF SaidType
  <2> QED
    BY <1>1, <2>1, <2>2 DEF StreamInv, Shape
<1>4. /\ said'.text = said.text /\ said'.arguments = said.arguments /\ said'.reason = reason
      /\ parser'.tools = parser.tools /\ parser'.reason = StopReason[reason]
  BY <1>1 DEF StreamInv, Shape, ParserType, SaidType
<1>5. Heard'
  BY <1>1, <1>2, <1>4 DEF StreamInv, Heard
<1>6. Full' = Full
  BY <1>1 DEF Full
<1>7. Reading' /\ Whole' /\ WellFormed(Full)'
  BY <1>1, <1>4, <1>6, LogKept DEF StreamInv
<1> QED
  BY <1>3, <1>5, <1>7 DEF StreamInv

\* A fragment of a tool call: the parser takes it, and the encoder has the
\* whole of the arguments as soon as the call is announced.
LEMMA SayToolStep ==
    ASSUME StreamInv, NEW i \in Indexes, NEW id \in Short(Ids),
           NEW name \in Short(Names), NEW arguments \in Short(Pieces),
           SayTool(i, id, name, arguments)
    PROVE  StreamInv'
<1> DEFINE tool == parser.tools[i]
           grown == Grown(tool, id, name, arguments)
           delta == Forwarded(tool, grown, arguments)
           D == DOMAIN encoder.tools
           heard == said.arguments[i] \o arguments
           late == said.late \/ (tool.started /\ (id # <<>> \/ name # <<>>))
<1>1. /\ pc = "reading" /\ pc' = pc /\ pending' = pending /\ sent' = sent
      /\ parser' = [parser EXCEPT !.tools[i] = grown]
      /\ encoder' =
           IF ~grown.started THEN encoder
           ELSE IF ~tool.started
           THEN [encoder EXCEPT !.tools =
                   [j \in {i} \union DOMAIN @ |->
                      IF j = i THEN [id |-> grown.id, name |-> grown.name, arguments |-> delta]
                      ELSE @[j]]]
           ELSE [encoder EXCEPT !.tools[i].arguments = @ \o delta]
      /\ said' = [said EXCEPT !.parts = @ + 1, !.arguments[i] = @ \o arguments,
                              !.late = @ \/ (tool.started /\ (id # <<>> \/ name # <<>>))]
  BY Zenon DEF SayTool, Say, Listening
<1>2. id \in Seq(Ids) /\ name \in Seq(Names) /\ arguments \in Seq(Pieces)
  <2>1. ASSUME NEW S, NEW x \in Short(S)
        PROVE  x \in Seq(S)
    <3>1. x = <<>> \/ \E s \in S : x = <<s>>
      BY DEF Short
    <3>2. <<>> \in Seq(S) /\ \A s \in S : <<s>> \in Seq(S)
      OBVIOUS
    <3> QED
      BY <3>1, <3>2
  <2> QED
    BY <2>1
<1>3. /\ parser \in ParserType /\ said \in SaidType /\ EncoderOK(encoder)
      /\ tool \in StreamedTool /\ tool.arguments = said.arguments[i]
      /\ tool.started <=> i \in D
      /\ tool.started => encoder.tools[i].arguments = said.arguments[i]
      /\ said.arguments[i] \in Seq(Pieces)
  BY DEF StreamInv, Shape, Heard, ParserType, SaidType
<1>4. /\ tool.name \in Seq(Names) /\ tool.arguments \in Seq(Pieces)
      /\ tool.id \in Seq(Ids) /\ tool.started \in BOOLEAN
  BY <1>3 DEF StreamedTool
<1>5. tool.id \o id \in Seq(Ids) /\ tool.name \o name \in Seq(Names) /\ heard \in Seq(Pieces)
  BY <1>2, <1>3, <1>4, ConcatProperties
<1>6. /\ grown \in StreamedTool /\ grown.arguments = heard /\ grown.seen
      /\ tool.started => grown.started
      /\ grown.id = tool.id \o id /\ grown.name = tool.name \o name
  <2>1. /\ grown.id = tool.id \o id /\ grown.name = tool.name \o name
        /\ grown.arguments = tool.arguments \o arguments /\ grown.seen = TRUE
        /\ grown.started = (tool.started \/ (tool.id \o id # <<>> /\ tool.name \o name # <<>>))
        /\ grown = [id |-> grown.id, name |-> grown.name, arguments |-> grown.arguments,
                    started |-> grown.started, seen |-> grown.seen]
    BY DEF Grown
  <2>2. grown.started \in BOOLEAN
    BY <2>1
  <2> HIDE DEF tool, grown
  <2> QED
    BY <1>3, <1>5, <2>1, <2>2 DEF StreamedTool
<1> HIDE DEF tool, grown, heard, late
<1>7. /\ grown.started /\ ~tool.started => delta = heard
      /\ grown.started /\ tool.started => delta = arguments
  BY <1>3 DEF Forwarded, heard
<1> HIDE DEF delta
<1>8. /\ parser' \in ParserType /\ parser'.reason = parser.reason
      /\ parser'.tools = [parser.tools EXCEPT ![i] = grown]
  BY <1>1, <1>3, <1>6 DEF ParserType
<1>9. /\ said' \in SaidType /\ said'.text = said.text /\ said'.reason = said.reason
      /\ said'.arguments = [said.arguments EXCEPT ![i] = heard]
  <2> DEFINE p == said.parts + 1
  <2>1. p \in Nat /\ said' = [said EXCEPT !.parts = p, !.arguments[i] = heard, !.late = late]
    BY <1>1, <1>3 DEF SaidType, heard, late
  <2>2. late \in BOOLEAN
    BY <1>3, <1>4 DEF SaidType, late
  <2> HIDE DEF p
  <2> QED
    BY <1>3, <1>5, <2>1, <2>2 DEF SaidType
<1>10. /\ EncoderOK(encoder') /\ encoder'.nextBlock = encoder.nextBlock
       /\ DOMAIN encoder'.tools = IF grown.started THEN {i} \union D ELSE D
       /\ \A j \in D : j # i => encoder'.tools[j] = encoder.tools[j]
       /\ grown.started => encoder'.tools[i].arguments = heard
  <2>1. /\ encoder \in [nextBlock : 0..1, textBlock : {-1, 0}, tools : {encoder.tools},
                       usage : Usage]
        /\ D \subseteq Indexes /\ IsFiniteSet(D) /\ encoder.tools \in [D -> BufferedTool]
        /\ encoder.nextBlock = encoder.textBlock + 1
    BY <1>3 DEF EncoderOK
  <2>2. ASSUME NEW E, E \subseteq Indexes, IsFiniteSet(E),
               NEW new \in [E -> BufferedTool], encoder' = [encoder EXCEPT !.tools = new]
        PROVE  /\ EncoderOK(encoder') /\ encoder'.nextBlock = encoder.nextBlock
               /\ encoder'.tools = new /\ DOMAIN encoder'.tools = E
    <3> DEFINE A == 0..1
               B == {-1, 0}
               C == Usage
               tl == encoder.tools
    <3>1. encoder \in [nextBlock : A, textBlock : B, tools : {tl}, usage : C]
      BY <2>1
    <3> HIDE DEF A, B, C, tl
    <3>2. /\ encoder'.nextBlock = encoder.nextBlock /\ encoder'.textBlock = encoder.textBlock
          /\ encoder'.tools = new
          /\ encoder' \in [nextBlock : A, textBlock : B, tools : {new}, usage : C]
      BY <2>2, <3>1
    <3>3. DOMAIN encoder'.tools = E
      BY <3>2
    <3> QED
      BY <2>1, <2>2, <3>2, <3>3 DEF EncoderOK, A, B, C
  <2> HIDE DEF D
  <2>3. CASE ~grown.started
    <3>1. encoder' = encoder
      BY <1>1, <2>3
    <3> QED
      BY <1>3, <2>3, <3>1 DEF D
  <2>4. CASE grown.started /\ ~tool.started
    <3> DEFINE one == [id |-> grown.id, name |-> grown.name, arguments |-> delta]
               new == [j \in {i} \union D |-> IF j = i THEN one ELSE encoder.tools[j]]
    <3>1. one \in BufferedTool /\ one.arguments = heard
      BY <1>4, <1>5, <1>6, <1>7, <2>4 DEF BufferedTool
    <3>2. encoder' = [encoder EXCEPT !.tools = new]
      BY <1>1, <2>1, <2>4 DEF D
    <3> HIDE DEF one
    <3>3. new \in [{i} \union D -> BufferedTool]
      BY <2>1, <3>1
    <3>4. /\ new[i] = one
          /\ \A j \in D : j # i => new[j] = encoder.tools[j]
      OBVIOUS
    <3>5. {i} \union D \subseteq Indexes /\ IsFiniteSet({i} \union D)
      <4>1. IsFiniteSet(D \union {i}) /\ D \union {i} = {i} \union D
        BY <2>1, FS_AddElement
      <4> QED
        BY <2>1, <4>1
    <3> HIDE DEF new
    <3>6. /\ EncoderOK(encoder') /\ encoder'.nextBlock = encoder.nextBlock
          /\ encoder'.tools = new /\ DOMAIN encoder'.tools = {i} \union D
      BY <2>2, <3>2, <3>3, <3>5
    <3> QED
      BY <2>4, <3>1, <3>4, <3>6
  <2>5. CASE grown.started /\ tool.started
    <3> DEFINE new == [encoder.tools EXCEPT ![i].arguments = heard]
    <3>1. i \in D /\ encoder.tools[i] \in BufferedTool /\ encoder.tools[i].arguments \o delta = heard
      BY <1>3, <1>7, <2>1, <2>5 DEF heard
    <3>2. encoder' = [encoder EXCEPT !.tools = new]
      BY <1>1, <2>1, <2>5, <3>1
    <3>3. new \in [D -> BufferedTool] /\ new[i].arguments = heard
      BY <1>5, <2>1, <3>1 DEF BufferedTool
    <3>4. \A j \in D : j # i => new[j] = encoder.tools[j]
      BY <2>1
    <3> HIDE DEF new
    <3>5. /\ EncoderOK(encoder') /\ encoder'.nextBlock = encoder.nextBlock
          /\ encoder'.tools = new /\ DOMAIN encoder'.tools = D
      BY <2>1, <2>2, <3>2, <3>3
    <3>6. {i} \union D = D
      BY <3>1
    <3> QED
      BY <2>5, <3>3, <3>4, <3>5, <3>6
  <2> QED
    BY <1>6, <2>3, <2>4, <2>5
<1>11. Shape'
  BY <1>1, <1>8, <1>9, <1>10 DEF StreamInv, Shape
<1>12. Heard'
  <2>1. \A j \in Indexes : /\ parser'.tools[j] = IF j = i THEN grown ELSE parser.tools[j]
                           /\ said'.arguments[j] = IF j = i THEN heard ELSE said.arguments[j]
    BY <1>3, <1>8, <1>9 DEF ParserType, SaidType
  <2>2. D = {j \in Indexes : parser.tools[j].started}
    BY DEF StreamInv, Heard
  <2>3. DOMAIN encoder'.tools = {j \in Indexes : parser'.tools[j].started}
    <3> HIDE DEF D
    <3> QED
      BY <1>3, <1>6, <1>10, <2>1, <2>2 DEF tool
  <2>4. parser'.reason = None <=> said'.reason = None
    BY <1>8, <1>9 DEF StreamInv, Heard
  <2>5. \A j \in Indexes : /\ parser'.tools[j].arguments = said'.arguments[j]
                           /\ parser'.tools[j].started => parser'.tools[j].seen
    BY <1>6, <2>1 DEF StreamInv, Heard
  <2>6. \A j \in DOMAIN encoder'.tools : encoder'.tools[j].arguments = said'.arguments[j]
    <3>1. \A j \in D : encoder.tools[j].arguments = said.arguments[j]
      BY DEF StreamInv, Heard
    <3> HIDE DEF D
    <3> QED
      BY <1>3, <1>6, <1>10, <2>1, <2>2, <3>1 DEF tool
  <2> QED
    BY <2>3, <2>4, <2>5, <2>6 DEF Heard
<1>13. Full' = Full
  BY <1>1 DEF Full
<1>14. Reading' /\ Whole' /\ WellFormed(Full)'
  BY <1>1, <1>9, <1>10, <1>13, LogKept DEF StreamInv
<1> QED
  BY <1>11, <1>12, <1>14 DEF StreamInv

\* A failure ends the stream as it is, with an error.
LEMMA FailStep ==
    ASSUME StreamInv, Listening, Fail
    PROVE  StreamInv'
<1> DEFINE x == Bare("error", 0)
<1>1. /\ pc = "reading" /\ pending = <<>> /\ pc' = "finished" /\ pending' = <<x>>
      /\ parser' = parser /\ encoder' = encoder /\ sent' = sent /\ said' = said
  BY Zenon DEF Listening, Fail
<1>2. x \in Events /\ x.type = "error"
  BY EmptySeq DEF Bare, Event, Events
<1> HIDE DEF x
<1>3. sent \in Seq(Events) /\ Full = sent
  <2>1. sent \in Seq(Events)
    BY DEF StreamInv, Shape
  <2>2. sent \o <<>> = sent
    BY <2>1, ConcatEmptySeq
  <2> QED
    BY <1>1, <2>1, <2>2 DEF Full
<1>4. Underway(sent, encoder.nextBlock, 0, 0)
  BY <1>1, <1>3 DEF StreamInv, Reading
<1>5. Full' = Append(sent, x) /\ <<x>> \in Seq(Events)
  <2>1. sent \o <<x>> = Append(sent, x) /\ <<x>> \in Seq(Events)
    BY <1>2, <1>3, OneMore
  <2> QED
    BY <1>1, <2>1 DEF Full
<1>6. WellFormed(Append(sent, x))
  BY <1>2, <1>4, UnderwayNext
<1>7. Count(Append(sent, x), Len(Append(sent, x)), "message_stop") = 0
  BY <1>2, <1>3, <1>4, CountAppend DEF Underway
<1>8. Shape' /\ Heard'
  BY <1>1, <1>5 DEF StreamInv, Shape, Heard
<1>9. Reading' /\ Whole' /\ WellFormed(Full)'
  BY <1>1, <1>5, <1>6, <1>7 DEF Reading, Whole
<1> QED
  BY <1>8, <1>9 DEF StreamInv

\* When every call is whole, the encoder has them all, with all that was said.
LEMMA EncodedIsSaid ==
    ASSUME StreamInv, ToolsValid(parser.tools)
    PROVE  FlattenSeq(EncodedArguments(encoder)) = SaidArguments
<1>1. Seen = DOMAIN encoder.tools
  BY DEF StreamInv, Heard, Seen, ToolsValid
<1>2. Seen \in SUBSET Nat /\ IsFiniteSet(Seen)
  BY <1>1, StreamAssumption DEF StreamInv, Shape, EncoderOK
<1>3. \A k \in 1..Cardinality(Seen) : InOrder(Seen)[k] \in Seen
  BY <1>2, InOrderType
<1>4. EncodedArguments(encoder) = [k \in 1..Cardinality(Seen) |-> said.arguments[InOrder(Seen)[k]]]
  <2>1. EncodedArguments(encoder)
          = [k \in 1..Cardinality(Seen) |-> encoder.tools[InOrder(Seen)[k]].arguments]
    BY <1>1 DEF EncodedArguments
  <2>2. \A k \in 1..Cardinality(Seen) :
          encoder.tools[InOrder(Seen)[k]].arguments = said.arguments[InOrder(Seen)[k]]
    BY <1>1, <1>3 DEF StreamInv, Heard
  <2> QED
    BY <2>1, <2>2
<1> QED
  BY <1>4 DEF SaidArguments

\* The end of the provider's stream: all is encoded, or it is an error.
LEMMA UpstreamEndsStep ==
    ASSUME StreamInv, UpstreamEnds
    PROVE  StreamInv'
<1> DEFINE s == EncodeFinished(encoder, parser.reason, parser.usage)
<1>1. Listening
  BY Zenon DEF UpstreamEnds
<1>2. CASE Fail
  BY <1>1, <1>2, FailStep
<1>3. CASE ~Fail
  <2>1. /\ pc = "reading" /\ pending = <<>> /\ pc' = "finished" /\ pending' = s
        /\ parser' = parser /\ encoder' = encoder /\ sent' = sent /\ said' = said
        /\ ToolsValid(parser.tools) /\ parser.reason # None
    BY <1>3, Zenon DEF UpstreamEnds, Listening
  <2>2. /\ sent \in Seq(Events) /\ Full = sent /\ EncoderOK(encoder)
        /\ parser.reason \in StopReasons /\ parser.usage \in Optional(Usages)
    <3>1. sent \in Seq(Events)
      BY DEF StreamInv, Shape
    <3>2. sent \o <<>> = sent
      BY <3>1, ConcatEmptySeq
    <3> QED
      BY <2>1, <3>1, <3>2 DEF StreamInv, Shape, ParserType, Full
  <2>3. Underway(sent, encoder.nextBlock, 0, 0) /\ Carried(sent) = said.text
    BY <2>1, <2>2 DEF StreamInv, Reading
  <2>4. /\ s \in Seq(Events) /\ WellFormed(sent \o s)
        /\ Carried(sent \o s) = said.text \o SaidArguments
    <3>1. FlattenSeq(EncodedArguments(encoder)) = SaidArguments
      BY <2>1, EncodedIsSaid
    <3> QED
      BY <2>2, <2>3, <3>1, FinishedNext
  <2> HIDE DEF s
  <2>5. Full' = sent \o s
    BY <2>1 DEF Full
  <2>6. SaidArguments' = SaidArguments
    BY <2>1 DEF SaidArguments, Seen
  <2>7. Shape' /\ Heard'
    BY <2>1, <2>4 DEF StreamInv, Shape, Heard
  <2>8. Reading' /\ Whole' /\ WellFormed(Full)'
    BY <2>1, <2>4, <2>5, <2>6 DEF Reading, Whole
  <2> QED
    BY <2>7, <2>8 DEF StreamInv
<1> QED
  BY <1>2, <1>3

\* Every step keeps the invariant.
LEMMA StreamStep == StreamInv /\ [Next]_vars => StreamInv'
<1> SUFFICES ASSUME StreamInv, [Next]_vars PROVE StreamInv'
  OBVIOUS
<1>1. ASSUME NEW t \in Texts, SayText(t) PROVE StreamInv'
  BY <1>1, SayTextStep
<1>2. ASSUME NEW i \in Indexes, NEW id \in Short(Ids), NEW name \in Short(Names),
             NEW arguments \in Short(Pieces), SayTool(i, id, name, arguments)
      PROVE  StreamInv'
  BY <1>2, SayToolStep
<1>3. ASSUME NEW u \in Usages, SayUsage(u) PROVE StreamInv'
  BY <1>3, SayUsageStep
<1>4. ASSUME NEW reason \in Reasons, SayReason(reason) PROVE StreamInv'
  BY <1>4, SayReasonStep
<1>5. CASE UpstreamEnds
  BY <1>5, UpstreamEndsStep
<1>6. CASE UpstreamBreaks \/ IdleTimeout
  BY <1>6, FailStep DEF UpstreamBreaks, IdleTimeout
<1>7. CASE Yield
  <2>1. /\ pending # <<>> /\ sent' = Append(sent, Head(pending)) /\ pending' = Tail(pending)
        /\ pc' = pc /\ parser' = parser /\ encoder' = encoder /\ said' = said
    BY <1>7, Zenon DEF Yield
  <2>2. sent \in Seq(Events) /\ pending \in Seq(Events)
    BY DEF StreamInv, Shape
  <2>3. /\ Tail(pending) \in Seq(Events) /\ Append(sent, Head(pending)) \in Seq(Events)
        /\ Append(sent, Head(pending)) \o Tail(pending) = sent \o pending
    BY <2>1, <2>2, YieldKeeps
  <2>4. Full' = Full
    BY <2>1, <2>3 DEF Full
  <2>5. Shape' /\ Heard'
    BY <2>1, <2>3 DEF StreamInv, Shape, Heard
  <2>6. Reading' /\ Whole' /\ WellFormed(Full)'
    BY <2>1, <2>4, LogKept DEF StreamInv
  <2> QED
    BY <2>5, <2>6 DEF StreamInv
<1>8. CASE Close \/ ClientLeaves \/ UNCHANGED vars
  <2>1. /\ pc' = "closed" \/ pc' = "gone" \/ pc' = pc
        /\ parser' = parser /\ encoder' = encoder /\ said' = said
        /\ pending' = pending /\ sent' = sent
    BY <1>8, Zenon DEF Close, ClientLeaves, vars
  <2>2. Full' = Full
    BY <2>1 DEF Full
  <2>3. Shape' /\ Heard'
    BY <2>1 DEF StreamInv, Shape, Heard
  <2>4. pc' = "reading" => pc = "reading"
    BY <2>1
  <2>5. Reading' /\ Whole' /\ WellFormed(Full)'
    BY <2>1, <2>2, <2>4, LogKept DEF StreamInv
  <2> QED
    BY <2>3, <2>5 DEF StreamInv
<1> QED
  BY <1>1, <1>2, <1>3, <1>4, <1>5, <1>6, <1>7, <1>8 DEF Next

\* The invariant holds in every state.
THEOREM StreamInvariant == Spec => []StreamInv
  BY StreamStart, StreamStep, PTL DEF Spec
-----------------------------------------------------------------------------
(* What follows from it.                                                   *)

\* The state has the shape the code gives it, and the encoder holds just the
\* tools that the parser has announced.
THEOREM TypeCorrect == Spec => []TypeOK
<1>1. StreamInv => TypeOK
  BY DEF StreamInv, Shape, Heard, ParserType, EncoderOK, TypeOK
<1> QED
  BY <1>1, StreamInvariant, PTL

\* The end of a message is the last that is ever encoded.
LEMMA NothingAfter ==
    ASSUME StreamInv, Completed
    PROVE  Full = sent /\ Count(sent, Len(sent), "message_stop") # 0
<1>1. PICK k \in 1..Len(sent) : sent[k].type = "message_stop"
  BY DEF Completed
<1>2. sent \in Seq(Events) /\ pending \in Seq(Events) /\ Len(sent) \in Nat /\ Len(pending) \in Nat
  BY LenProperties DEF StreamInv, Shape
<1> DEFINE n == Len(sent)
<1>3. /\ Full \in Seq(Events) /\ Len(Full) = n + Len(pending)
      /\ \A i \in 1..n : Full[i] = sent[i]
  BY <1>2, ConcatProperties DEF Full
<1>4. \A type : Count(Full, n, type) = Count(sent, n, type) /\ Count(sent, n, type) \in Nat
  <2> TAKE type
  <2>1. n \in Nat
    BY <1>2
  <2> HIDE DEF n
  <2> QED
    BY <1>3, <2>1, CountSame, CountType, ZenonT(60)
<1>5. Count(sent, n, "message_stop") # 0
  <2> DEFINE S == {i \in 1..n : sent[i].type = "message_stop"}
  <2>1. IsFiniteSet(S) /\ k \in S
    <3>1. n \in Nat /\ k \in S
      BY <1>1, <1>2
    <3> HIDE DEF n
    <3> QED
      BY <3>1, CountType, ZenonT(60)
  <2> HIDE DEF S
  <2>2. Cardinality(S) # 0
    BY <2>1, FS_EmptySet
  <2> QED
    BY <2>2 DEF Count, S
<1> HIDE DEF n
<1>6. pending = <<>>
  <2> SUFFICES ASSUME pending # <<>> PROVE FALSE
    OBVIOUS
  <2>1. Len(pending) > 0
    BY <1>2, EmptySeq
  <2>2. n \in 0..Len(Full) - 1 /\ n # 0
    BY <1>1, <1>2, <1>3, <2>1 DEF n
  <2>3. AllowedAfter(Full, n, Full[n + 1])
    BY <2>2 DEF StreamInv, WellFormed
  <2> QED
    BY <1>4, <1>5, <2>2, <2>3 DEF AllowedAfter
<1>7. sent \o <<>> = sent
  BY <1>2, ConcatEmptySeq
<1> QED
  BY <1>5, <1>6, <1>7 DEF Full, n

\* A message is reported as complete only if the provider gave a reason to
\* stop and every call it began has its id, its name and JSON for arguments
\* (validate_streamed_tools, and the finish reason at the end of parse_sse).
THEOREM CompleteOnlyIfWholeInvariant == Spec => []CompleteOnlyIfWhole
<1>1. StreamInv => CompleteOnlyIfWhole
  <2> SUFFICES ASSUME StreamInv, Completed
               PROVE  /\ said.reason # None
                      /\ \A i \in Indexes : parser.tools[i].seen =>
                           parser.tools[i].started /\ said.arguments[i] \in ValidJson
    BY DEF CompleteOnlyIfWhole
  <2>1. parser.reason # None /\ ToolsValid(parser.tools)
    BY NothingAfter DEF StreamInv, Whole
  <2> QED
    BY <2>1 DEF StreamInv, Heard, ToolsValid
<1> QED
  BY <1>1, StreamInvariant, PTL

\* A complete message holds all the text and all the arguments that the
\* provider sent, from every fragment, whatever the number of either, and
\* nothing else (parse_sse and StreamEncoder together).
THEOREM NothingLostInvariant == Spec => []NothingLost
<1>1. StreamInv => NothingLost
  <2> SUFFICES ASSUME StreamInv, Completed
               PROVE  Carried(sent) = said.text \o SaidArguments
    BY DEF NothingLost
  <2> QED
    BY NothingAfter DEF StreamInv, Whole
<1> QED
  BY <1>1, StreamInvariant, PTL

\* What reaches the client is, step by step, what AnthropicStream allows.
THEOREM ObeysProtocolAlways == Spec => ObeysProtocol
<1>1. Init => Client!StreamInit
  BY DEF Init, Client!StreamInit
<1>2. StreamInv /\ [Next]_vars => [Client!StreamNext]_sent
  <2> SUFFICES ASSUME StreamInv, [Next]_vars, sent' # sent
               PROVE  Client!StreamNext
    OBVIOUS
  <2>1. Yield
    <3>1. (\E t \in Texts : SayText(t)) => sent' = sent
      BY Zenon DEF SayText
    <3>2. (\E i \in Indexes, id \in Short(Ids), name \in Short(Names),
             arguments \in Short(Pieces) : SayTool(i, id, name, arguments)) => sent' = sent
      <4>1. ASSUME NEW i \in Indexes, NEW id \in Short(Ids), NEW name \in Short(Names),
                   NEW arguments \in Short(Pieces), SayTool(i, id, name, arguments)
            PROVE  sent' = sent
        BY <4>1 DEF SayTool
      <4> QED
        BY <4>1
    <3>3. (\E u \in Usages : SayUsage(u)) => sent' = sent
      BY Zenon DEF SayUsage
    <3>4. (\E reason \in Reasons : SayReason(reason)) => sent' = sent
      BY Zenon DEF SayReason
    <3>5. UpstreamEnds \/ UpstreamBreaks \/ IdleTimeout => sent' = sent
      BY Zenon DEF UpstreamEnds, UpstreamBreaks, IdleTimeout, Fail
    <3>6. Close \/ ClientLeaves \/ UNCHANGED vars => sent' = sent
      BY Zenon DEF Close, ClientLeaves, vars
    <3> QED
      BY <3>1, <3>2, <3>3, <3>4, <3>5, <3>6, Zenon DEF Next
  <2> DEFINE n == Len(sent)
             e == Head(pending)
  <2>2. pending # <<>> /\ sent' = Append(sent, e)
    BY <2>1, Zenon DEF Yield
  <2>3. /\ sent \in Seq(Events) /\ pending \in Seq(Events)
        /\ n \in Nat /\ Len(pending) \in Nat /\ Len(pending) > 0
    BY <2>2, LenProperties, EmptySeq DEF StreamInv, Shape
  <2>4. e \in Events /\ e = pending[1]
    BY <2>2, <2>3, HeadTailProperties
  <2>5. /\ Len(Full) = n + Len(pending) /\ Full[n + 1] = e
        /\ \A i \in 1..n : Full[i] = sent[i]
    BY <2>3, <2>4, ConcatProperties DEF Full
  <2> HIDE DEF e
  <2>6. sent' \in Seq(Events) /\ Len(sent') = n + 1 /\ sent'[n + 1] = e
        /\ \A i \in 1..n : sent'[i] = sent[i]
    BY <2>2, <2>3, <2>4, AppendProperties
  <2>7. AllowedAfter(sent, n, e)
    <3>1. n \in 0..Len(Full) - 1
      BY <2>3, <2>5
    <3>2. AllowedAfter(Full, n, e)
      BY <2>5, <3>1 DEF StreamInv, WellFormed
    <3> QED
      BY <2>3, <2>5, <3>2, AllowedSame
  <2>8. Client!Allowed(e)
    <3>1. \A type : Client!Count(type) = Count(sent, n, type)
      <4>1. \A S : Client!Cardinality(S) = Cardinality(S)
        BY DEF Client!Cardinality, Cardinality
      <4> QED
        BY <4>1 DEF Client!Count, Count
    <3>2. n = 0 => sent = <<>>
      BY <2>3, EmptySeq
    <3> QED
      BY <2>7, <3>1, <3>2 DEF AllowedAfter, Client!Allowed, Client!Said, Client!Over,
                              Client!Blocks, Client!BlockOpen
  <2>9. Client!Last(sent') = e
    BY <2>6 DEF Client!Last
  <2>10. Client!IsPrefix(sent, sent')
    <3> DEFINE new == sent'
    <3>1. new \in Seq(Events) /\ Len(new) = n + 1 /\ \A i \in 1..n : new[i] = sent[i]
      BY <2>6
    <3> HIDE DEF new
    <3>2. SubSeq(sent, 1, n) = sent
      BY <2>3, SubSeqFull
    <3>3. 1 \in Int /\ n \in Int /\ \A i \in 1..n : new[i] \in Events
      BY <2>3, <3>1, ElementOfSeq
    <3>4. /\ SubSeq(new, 1, n) \in Seq(Events)
          /\ Len(SubSeq(new, 1, n)) = IF 1 <= n THEN n - 1 + 1 ELSE 0
          /\ \A i \in 1..n - 1 + 1 : SubSeq(new, 1, n)[i] = new[1 + i - 1]
      BY <3>3, SubSeqProperties
    <3> DEFINE s == SubSeq(new, 1, n)
    <3>5. s \in Seq(Events) /\ Len(s) = n /\ \A i \in 1..n : s[i] = sent[i]
      BY <2>3, <3>1, <3>4
    <3> HIDE DEF s
    <3>6. s = sent
      BY <2>3, <3>5, SeqEqual
    <3> QED
      BY <2>3, <3>1, <3>2, <3>6 DEF Client!IsPrefix, s, new
  <2> QED
    BY <2>6, <2>8, <2>9, <2>10 DEF Client!StreamNext
<1> QED
  BY <1>1, <1>2, StreamInvariant, PTL DEF Spec, ObeysProtocol, Client!StreamSpec
=============================================================================
