------------------------- MODULE TranslationProofs -------------------------
(***************************************************************************)
(* Proofs about RequestTranslation: the type invariant, the four safety    *)
(* invariants of the translation and the promise of the adaptation, for    *)
(* every set of blocks, options and capabilities and for conversations of  *)
(* any length.                                                             *)
(*                                                                         *)
(* The state keeps little: TranslationInv says that what was accepted has  *)
(* a valid history still after the adaptation, and that what was sent is   *)
(* the conversion of the messages.  The rest is about the operators, as    *)
(* functions applied to each message of a sequence: validation is a pass   *)
(* over the blocks that knows, at each, the ids called and answered before *)
(* it; the adaptation changes nothing the pass looks at; the conversion of *)
(* a conversation is that of its messages put together, so that what each  *)
(* keeps the whole keeps; and, message by message, what is sent so far     *)
(* answers only what it called, as the pass has seen it.                   *)
(***************************************************************************)
EXTENDS RequestTranslation, SequenceLemmas

\* A block as it is written: the assumption on Blocks and its tag.
TaggedBlock == {b \in Tagged : b.structured => b.type = "tool_result"}

\* A block and who is said to have written it.
FlatEntry == [role : Roles, block : TaggedBlock]

\* What the pass knows after some entries, and before the first.
Past == [calls : SUBSET STRING, results : SUBSET STRING, valid : BOOLEAN]

Start == [calls |-> {}, results |-> {}, valid |-> TRUE]
-----------------------------------------------------------------------------
(* The pass of validate_tool_history.                                      *)

\* The equation of the recursive function in Pass, on the first n entries.
Passes(f, flat, n) ==
    f = [k \in 0..n |-> IF k = 0 THEN Start ELSE Remembered(f[k - 1], flat[k])]

\* A function that satisfies it can be continued by one.
LEMMA PassesNext ==
    ASSUME NEW flat, NEW n \in Nat, NEW f, Passes(f, flat, n)
    PROVE  \E g : Passes(g, flat, n + 1)
<1> DEFINE next == Remembered(f[n], flat[n + 1])
           g == [k \in 0..n + 1 |-> IF k = n + 1 THEN next ELSE f[k]]
           h == [k \in 0..n + 1 |-> IF k = 0 THEN Start ELSE Remembered(g[k - 1], flat[k])]
<1>1. ASSUME NEW k \in 0..n + 1
      PROVE  g[k] = h[k]
  <2>1. CASE k = n + 1
    <3>1. k # 0 /\ k - 1 = n /\ g[n] = f[n] /\ n \in 0..n
      BY <2>1
    <3> HIDE DEF g
    <3>2. h[k] = Remembered(g[k - 1], flat[k])
      BY <3>1
    <3> QED
      BY <2>1, <3>1, <3>2 DEF g
  <2>2. CASE k # n + 1
    <3>1. k \in 0..n /\ g[k] = f[k]
      BY <2>2
    <3>2. f[k] = IF k = 0 THEN Start ELSE Remembered(f[k - 1], flat[k])
      BY <3>1, Zenon DEF Passes
    <3>3. k # 0 => g[k - 1] = f[k - 1]
      BY <3>1
    <3> HIDE DEF g
    <3>4. h[k] = IF k = 0 THEN Start ELSE Remembered(g[k - 1], flat[k])
      OBVIOUS
    <3> QED
      BY <3>1, <3>2, <3>3, <3>4
  <2> QED
    BY <2>1, <2>2
<1>2. g = h
  <2>1. DOMAIN g = 0..n + 1 /\ DOMAIN h = 0..n + 1
    OBVIOUS
  <2> HIDE DEF next
  <2> QED
    BY <1>1
<1>3. Passes(g, flat, n + 1)
  <2> HIDE DEF next
  <2> QED
    BY <1>2, Zenon DEF Passes
<1> QED
  BY <1>3

\* For every sequence of entries there is such a function.
LEMMA PassesExists ==
    ASSUME NEW flat, NEW N \in Nat
    PROVE  \E f : Passes(f, flat, N)
<1> DEFINE P == {n \in 0..N : \E f : Passes(f, flat, n)}
<1>1. 0 \in P
  <2> DEFINE f == [k \in 0..0 |-> Start]
  <2>1. Passes(f, flat, 0)
    <3>1. \A k \in 0..0 : k = 0
      OBVIOUS
    <3> QED
      BY <3>1, Zenon DEF Passes
  <2> QED
    BY <2>1
<1>2. \A n \in 0..N - 1 : n \in P => n + 1 \in P
  BY PassesNext
<1>3. \A n \in 0..N : n \in P
  <2> HIDE DEF P
  <2> QED
    BY <1>1, <1>2, InductionUpTo
<1> QED
  BY <1>3

\* The pass is the last value of such a function.
LEMMA PassIs ==
    ASSUME NEW T, NEW flat \in Seq(T)
    PROVE  \E f : Passes(f, flat, Len(flat)) /\ Pass(flat) = f[Len(flat)]
<1> DEFINE n == Len(flat)
           f == CHOOSE f : f = [k \in 0..n |-> IF k = 0 THEN Start ELSE Remembered(f[k - 1], flat[k])]
<1>1. n \in Nat
  BY LenProperties
<1>2. \E g : Passes(g, flat, n)
  <2> HIDE DEF n
  <2> QED
    BY <1>1, PassesExists
<1>3. Passes(f, flat, n)
  <2> HIDE DEF n
  <2> QED
    BY <1>2, Zenon DEF Passes
<1>4. Pass(flat) = f[n]
  BY Zenon DEF Pass, Start
<1> HIDE DEF f
<1> QED
  BY <1>3, <1>4

\* Two such functions agree where both are defined.
LEMMA PassesAgree ==
    ASSUME NEW flat, NEW more, NEW n \in Nat, \A k \in 1..n : more[k] = flat[k],
           NEW f, Passes(f, flat, n), NEW g, Passes(g, more, n + 1)
    PROVE  f[n] = g[n] /\ g[n + 1] = Remembered(g[n], more[n + 1])
<1> DEFINE P == {k \in 0..n : f[k] = g[k]}
<1>1. 0 \in P
  <2>1. 0 \in 0..n /\ 0 \in 0..n + 1
    OBVIOUS
  <2>2. f[0] = Start /\ g[0] = Start
    BY <2>1, Zenon DEF Passes
  <2> QED
    BY <2>1, <2>2
<1>2. ASSUME NEW k \in 0..n - 1, k \in P
      PROVE  k + 1 \in P
  <2> DEFINE j == k + 1
  <2>1. j \in 0..n /\ j \in 0..n + 1 /\ j # 0 /\ j - 1 = k /\ more[j] = flat[j]
    OBVIOUS
  <2>2. f[k] = g[k]
    BY <1>2
  <2> HIDE DEF j
  <2>3. f[j] = IF j = 0 THEN Start ELSE Remembered(f[j - 1], flat[j])
    BY <2>1, Zenon DEF Passes
  <2>4. g[j] = IF j = 0 THEN Start ELSE Remembered(g[j - 1], more[j])
    BY <2>1, Zenon DEF Passes
  <2>5. f[j] = g[j]
    BY <2>1, <2>2, <2>3, <2>4
  <2> QED
    BY <2>1, <2>5 DEF j
<1>3. f[n] = g[n]
  <2>1. \A k \in 0..n : k \in P
    <3> HIDE DEF P
    <3> QED
      BY <1>1, <1>2, InductionUpTo
  <2> QED
    BY <2>1
<1>4. g[n + 1] = Remembered(g[n], more[n + 1])
  <2> DEFINE j == n + 1
  <2>1. j \in 0..n + 1 /\ j # 0 /\ j - 1 = n
    OBVIOUS
  <2> HIDE DEF j
  <2>2. g[j] = IF j = 0 THEN Start ELSE Remembered(g[j - 1], more[j])
    BY <2>1, Zenon DEF Passes
  <2>3. g[j] = Remembered(g[n], more[j])
    BY <2>1, <2>2
  <2> QED
    BY <2>3 DEF j
<1> QED
  BY <1>3, <1>4

\* The pass goes from the left to the right.
LEMMA PassAppend ==
    ASSUME NEW T, NEW flat \in Seq(T), NEW e \in T
    PROVE  Pass(Append(flat, e)) = Remembered(Pass(flat), e)
<1> DEFINE a == Append(flat, e)
           n == Len(flat)
<1>1. /\ a \in Seq(T) /\ Len(a) = n + 1 /\ n \in Nat
      /\ \A k \in 1..n : a[k] = flat[k]
      /\ a[n + 1] = e
  BY AppendProperties, LenProperties
<1> HIDE DEF a
<1>2. PICK f : Passes(f, flat, n) /\ Pass(flat) = f[n]
  BY PassIs
<1>3. PICK g : Passes(g, a, n + 1) /\ Pass(a) = g[n + 1]
  BY <1>1, PassIs
<1> HIDE DEF n
<1>4. f[n] = g[n] /\ g[n + 1] = Remembered(g[n], a[n + 1])
  BY <1>1, <1>2, <1>3, PassesAgree
<1> QED
  BY <1>1, <1>2, <1>3, <1>4 DEF a

\* Nothing has been called or answered before the first block.
LEMMA PassEmpty == Pass(<<>>) = Start
<1> DEFINE none == <<>>
<1>1. none \in Seq({}) /\ Len(none) = 0
  BY EmptySeq
<1> HIDE DEF none
<1>2. PICK f : Passes(f, none, 0) /\ Pass(none) = f[0]
  BY <1>1, PassIs
<1>3. f[0] = Start
  <2>1. 0 \in 0..0
    OBVIOUS
  <2> QED
    BY <1>2, <2>1, Zenon DEF Passes
<1> QED
  BY <1>2, <1>3 DEF none
-----------------------------------------------------------------------------
(* What the pass finds out.                                                *)

\* The places of a type, and the ids there.
Of(flat, type) == {k \in 1..Len(flat) : flat[k].block.type = type}

IdsOf(flat, type) == {flat[k].block.id : k \in Of(flat, type)}

\* Every call is the assistant's and has an id of its own.
Called(flat) ==
    \A k \in Of(flat, "tool_use") :
        /\ flat[k].role = "assistant" /\ flat[k].block.id # ""
        /\ \A j \in Of(flat, "tool_use") : flat[j].block.id = flat[k].block.id => j = k

\* Every result is the user's, and the only one for a call made before it.
Answered(flat) ==
    \A k \in Of(flat, "tool_result") :
        /\ flat[k].role = "user"
        /\ \E j \in Of(flat, "tool_use") : j < k /\ flat[j].block.id = flat[k].block.id
        /\ \A j \in Of(flat, "tool_result") : flat[j].block.id = flat[k].block.id => j = k

\* What is known after the entries flat.
KnownAfter(flat) ==
    /\ Pass(flat) \in Past
    /\ Pass(flat).calls = IdsOf(flat, "tool_use")
    /\ Pass(flat).results = IdsOf(flat, "tool_result")
    /\ Pass(flat).valid <=> Called(flat) /\ Answered(flat)

\* The places of a type, after one entry more.
LEMMA OfAppend ==
    ASSUME NEW flat \in Seq(FlatEntry), NEW e \in FlatEntry, NEW type
    PROVE  /\ Of(Append(flat, e), type) =
                Of(flat, type) \union (IF e.block.type = type THEN {Len(flat) + 1} ELSE {})
           /\ IdsOf(Append(flat, e), type) =
                IdsOf(flat, type) \union (IF e.block.type = type THEN {e.block.id} ELSE {})
<1> DEFINE a == Append(flat, e)
           n == Len(flat)
<1>1. /\ Len(a) = n + 1 /\ n \in Nat
      /\ \A k \in 1..n : a[k] = flat[k]
      /\ a[n + 1] = e
  BY AppendProperties, LenProperties
<1> HIDE DEF a, n
<1>2. Of(a, type) = Of(flat, type) \union (IF e.block.type = type THEN {n + 1} ELSE {})
  <2>1. ASSUME NEW k
        PROVE  k \in Of(a, type) <=> k \in Of(flat, type) \/ (e.block.type = type /\ k = n + 1)
    BY <1>1 DEF Of, n
  <2> QED
    BY <2>1
<1>3. IdsOf(a, type) = IdsOf(flat, type) \union (IF e.block.type = type THEN {e.block.id} ELSE {})
  <2>1. \A k \in Of(flat, type) : a[k] = flat[k]
    BY <1>1 DEF Of, n
  <2>2. CASE e.block.type = type
    <3>1. Of(a, type) = Of(flat, type) \union {n + 1}
      BY <1>2, <2>2
    <3>2. IdsOf(a, type) = IdsOf(flat, type) \union {a[n + 1].block.id}
      BY <2>1, <3>1 DEF IdsOf
    <3> QED
      BY <1>1, <2>2, <3>2
  <2>3. CASE e.block.type # type
    <3>1. Of(a, type) = Of(flat, type)
      BY <1>2, <2>3
    <3> QED
      BY <2>1, <2>3, <3>1 DEF IdsOf
  <2> QED
    BY <2>2, <2>3
<1> QED
  BY <1>2, <1>3 DEF a, n

\* One call more.
LEMMA CalledAppend ==
    ASSUME NEW flat \in Seq(FlatEntry), NEW e \in FlatEntry
    PROVE  Called(Append(flat, e)) <=>
             /\ Called(flat)
             /\ e.block.type = "tool_use" =>
                  /\ e.role = "assistant" /\ e.block.id # ""
                  /\ e.block.id \notin IdsOf(flat, "tool_use")
<1> DEFINE a == Append(flat, e)
           n == Len(flat)
           U == Of(flat, "tool_use")
<1>1. /\ n \in Nat
      /\ \A k \in 1..n : a[k] = flat[k]
      /\ a[n + 1] = e
  BY AppendProperties, LenProperties
<1>2. Of(a, "tool_use") = U \union (IF e.block.type = "tool_use" THEN {n + 1} ELSE {})
  BY OfAppend
<1>3. \A k \in U : k \in 1..n /\ k # n + 1 /\ a[k] = flat[k]
  BY <1>1 DEF Of
<1>4. IdsOf(flat, "tool_use") = {flat[k].block.id : k \in U}
  BY DEF IdsOf
<1> HIDE DEF a, n, U
<1>5. CASE e.block.type # "tool_use"
  BY <1>2, <1>3, <1>5 DEF Called, a, U
<1>6. CASE e.block.type = "tool_use"
  <2>1. Of(a, "tool_use") = U \union {n + 1}
    BY <1>2, <1>6
  <2>2. Called(a) <=>
          /\ \A k \in U :
               /\ flat[k].role = "assistant" /\ flat[k].block.id # ""
               /\ \A j \in U : flat[j].block.id = flat[k].block.id => j = k
               /\ e.block.id # flat[k].block.id
          /\ e.role = "assistant" /\ e.block.id # ""
    <3>1. ASSUME Called(a)
          PROVE  /\ \A k \in U :
                      /\ flat[k].role = "assistant" /\ flat[k].block.id # ""
                      /\ \A j \in U : flat[j].block.id = flat[k].block.id => j = k
                      /\ e.block.id # flat[k].block.id
                 /\ e.role = "assistant" /\ e.block.id # ""
      BY <1>1, <1>3, <2>1, <3>1 DEF Called
    <3>2. ASSUME \A k \in U :
                   /\ flat[k].role = "assistant" /\ flat[k].block.id # ""
                   /\ \A j \in U : flat[j].block.id = flat[k].block.id => j = k
                   /\ e.block.id # flat[k].block.id,
                 e.role = "assistant", e.block.id # ""
          PROVE  Called(a)
      <4>1. \A k \in U :
              /\ a[k].role = "assistant" /\ a[k].block.id # ""
              /\ \A j \in U : a[j].block.id = a[k].block.id => j = k
              /\ a[n + 1].block.id # a[k].block.id
        <5> TAKE k \in U
        <5>1. a[k] = flat[k] /\ a[n + 1] = e /\ \A j \in U : a[j] = flat[j]
          BY <1>1, <1>3
        <5> QED
          BY <3>2, <5>1
      <4>2. /\ a[n + 1].role = "assistant" /\ a[n + 1].block.id # ""
            /\ \A j \in U \union {n + 1} : a[j].block.id = a[n + 1].block.id => j = n + 1
        BY <1>1, <3>2, <4>1
      <4>3. \A k \in U \union {n + 1} :
              /\ a[k].role = "assistant" /\ a[k].block.id # ""
              /\ \A j \in U \union {n + 1} : a[j].block.id = a[k].block.id => j = k
        BY <4>1, <4>2
      <4> QED
        BY <2>1, <4>3 DEF Called
    <3> QED
      BY <3>1, <3>2
  <2> QED
    BY <1>4, <1>6, <2>2 DEF Called, a, U
<1> QED
  BY <1>5, <1>6

\* One answer more.
LEMMA AnsweredAppend ==
    ASSUME NEW flat \in Seq(FlatEntry), NEW e \in FlatEntry
    PROVE  Answered(Append(flat, e)) <=>
             /\ Answered(flat)
             /\ e.block.type = "tool_result" =>
                  /\ e.role = "user"
                  /\ e.block.id \in IdsOf(flat, "tool_use")
                  /\ e.block.id \notin IdsOf(flat, "tool_result")
<1> DEFINE a == Append(flat, e)
           n == Len(flat)
           U == Of(flat, "tool_use")
           R == Of(flat, "tool_result")
           V == Of(a, "tool_use")
           \* The first n entries are right.
           Before == \A k \in R :
                       /\ flat[k].role = "user"
                       /\ \E j \in U : j < k /\ flat[j].block.id = flat[k].block.id
                       /\ \A j \in R : flat[j].block.id = flat[k].block.id => j = k
<1>1. /\ n \in Nat
      /\ \A k \in 1..n : a[k] = flat[k]
      /\ a[n + 1] = e
  BY AppendProperties, LenProperties
<1>2. /\ V = U \union (IF e.block.type = "tool_use" THEN {n + 1} ELSE {})
      /\ Of(a, "tool_result") = R \union (IF e.block.type = "tool_result" THEN {n + 1} ELSE {})
  BY OfAppend
<1>3. /\ \A k \in U : k \in 1..n /\ k # n + 1 /\ k < n + 1 /\ a[k] = flat[k]
      /\ \A k \in R : k \in 1..n /\ k # n + 1 /\ a[k] = flat[k] /\ ~ (n + 1 < k)
  BY <1>1 DEF Of
<1>4. /\ IdsOf(flat, "tool_use") = {flat[k].block.id : k \in U}
      /\ IdsOf(flat, "tool_result") = {flat[k].block.id : k \in R}
  BY DEF IdsOf
<1>5. Answered(flat) <=> Before
  BY DEF Answered
<1>6. \A k \in R : (\E j \in V : j < k /\ a[j].block.id = a[k].block.id)
                     <=> (\E j \in U : j < k /\ flat[j].block.id = flat[k].block.id)
  <2> HIDE DEF a, n, U, R, V
  <2> QED
    BY <1>2, <1>3
<1> HIDE DEF a, n, U, R, V
<1>7. CASE e.block.type # "tool_result"
  <2>1. Of(a, "tool_result") = R
    BY <1>2, <1>7
  <2>2. Answered(a) <=>
          \A k \in R :
            /\ a[k].role = "user"
            /\ \E j \in V : j < k /\ a[j].block.id = a[k].block.id
            /\ \A j \in R : a[j].block.id = a[k].block.id => j = k
    BY <2>1 DEF Answered, V
  <2>3. Answered(a) <=> Before
    BY <1>3, <1>6, <2>2, SMTT(30)
  <2> QED
    BY <1>5, <1>7, <2>3 DEF a
<1>8. CASE e.block.type = "tool_result"
  <2>1. Of(a, "tool_result") = R \union {n + 1} /\ V = U
    BY <1>2, <1>8
  <2>2. Answered(a) <=>
          \A k \in R \union {n + 1} :
            /\ a[k].role = "user"
            /\ \E j \in V : j < k /\ a[j].block.id = a[k].block.id
            /\ \A j \in R \union {n + 1} : a[j].block.id = a[k].block.id => j = k
    BY <2>1 DEF Answered, V
  <2>3. (\E j \in V : j < n + 1 /\ a[j].block.id = a[n + 1].block.id)
          <=> (\E j \in U : flat[j].block.id = e.block.id)
    BY <1>1, <1>3, <2>1
  <2>4. ASSUME Answered(a)
        PROVE  /\ Before /\ e.role = "user"
               /\ \E j \in U : flat[j].block.id = e.block.id
               /\ \A j \in R : flat[j].block.id # e.block.id
    <3>1. \A k \in R \union {n + 1} :
            /\ a[k].role = "user"
            /\ \E j \in V : j < k /\ a[j].block.id = a[k].block.id
            /\ \A j \in R \union {n + 1} : a[j].block.id = a[k].block.id => j = k
      BY <2>2, <2>4
    <3>2. Before
      BY <1>3, <1>6, <3>1
    <3>3. e.role = "user" /\ \E j \in U : flat[j].block.id = e.block.id
      BY <1>1, <2>3, <3>1
    <3>4. \A j \in R : flat[j].block.id # e.block.id
      BY <1>1, <1>3, <3>1
    <3> QED
      BY <3>2, <3>3, <3>4
  <2>5. ASSUME Before, e.role = "user",
               \E j \in U : flat[j].block.id = e.block.id,
               \A j \in R : flat[j].block.id # e.block.id
        PROVE  Answered(a)
    <3>1. \A k \in R :
            /\ a[k].role = "user"
            /\ \E j \in V : j < k /\ a[j].block.id = a[k].block.id
            /\ \A j \in R \union {n + 1} : a[j].block.id = a[k].block.id => j = k
      BY <1>1, <1>3, <1>6, <2>5, SMTT(30)
    <3>2. /\ a[n + 1].role = "user"
          /\ \E j \in V : j < n + 1 /\ a[j].block.id = a[n + 1].block.id
          /\ \A j \in R \union {n + 1} : a[j].block.id = a[n + 1].block.id => j = n + 1
      BY <1>1, <1>3, <2>3, <2>5
    <3> QED
      BY <2>2, <3>1, <3>2
  <2> HIDE DEF Before
  <2>6. Answered(a) <=>
          /\ Before /\ e.role = "user"
          /\ e.block.id \in IdsOf(flat, "tool_use")
          /\ e.block.id \notin IdsOf(flat, "tool_result")
    BY <1>4, <2>4, <2>5
  <2> QED
    BY <1>5, <1>8, <2>6 DEF a
<1> QED
  BY <1>7, <1>8

\* The pass knows the calls and the answers, and whether they are in order.
LEMMA PassKnows == \A flat \in Seq(FlatEntry) : KnownAfter(flat)
<1> DEFINE P == {flat \in Seq(FlatEntry) : KnownAfter(flat)}
<1>1. <<>> \in P
  <2>1. \A type : Of(<<>>, type) = {} /\ IdsOf(<<>>, type) = {}
    BY DEF Of, IdsOf
  <2>2. Called(<<>>) /\ Answered(<<>>)
    BY <2>1 DEF Called, Answered
  <2> DEFINE none == <<>>
  <2>3. none \in Seq(FlatEntry) /\ Pass(none) = Start
    BY EmptySeq, PassEmpty
  <2>4. /\ Start \in Past /\ Start.calls = {} /\ Start.results = {}
        /\ Start.valid = TRUE
    BY DEF Start, Past
  <2>5. /\ IdsOf(none, "tool_use") = {} /\ IdsOf(none, "tool_result") = {}
        /\ Called(none) /\ Answered(none)
    BY <2>1, <2>2
  <2> HIDE DEF none
  <2>6. KnownAfter(none)
    BY <2>3, <2>4, <2>5 DEF KnownAfter
  <2> QED
    BY <2>3, <2>6 DEF none
<1>2. ASSUME NEW flat \in Seq(FlatEntry), NEW e \in FlatEntry, flat \in P
      PROVE  Append(flat, e) \in P
  <2> DEFINE a == Append(flat, e)
             p == Pass(flat)
             q == Pass(a)
             id == e.block.id
  <2>1. a \in Seq(FlatEntry) /\ q = Remembered(p, e)
    BY AppendProperties, PassAppend
  <2>2. /\ p \in Past /\ p.calls = IdsOf(flat, "tool_use")
        /\ p.results = IdsOf(flat, "tool_result")
        /\ p.valid <=> Called(flat) /\ Answered(flat)
    BY <1>2 DEF KnownAfter
  <2>3. /\ id \in STRING /\ e.role \in Roles
        /\ p.calls \in SUBSET STRING /\ p.results \in SUBSET STRING /\ p.valid \in BOOLEAN
    BY <2>2 DEF FlatEntry, TaggedBlock, Tagged, Past
  <2>4. /\ IdsOf(a, "tool_use") =
             p.calls \union (IF e.block.type = "tool_use" THEN {id} ELSE {})
        /\ IdsOf(a, "tool_result") =
             p.results \union (IF e.block.type = "tool_result" THEN {id} ELSE {})
    BY <2>2, OfAppend
  <2>5. /\ Called(a) <=> Called(flat) /\ (e.block.type = "tool_use" =>
             e.role = "assistant" /\ id # "" /\ id \notin p.calls)
        /\ Answered(a) <=> Answered(flat) /\ (e.block.type = "tool_result" =>
             e.role = "user" /\ id \in p.calls /\ id \notin p.results)
    <3>1. Called(a) <=> Called(flat) /\ (e.block.type = "tool_use" =>
             e.role = "assistant" /\ id # "" /\ id \notin IdsOf(flat, "tool_use"))
      BY CalledAppend
    <3>2. Answered(a) <=> Answered(flat) /\ (e.block.type = "tool_result" =>
             e.role = "user" /\ id \in IdsOf(flat, "tool_use")
             /\ id \notin IdsOf(flat, "tool_result"))
      BY AnsweredAppend
    <3> HIDE DEF a, p, q, id
    <3> QED
      BY <2>2, <3>1, <3>2
  <2> HIDE DEF a, p, q
  <2>6. CASE e.block.type = "tool_use"
    <3>1. q = [p EXCEPT !.calls = p.calls \union {id},
                 !.valid = p.valid /\ e.role = "assistant" /\ id # "" /\ id \notin p.calls]
      BY <2>1, <2>6 DEF Remembered
    <3>2. /\ q.calls = p.calls \union {id} /\ q.results = p.results
          /\ q.valid = (p.valid /\ e.role = "assistant" /\ id # "" /\ id \notin p.calls)
          /\ q \in Past
      BY <2>2, <2>3, <3>1 DEF Past
    <3>3. IdsOf(a, "tool_use") = q.calls /\ IdsOf(a, "tool_result") = q.results
      BY <2>4, <2>6, <3>2
    <3>4. q.valid <=> Called(a) /\ Answered(a)
      BY <2>2, <2>5, <2>6, <3>2
    <3> QED
      BY <2>1, <3>2, <3>3, <3>4 DEF KnownAfter, a, q
  <2>7. CASE e.block.type = "tool_result"
    <3>1. q = [p EXCEPT !.results = p.results \union {id},
                 !.valid = p.valid /\ e.role = "user" /\ id \in p.calls /\ id \notin p.results]
      BY <2>1, <2>7 DEF Remembered
    <3>2. /\ q.results = p.results \union {id} /\ q.calls = p.calls
          /\ q.valid = (p.valid /\ e.role = "user" /\ id \in p.calls /\ id \notin p.results)
          /\ q \in Past
      BY <2>2, <2>3, <3>1 DEF Past
    <3>3. IdsOf(a, "tool_use") = q.calls /\ IdsOf(a, "tool_result") = q.results
      BY <2>4, <2>7, <3>2
    <3>4. q.valid <=> Called(a) /\ Answered(a)
      BY <2>2, <2>5, <2>7, <3>2
    <3> QED
      BY <2>1, <3>2, <3>3, <3>4 DEF KnownAfter, a, q
  <2>8. CASE e.block.type \notin {"tool_use", "tool_result"}
    <3>1. q = p
      BY <2>1, <2>8 DEF Remembered
    <3>2. IdsOf(a, "tool_use") = q.calls /\ IdsOf(a, "tool_result") = q.results
      BY <2>4, <2>8, <3>1
    <3>3. q.valid <=> Called(a) /\ Answered(a)
      BY <2>2, <2>5, <2>8, <3>1
    <3> QED
      BY <2>1, <2>2, <3>1, <3>2, <3>3 DEF KnownAfter, a, q
  <2> QED
    BY <2>6, <2>7, <2>8
<1>3. \A flat \in Seq(FlatEntry) : flat \in P
  <2> HIDE DEF P
  <2> QED
    BY <1>1, <1>2, SequenceInduction
<1> QED
  BY <1>3
-----------------------------------------------------------------------------
(* The operators of the translation as functions applied to each message   *)
(* or to each block.                                                       *)

\* The messages that can be written.
MessageSet == [role : Roles, blocks : Seq(TaggedBlock)]

\* No string constant can be shown to be in STRING.
Answers == STRING \union {""}

\* The messages of a provider's request.
SentRoles == Roles \union {"tool"}

SentSet == [role : SentRoles, parts : Seq(Nat), calls : Seq(STRING), answers : Answers]

\* What the model does to each block, or to each entry.
WithRole(role) == [b \in TaggedBlock |-> [role |-> role, block |-> b]]

Entries ==
    [m \in MessageSet |-> [i \in 1..Len(m.blocks) |-> [role |-> m.role, block |-> m.blocks[i]]]]

BlocksOf == [m \in MessageSet |-> m.blocks]

BlockOf == [e \in FlatEntry |-> e.block]

Keep(types) == [b \in TaggedBlock |-> IF b.type \in types THEN <<b>> ELSE <<>>]

TagOf == [b \in TaggedBlock |-> b.tag]

IdOf == [b \in TaggedBlock |-> b.id]

\* What it does to each message, written or sent.
Kept(types) == [m \in MessageSet |-> OfType(m.blocks, types)]

KeptTags(types) == [m \in MessageSet |-> Tags(OfType(m.blocks, types))]

KeptIds(types) == [m \in MessageSet |-> Ids(OfType(m.blocks, types))]

Converted ==
    [m \in MessageSet |-> IF m.role = "assistant" THEN ConvertAssistant(m) ELSE ConvertUser(m)]

PartsIn(roles) == [x \in SentSet |-> IF x.role \in roles THEN x.parts ELSE <<>>]

CallsIn == [x \in SentSet |-> x.calls]

\* The fields of a block and of a message.
LEMMA Fields ==
    /\ \A b \in TaggedBlock : /\ b.type \in {"text", "image", "tool_use", "tool_result"}
                              /\ b.id \in STRING /\ b.tag \in Nat /\ b.structured \in BOOLEAN
                              /\ b.structured => b.type = "tool_result"
    /\ \A m \in MessageSet : m.role \in Roles /\ m.blocks \in Seq(TaggedBlock)
    /\ \A e \in FlatEntry : e.role \in Roles /\ e.block \in TaggedBlock
<1>1. MaxBlocks \in Nat
  BY TranslationAssumption
<1> QED
  BY <1>1 DEF TaggedBlock, Tagged, MessageSet, FlatEntry

\* The functions' ranges.
LEMMA FunctionTypes ==
    /\ Maps(MessageSet, Seq(TaggedBlock), BlocksOf)
    /\ Maps(FlatEntry, TaggedBlock, BlockOf)
    /\ Maps(TaggedBlock, Nat, TagOf)
    /\ Maps(TaggedBlock, STRING, IdOf)
    /\ \A types : Maps(TaggedBlock, Seq(TaggedBlock), Keep(types))
    /\ \A role \in Roles : Maps(TaggedBlock, FlatEntry, WithRole(role))
    /\ \A roles : Maps(SentSet, Seq(Nat), PartsIn(roles))
    /\ Maps(SentSet, Seq(STRING), CallsIn)
<1>1. /\ Maps(MessageSet, Seq(TaggedBlock), BlocksOf)
      /\ Maps(FlatEntry, TaggedBlock, BlockOf)
      /\ Maps(TaggedBlock, Nat, TagOf)
      /\ Maps(TaggedBlock, STRING, IdOf)
  BY Fields DEF Maps, BlocksOf, BlockOf, TagOf, IdOf
<1>2. ASSUME NEW types
      PROVE  Maps(TaggedBlock, Seq(TaggedBlock), Keep(types))
  <2>1. ASSUME NEW b \in TaggedBlock
        PROVE  Keep(types)[b] \in Seq(TaggedBlock)
    <3>1. <<b>> \in Seq(TaggedBlock) /\ <<>> \in Seq(TaggedBlock)
      BY EmptySeq
    <3> HIDE DEF TaggedBlock
    <3> QED
      BY <3>1 DEF Keep
  <2> QED
    BY <2>1 DEF Maps
<1>3. ASSUME NEW role \in Roles
      PROVE  Maps(TaggedBlock, FlatEntry, WithRole(role))
  BY DEF Maps, WithRole, FlatEntry
<1>4. ASSUME NEW roles
      PROVE  Maps(SentSet, Seq(Nat), PartsIn(roles))
  BY EmptySeq DEF Maps, PartsIn, SentSet
<1>5. Maps(SentSet, Seq(STRING), CallsIn)
  BY DEF Maps, CallsIn, SentSet
<1> QED
  BY <1>1, <1>2, <1>3, <1>4, <1>5

\* The entries of one message.
LEMMA EntriesOne ==
    ASSUME NEW m \in MessageSet
    PROVE  Entries[m] = Mapped(WithRole(m.role), m.blocks) /\ Entries[m] \in Seq(FlatEntry)
<1> DEFINE r == m.role
           s == m.blocks
           n == Len(s)
<1>1. /\ r \in Roles /\ s \in Seq(TaggedBlock)
      /\ Entries[m] = [i \in 1..n |-> [role |-> r, block |-> s[i]]]
  BY Fields DEF Entries
<1>2. Maps(TaggedBlock, FlatEntry, WithRole(r))
  BY <1>1, FunctionTypes
<1>3. \A i \in 1..n : s[i] \in TaggedBlock
  BY <1>1
<1> HIDE DEF r, s
<1>4. Mapped(WithRole(r), s) = [i \in 1..n |-> [role |-> r, block |-> s[i]]]
  <2> HIDE DEF n
  <2>1. \A i \in 1..n : WithRole(r)[s[i]] = [role |-> r, block |-> s[i]]
    BY <1>3 DEF WithRole
  <2> QED
    BY <2>1 DEF Mapped, n
<1>5. Mapped(WithRole(r), s) \in Seq(FlatEntry)
  BY <1>1, <1>2, MappedType
<1> QED
  BY <1>1, <1>4, <1>5 DEF r, s

\* Every message has a sequence of entries.
LEMMA EntriesType == Maps(MessageSet, Seq(FlatEntry), Entries)
BY EntriesOne DEF Maps

\* The whole conversation.
LEMMA FlatIs ==
    ASSUME NEW msgs \in Seq(MessageSet)
    PROVE  Flat(msgs) = Spread(Entries, msgs) /\ Flat(msgs) \in Seq(FlatEntry)
<1> DEFINE n == Len(msgs)
<1>1. n \in Nat /\ \A k \in 1..n : msgs[k] \in MessageSet
  BY LenProperties
<1> HIDE DEF n
<1>2. [k \in 1..n |-> [i \in 1..Len(msgs[k].blocks) |->
                         [role |-> msgs[k].role, block |-> msgs[k].blocks[i]]]]
        = [k \in 1..n |-> Entries[msgs[k]]]
  BY <1>1 DEF Entries
<1>3. Flat(msgs) = Spread(Entries, msgs)
  BY <1>2 DEF Flat, Spread, Mapped, n
<1>4. Spread(Entries, msgs) \in Seq(FlatEntry)
  BY EntriesType, SpreadType
<1> QED
  BY <1>3, <1>4

\* One message more.
LEMMA FlatAppend ==
    ASSUME NEW msgs \in Seq(MessageSet), NEW m \in MessageSet
    PROVE  Flat(Append(msgs, m)) = Flat(msgs) \o Entries[m]
<1>1. Append(msgs, m) \in Seq(MessageSet)
  BY AppendProperties
<1>2. Spread(Entries, Append(msgs, m)) = Spread(Entries, msgs) \o Entries[m]
  BY EntriesType, SpreadAppend
<1> QED
  BY <1>1, <1>2, FlatIs

\* The blocks of a type.
LEMMA OfTypeIs ==
    ASSUME NEW blocks \in Seq(TaggedBlock), NEW types
    PROVE  OfType(blocks, types) = Spread(Keep(types), blocks)
           /\ OfType(blocks, types) \in Seq(TaggedBlock)
<1> DEFINE n == Len(blocks)
<1>1. n \in Nat /\ \A k \in 1..n : blocks[k] \in TaggedBlock
  BY LenProperties
<1> HIDE DEF n
<1>2. [i \in 1..n |-> IF blocks[i].type \in types THEN << blocks[i] >> ELSE <<>>]
        = [i \in 1..n |-> Keep(types)[blocks[i]]]
  BY <1>1 DEF Keep
<1>3. OfType(blocks, types) = Spread(Keep(types), blocks)
  BY <1>2 DEF OfType, Spread, Mapped, n
<1>4. Spread(Keep(types), blocks) \in Seq(TaggedBlock)
  BY FunctionTypes, SpreadType
<1> QED
  BY <1>3, <1>4

\* Tags and ids.
LEMMA TagsIs ==
    ASSUME NEW blocks \in Seq(TaggedBlock)
    PROVE  /\ Tags(blocks) = Mapped(TagOf, blocks) /\ Tags(blocks) \in Seq(Nat)
           /\ Ids(blocks) = Mapped(IdOf, blocks) /\ Ids(blocks) \in Seq(STRING)
<1> DEFINE n == Len(blocks)
<1>1. n \in Nat /\ \A k \in 1..n : blocks[k] \in TaggedBlock
  BY LenProperties
<1> HIDE DEF n
<1>2. /\ [i \in 1..n |-> blocks[i].tag] = [i \in 1..n |-> TagOf[blocks[i]]]
      /\ [i \in 1..n |-> blocks[i].id] = [i \in 1..n |-> IdOf[blocks[i]]]
  BY <1>1 DEF TagOf, IdOf
<1>3. Tags(blocks) = Mapped(TagOf, blocks) /\ Ids(blocks) = Mapped(IdOf, blocks)
  BY <1>2 DEF Tags, Ids, Mapped, n
<1>4. Mapped(TagOf, blocks) \in Seq(Nat) /\ Mapped(IdOf, blocks) \in Seq(STRING)
  BY FunctionTypes, MappedType
<1> QED
  BY <1>3, <1>4

\* Of blocks none of which has one of the types, none is left.
LEMMA OfTypeNone ==
    ASSUME NEW blocks \in Seq(TaggedBlock), NEW types,
           \A i \in 1..Len(blocks) : blocks[i].type \notin types
    PROVE  OfType(blocks, types) = <<>>
<1>1. \A i \in 1..Len(blocks) : blocks[i] \in TaggedBlock
  BY LenProperties
<1>2. \A i \in 1..Len(blocks) : Keep(types)[blocks[i]] = <<>>
  BY <1>1 DEF Keep
<1>3. Spread(Keep(types), blocks) = <<>>
  BY <1>2, FunctionTypes, SpreadIsEmpty
<1> QED
  BY <1>3, OfTypeIs

\* Types between which no block tells a difference leave the same blocks.
LEMMA OfTypeSame ==
    ASSUME NEW blocks \in Seq(TaggedBlock), NEW types, NEW others,
           \A i \in 1..Len(blocks) : blocks[i].type \in types <=> blocks[i].type \in others
    PROVE  OfType(blocks, types) = OfType(blocks, others)
<1>1. \A i \in 1..Len(blocks) : blocks[i] \in TaggedBlock
  BY LenProperties
<1>2. \A i \in 1..Len(blocks) : Keep(types)[blocks[i]] = Keep(others)[blocks[i]]
  BY <1>1 DEF Keep
<1>3. Spread(Keep(types), blocks) = Spread(Keep(others), blocks)
  BY <1>2, MappedSame
<1> QED
  BY <1>3, OfTypeIs

\* There is a block of the types, or there is none.
LEMMA OfTypeSome ==
    ASSUME NEW blocks \in Seq(TaggedBlock), NEW types, OfType(blocks, types) = <<>>
    PROVE  \A i \in 1..Len(blocks) : blocks[i].type \notin types
<1>1. \A i \in 1..Len(blocks) : blocks[i] \in TaggedBlock
  BY LenProperties
<1>2. Spread(Keep(types), blocks) = <<>>
  BY OfTypeIs
<1>3. \A i \in 1..Len(blocks) : Keep(types)[blocks[i]] = <<>>
  BY <1>2, FunctionTypes, SpreadIsEmpty
<1> QED
  BY <1>1, <1>3 DEF Keep

\* The blocks of all entries are the blocks of all messages.
LEMMA WrittenIs ==
    ASSUME NEW msgs \in Seq(MessageSet)
    PROVE  /\ Mapped(BlockOf, Flat(msgs)) = Spread(BlocksOf, msgs)
           /\ Spread(BlocksOf, msgs) \in Seq(TaggedBlock)
<1>1. ASSUME NEW m \in MessageSet
      PROVE  BlocksOf[m] = Mapped(BlockOf, Entries[m])
  <2> DEFINE r == m.role
             s == m.blocks
             same == [b \in TaggedBlock |-> b]
  <2>1. r \in Roles /\ s \in Seq(TaggedBlock) /\ Entries[m] = Mapped(WithRole(r), s)
        /\ BlocksOf[m] = s
    BY Fields, EntriesOne DEF BlocksOf
  <2> HIDE DEF r, s
  <2>2. Maps(TaggedBlock, FlatEntry, WithRole(r))
    BY <2>1, FunctionTypes
  <2>3. Then(TaggedBlock, WithRole(r), BlockOf, same)
    <3>1. ASSUME NEW b \in TaggedBlock
          PROVE  BlockOf[WithRole(r)[b]] = b
      BY <2>1 DEF BlockOf, WithRole, FlatEntry
    <3> QED
      BY <3>1 DEF Then
  <2>4. Mapped(same, s) = s
    <3>1. /\ DOMAIN s = 1..Len(s) /\ s \in [1..Len(s) -> TaggedBlock]
          /\ \A i \in 1..Len(s) : same[s[i]] = s[i]
      BY <2>1, LenProperties
    <3> QED
      BY <3>1 DEF Mapped
  <2> HIDE DEF same
  <2>5. Mapped(BlockOf, Mapped(WithRole(r), s)) = Mapped(same, s)
    BY <2>1, <2>2, <2>3, MappedThen
  <2> QED
    BY <2>1, <2>4, <2>5
<1>2. ThenMapped(MessageSet, Entries, BlockOf, BlocksOf)
  BY <1>1 DEF ThenMapped
<1>3. Mapped(BlockOf, Spread(Entries, msgs)) = Spread(BlocksOf, msgs)
  BY <1>2, EntriesType, FunctionTypes, MappedSpread
<1>4. Spread(BlocksOf, msgs) \in Seq(TaggedBlock)
  BY FunctionTypes, SpreadType
<1> QED
  BY <1>3, <1>4, FlatIs

\* The tags and ids of a type in the whole conversation are those in each of
\* its messages.
LEMMA KeptIs ==
    ASSUME NEW msgs \in Seq(MessageSet), NEW types
    PROVE  LET written == [k \in 1..Len(Flat(msgs)) |-> Flat(msgs)[k].block]
           IN  /\ Tags(OfType(written, types)) = Spread(KeptTags(types), msgs)
               /\ Ids(OfType(written, types)) = Spread(KeptIds(types), msgs)
<1> DEFINE flat == Flat(msgs)
           written == [k \in 1..Len(flat) |-> flat[k].block]
<1>1. written = Spread(BlocksOf, msgs) /\ written \in Seq(TaggedBlock)
  <2>1. flat \in Seq(FlatEntry) /\ Mapped(BlockOf, flat) = Spread(BlocksOf, msgs)
        /\ Spread(BlocksOf, msgs) \in Seq(TaggedBlock)
    BY FlatIs, WrittenIs
  <2> HIDE DEF flat
  <2>2. \A k \in 1..Len(flat) : flat[k] \in FlatEntry
    BY <2>1
  <2>3. Mapped(BlockOf, flat) = written
    BY <2>2 DEF Mapped, BlockOf
  <2> QED
    BY <2>1, <2>3
<1> HIDE DEF written
<1>2. /\ Maps(MessageSet, Seq(TaggedBlock), Kept(types))
      /\ ThenSpread(MessageSet, BlocksOf, Keep(types), Kept(types))
      /\ ThenMapped(MessageSet, Kept(types), TagOf, KeptTags(types))
      /\ ThenMapped(MessageSet, Kept(types), IdOf, KeptIds(types))
  <2>1. ASSUME NEW m \in MessageSet
        PROVE  /\ Kept(types)[m] = OfType(m.blocks, types)
               /\ BlocksOf[m] = m.blocks
               /\ KeptTags(types)[m] = Tags(OfType(m.blocks, types))
               /\ KeptIds(types)[m] = Ids(OfType(m.blocks, types))
    BY DEF Kept, BlocksOf, KeptTags, KeptIds
  <2>2. ASSUME NEW m \in MessageSet
        PROVE  /\ OfType(m.blocks, types) \in Seq(TaggedBlock)
               /\ OfType(m.blocks, types) = Spread(Keep(types), m.blocks)
    BY Fields, OfTypeIs
  <2>3. ASSUME NEW m \in MessageSet
        PROVE  /\ Tags(OfType(m.blocks, types)) = Mapped(TagOf, OfType(m.blocks, types))
               /\ Ids(OfType(m.blocks, types)) = Mapped(IdOf, OfType(m.blocks, types))
    BY <2>2, TagsIs
  <2> QED
    BY <2>1, <2>2, <2>3 DEF Maps, ThenSpread, ThenMapped
<1>3. OfType(written, types) = Spread(Kept(types), msgs)
  <2>1. OfType(written, types) = Spread(Keep(types), written)
    BY <1>1, OfTypeIs
  <2>2. Spread(Keep(types), Spread(BlocksOf, msgs)) = Spread(Kept(types), msgs)
    BY <1>2, FunctionTypes, SpreadSpread
  <2> QED
    BY <1>1, <2>1, <2>2
<1>4. OfType(written, types) \in Seq(TaggedBlock)
  BY <1>1, OfTypeIs
<1>5. /\ Tags(OfType(written, types)) = Mapped(TagOf, OfType(written, types))
      /\ Ids(OfType(written, types)) = Mapped(IdOf, OfType(written, types))
  BY <1>4, TagsIs
<1>6. Mapped(TagOf, Spread(Kept(types), msgs)) = Spread(KeptTags(types), msgs)
  BY <1>2, FunctionTypes, MappedSpread
<1>7. Mapped(IdOf, Spread(Kept(types), msgs)) = Spread(KeptIds(types), msgs)
  BY <1>2, FunctionTypes, MappedSpread
<1> QED
  BY <1>3, <1>5, <1>6, <1>7 DEF written
-----------------------------------------------------------------------------
(* The conversion.                                                         *)

\* A tool's result as ConvertUser sends it.
ToolMessage == [b \in TaggedBlock |-> Message("tool", <<b.tag>>, <<>>, b.id)]

\* What ConvertUser puts after the tools' results.
Rest(m) ==
    LET content == OfType(m.blocks, {"text", "image"})
    IN  IF content = <<>> THEN <<>> ELSE <<Message(m.role, Tags(content), <<>>, "")>>

\* A tool's result is a message of the provider's.
LEMMA ToolMessageType ==
    /\ Maps(TaggedBlock, SentSet, ToolMessage)
    /\ \A b \in TaggedBlock : /\ ToolMessage[b].role = "tool" /\ ToolMessage[b].parts = <<b.tag>>
                              /\ ToolMessage[b].calls = <<>> /\ ToolMessage[b].answers = b.id
<1> SUFFICES ASSUME NEW b \in TaggedBlock
             PROVE  /\ ToolMessage[b] \in SentSet
                    /\ ToolMessage[b].role = "tool" /\ ToolMessage[b].parts = <<b.tag>>
                    /\ ToolMessage[b].calls = <<>> /\ ToolMessage[b].answers = b.id
  BY DEF Maps
<1> DEFINE parts == <<b.tag>>
           calls == <<>>
           x == ToolMessage[b]
<1>1. /\ parts \in Seq(Nat) /\ b.id \in Answers /\ "tool" \in SentRoles
      /\ x = Message("tool", parts, calls, b.id)
  <2>1. b.tag \in Nat /\ b.id \in STRING
    BY Fields
  <2>2. x = Message("tool", parts, calls, b.id)
    BY DEF ToolMessage
  <2>3. b.id \in Answers /\ "tool" \in SentRoles
    BY <2>1 DEF Answers, SentRoles
  <2>4. parts \in Seq(Nat)
    BY <2>1
  <2> QED
    BY <2>2, <2>3, <2>4
<1>2. calls \in Seq(STRING)
  BY EmptySeq
<1> HIDE DEF parts, calls, x
<1>3. /\ x \in SentSet /\ x.role = "tool" /\ x.parts = parts
      /\ x.calls = calls /\ x.answers = b.id
  BY <1>1, <1>2 DEF SentSet, Message
<1> QED
  BY <1>3 DEF parts, calls, x

\* What else a user says is one message, or none.
LEMMA RestIs ==
    ASSUME NEW m \in MessageSet
    PROVE  /\ Rest(m) \in Seq(SentSet)
           /\ Rest(m) = <<>> \/ \E x \in SentSet : Rest(m) = <<x>> /\ x.role = m.role /\ x.calls = <<>>
           /\ \A roles : Spread(PartsIn(roles), Rest(m)) =
                IF m.role \in roles THEN Tags(OfType(m.blocks, {"text", "image"})) ELSE <<>>
           /\ Spread(CallsIn, Rest(m)) = <<>>
<1> DEFINE content == OfType(m.blocks, {"text", "image"})
           x == Message(m.role, Tags(content), <<>>, "")
<1>1. content \in Seq(TaggedBlock) /\ Tags(content) \in Seq(Nat) /\ m.role \in Roles
  BY Fields, OfTypeIs, TagsIs
<1>2. x \in SentSet /\ x.role = m.role /\ x.parts = Tags(content) /\ x.calls = <<>>
  <2> DEFINE tags == Tags(content)
             calls == <<>>
  <2>1. calls \in Seq(STRING) /\ tags \in Seq(Nat) /\ m.role \in SentRoles /\ "" \in Answers
    BY <1>1, EmptySeq DEF SentRoles, Answers
  <2>2. x = Message(m.role, tags, calls, "")
    OBVIOUS
  <2> HIDE DEF tags, calls, x
  <2>3. x \in SentSet /\ x.role = m.role /\ x.parts = tags /\ x.calls = calls
    BY <2>1, <2>2 DEF SentSet, Message
  <2> QED
    BY <2>3 DEF tags, calls
<1>3. Rest(m) = IF content = <<>> THEN <<>> ELSE <<x>>
  BY DEF Rest
<1>4. content = <<>> => Tags(content) = <<>>
  BY DEF Tags
<1> HIDE DEF x, content
<1>5. Rest(m) \in Seq(SentSet)
  <2>1. <<>> \in Seq(SentSet) /\ <<x>> \in Seq(SentSet)
    BY <1>2, EmptySeq
  <2> QED
    BY <1>3, <2>1
<1>6. ASSUME NEW roles
      PROVE  Spread(PartsIn(roles), Rest(m)) = IF m.role \in roles THEN Tags(content) ELSE <<>>
  <2>1. Spread(PartsIn(roles), <<x>>) = PartsIn(roles)[x]
    BY <1>2, FunctionTypes, SpreadOne
  <2>2. PartsIn(roles)[x] = IF m.role \in roles THEN Tags(content) ELSE <<>>
    BY <1>2 DEF PartsIn
  <2>3. Spread(PartsIn(roles), <<>>) = <<>>
    BY SpreadEmpty
  <2> QED
    BY <1>3, <1>4, <2>1, <2>2, <2>3
<1>7. Spread(CallsIn, Rest(m)) = <<>>
  <2>1. Spread(CallsIn, <<x>>) = CallsIn[x]
    BY <1>2, FunctionTypes, SpreadOne
  <2>2. CallsIn[x] = <<>>
    BY <1>2 DEF CallsIn
  <2>3. Spread(CallsIn, <<>>) = <<>>
    BY SpreadEmpty
  <2> QED
    BY <1>3, <2>1, <2>2, <2>3
<1> QED
  BY <1>2, <1>3, <1>5, <1>6, <1>7 DEF content

\* The results of a message, and then the rest.
LEMMA ConvertUserIs ==
    ASSUME NEW m \in MessageSet
    PROVE  LET results == OfType(m.blocks, {"tool_result"})
           IN  /\ ConvertUser(m) = Mapped(ToolMessage, results) \o Rest(m)
               /\ Mapped(ToolMessage, results) \in Seq(SentSet)
               /\ ConvertUser(m) \in Seq(SentSet)
<1> DEFINE results == OfType(m.blocks, {"tool_result"})
           tools == Mapped(ToolMessage, results)
           rest == Rest(m)
<1>1. results \in Seq(TaggedBlock)
  BY Fields, OfTypeIs
<1>2. ConvertUser(m) = tools \o rest
  <2>1. \A i \in 1..Len(results) : results[i] \in TaggedBlock
    BY <1>1
  <2>2. ConvertUser(m) =
          [i \in 1..Len(results) |-> Message("tool", <<results[i].tag>>, <<>>, results[i].id)]
            \o rest
    BY DEF ConvertUser, Rest
  <2> HIDE DEF results
  <2>3. tools = [i \in 1..Len(results) |-> Message("tool", <<results[i].tag>>, <<>>, results[i].id)]
    BY <2>1 DEF Mapped, ToolMessage
  <2> HIDE DEF tools, rest
  <2> QED
    BY <2>2, <2>3
<1>3. tools \in Seq(SentSet)
  <2> HIDE DEF results
  <2> QED
    BY <1>1, ToolMessageType, MappedType
<1>4. rest \in Seq(SentSet)
  BY RestIs
<1> HIDE DEF tools, rest
<1>5. tools \o rest \in Seq(SentSet)
  BY <1>3, <1>4, ConcatProperties
<1> QED
  BY <1>2, <1>3, <1>5 DEF tools, rest

\* An assistant's message is one of the provider's.
LEMMA ConvertAssistantIs ==
    ASSUME NEW m \in MessageSet
    PROVE  LET x == Message("assistant", Tags(OfType(m.blocks, {"text"})),
                            Ids(OfType(m.blocks, {"tool_use"})), "")
           IN  /\ ConvertAssistant(m) = <<x>> /\ x \in SentSet
               /\ x.role = "assistant" /\ x.parts = Tags(OfType(m.blocks, {"text"}))
               /\ x.calls = Ids(OfType(m.blocks, {"tool_use"}))
<1> DEFINE t == Tags(OfType(m.blocks, {"text"}))
           c == Ids(OfType(m.blocks, {"tool_use"}))
           x == Message("assistant", t, c, "")
<1>1. t \in Seq(Nat) /\ c \in Seq(STRING)
  <2>1. /\ OfType(m.blocks, {"text"}) \in Seq(TaggedBlock)
        /\ OfType(m.blocks, {"tool_use"}) \in Seq(TaggedBlock)
    BY Fields, OfTypeIs
  <2> QED
    BY <2>1, TagsIs
<1>2. ConvertAssistant(m) = <<x>>
  BY DEF ConvertAssistant
<1> HIDE DEF t, c
<1>3. x \in SentSet /\ x.role = "assistant" /\ x.parts = t /\ x.calls = c
  <2>1. "assistant" \in SentRoles /\ "" \in Answers
    BY DEF SentRoles, Roles, Answers
  <2>2. x = Message("assistant", t, c, "")
    OBVIOUS
  <2> HIDE DEF x
  <2> QED
    BY <1>1, <2>1, <2>2 DEF SentSet, Message
<1> HIDE DEF x
<1> QED
  BY <1>2, <1>3 DEF x, t, c

\* Every message is converted to messages of a provider's request.
LEMMA ConvertedType ==
    /\ Maps(MessageSet, Seq(SentSet), Converted)
    /\ \A m \in MessageSet :
         Converted[m] = IF m.role = "assistant" THEN ConvertAssistant(m) ELSE ConvertUser(m)
<1>1. ASSUME NEW m \in MessageSet
      PROVE  ConvertAssistant(m) \in Seq(SentSet) /\ ConvertUser(m) \in Seq(SentSet)
  <2>1. ConvertUser(m) \in Seq(SentSet)
    BY ConvertUserIs
  <2>2. PICK x : ConvertAssistant(m) = <<x>> /\ x \in SentSet
    BY ConvertAssistantIs
  <2>3. <<x>> \in Seq(SentSet)
    BY <2>2
  <2> QED
    BY <2>1, <2>2, <2>3
<1>2. \A m \in MessageSet :
         Converted[m] = IF m.role = "assistant" THEN ConvertAssistant(m) ELSE ConvertUser(m)
  BY DEF Converted
<1> QED
  BY <1>1, <1>2 DEF Maps

\* The whole conversion is the conversion of each message.
LEMMA ConvertIs ==
    ASSUME NEW msgs \in Seq(MessageSet)
    PROVE  ConvertMessages(msgs) = Spread(Converted, msgs)
           /\ ConvertMessages(msgs) \in Seq(SentSet)
<1> DEFINE n == Len(msgs)
<1>1. n \in Nat /\ \A k \in 1..n : msgs[k] \in MessageSet
  BY LenProperties
<1> HIDE DEF n
<1>2. [k \in 1..n |-> IF msgs[k].role = "assistant" THEN ConvertAssistant(msgs[k])
                      ELSE ConvertUser(msgs[k])]
        = [k \in 1..n |-> Converted[msgs[k]]]
  BY <1>1 DEF Converted
<1>3. ConvertMessages(msgs) = Spread(Converted, msgs)
  BY <1>2 DEF ConvertMessages, Spread, Mapped, n
<1>4. Spread(Converted, msgs) \in Seq(SentSet)
  BY ConvertedType, SpreadType
<1> QED
  BY <1>3, <1>4

\* The types in a message that can be converted.
LEMMA ConvertibleTypes ==
    ASSUME NEW m \in MessageSet, Convertible(m)
    PROVE  \A i \in 1..Len(m.blocks) :
              IF m.role = "assistant" THEN m.blocks[i].type \in {"text", "tool_use"}
              ELSE m.blocks[i].type # "tool_use" /\ ~ m.blocks[i].structured
<1>1. m.blocks \in Seq(TaggedBlock)
  BY Fields
<1>2. \A i \in 1..Len(m.blocks) : m.blocks[i] \in Range(m.blocks)
  BY <1>1, LenProperties DEF Range
<1> QED
  BY <1>2 DEF Convertible

\* Nothing of a message is left out.
LEMMA MessageKept ==
    ASSUME NEW m \in MessageSet, Convertible(m)
    PROVE  /\ Spread(PartsIn(Roles), Converted[m]) = KeptTags({"text", "image"})[m]
           /\ Spread(PartsIn({"tool"}), Converted[m]) = KeptTags({"tool_result"})[m]
           /\ Spread(CallsIn, Converted[m]) = KeptIds({"tool_use"})[m]
<1> DEFINE s == m.blocks
           content == OfType(s, {"text", "image"})
           results == OfType(s, {"tool_result"})
           uses == OfType(s, {"tool_use"})
<1>0. /\ s \in Seq(TaggedBlock) /\ m.role \in Roles
      /\ content \in Seq(TaggedBlock) /\ results \in Seq(TaggedBlock)
  BY Fields, OfTypeIs
<1>1. /\ KeptTags({"text", "image"})[m] = Tags(content)
      /\ KeptTags({"tool_result"})[m] = Tags(results)
      /\ KeptIds({"tool_use"})[m] = Ids(uses)
  BY DEF KeptTags, KeptIds
<1>2. Tags(<<>>) = <<>> /\ Ids(<<>>) = <<>>
  BY DEF Tags, Ids
<1>3. CASE m.role = "assistant"
  <2> DEFINE x == Message("assistant", Tags(OfType(s, {"text"})), Ids(uses), "")
  <2>1. /\ Converted[m] = <<x>> /\ x \in SentSet
        /\ x.role = "assistant" /\ x.parts = Tags(OfType(s, {"text"})) /\ x.calls = Ids(uses)
    BY <1>3, ConvertedType, ConvertAssistantIs
  <2>2. \A i \in 1..Len(s) : s[i].type \in {"text", "tool_use"}
    BY <1>3, ConvertibleTypes
  <2>3. results = <<>>
    <3>1. \A i \in 1..Len(s) : s[i].type \notin {"tool_result"}
      BY <2>2
    <3> HIDE DEF s
    <3> QED
      BY <1>0, <3>1, OfTypeNone
  <2>4. OfType(s, {"text"}) = content
    <3>1. \A i \in 1..Len(s) : s[i].type \in {"text"} <=> s[i].type \in {"text", "image"}
      BY <2>2
    <3> HIDE DEF s
    <3> QED
      BY <1>0, <3>1, OfTypeSame
  <2> HIDE DEF x, content, results, uses, s
  <2>5. /\ \A roles : Spread(PartsIn(roles), <<x>>) = PartsIn(roles)[x]
        /\ Spread(CallsIn, <<x>>) = CallsIn[x]
    BY <2>1, FunctionTypes, SpreadOne
  <2>6. /\ PartsIn(Roles)[x] = x.parts /\ PartsIn({"tool"})[x] = <<>>
        /\ CallsIn[x] = x.calls
    BY <2>1 DEF PartsIn, CallsIn, Roles
  <2> QED
    BY <1>1, <1>2, <2>1, <2>3, <2>4, <2>5, <2>6
<1>4. CASE m.role # "assistant"
  <2> DEFINE t == Mapped(ToolMessage, results)
             n == Len(results)
  <2>1. /\ Converted[m] = t \o Rest(m) /\ t \in Seq(SentSet) /\ Rest(m) \in Seq(SentSet)
    BY <1>4, ConvertedType, ConvertUserIs, RestIs
  <2>2. \A i \in 1..Len(s) : s[i].type \notin {"tool_use"}
    BY <1>4, ConvertibleTypes
  <2>3. uses = <<>>
    <3> HIDE DEF s
    <3> QED
      BY <1>0, <2>2, OfTypeNone
  <2>4. /\ \A roles : Spread(PartsIn(roles), Rest(m)) =
                         IF m.role \in roles THEN Tags(content) ELSE <<>>
        /\ Spread(CallsIn, Rest(m)) = <<>>
    BY RestIs
  <2>5. Roles \subseteq SentRoles /\ "tool" \notin Roles
    BY DEF Roles, SentRoles
  <2> HIDE DEF content, results, uses, s
  <2>6. Len(t) = n /\ \A i \in 1..n : results[i] \in TaggedBlock /\ t[i] = ToolMessage[results[i]]
    <3>1. Len(t) = n
      BY <1>0, ToolMessageType, MappedType
    <3>2. \A i \in 1..n : results[i] \in TaggedBlock
      BY <1>0
    <3> QED
      BY <3>1, <3>2 DEF Mapped
  <2>7. \A i \in 1..n : t[i] \in SentSet /\ t[i].role = "tool" /\ t[i].calls = <<>>
                        /\ t[i].parts = <<results[i].tag>>
    BY <2>6, ToolMessageType DEF Maps
  <2>8. Spread(PartsIn(Roles), t) = <<>> /\ Spread(CallsIn, t) = <<>>
    <3>1. \A i \in 1..n : PartsIn(Roles)[t[i]] = <<>> /\ CallsIn[t[i]] = <<>>
      BY <2>5, <2>7 DEF PartsIn, CallsIn
    <3> HIDE DEF t
    <3>2. \A i \in 1..Len(t) : PartsIn(Roles)[t[i]] = <<>>
      BY <2>6, <3>1
    <3>3. \A i \in 1..Len(t) : CallsIn[t[i]] = <<>>
      BY <2>6, <3>1
    <3>4. Maps(SentSet, Seq(Nat), PartsIn(Roles)) /\ Maps(SentSet, Seq(STRING), CallsIn)
      BY FunctionTypes
    <3>5. Spread(PartsIn(Roles), t) = <<>>
      BY <2>1, <3>2, <3>4, SpreadIsEmpty
    <3>6. Spread(CallsIn, t) = <<>>
      BY <2>1, <3>3, <3>4, SpreadIsEmpty
    <3> QED
      BY <3>5, <3>6
  <2>9. Spread(PartsIn({"tool"}), t) = Tags(results)
    <3> DEFINE single == [b \in TaggedBlock |-> <<b.tag>>]
    <3>1. Then(TaggedBlock, ToolMessage, PartsIn({"tool"}), single)
      <4>1. ASSUME NEW b \in TaggedBlock
            PROVE  PartsIn({"tool"})[ToolMessage[b]] = <<b.tag>>
        BY ToolMessageType DEF PartsIn, Maps
      <4> QED
        BY <4>1 DEF Then
    <3>2. \A b \in TaggedBlock : single[b] = <<TagOf[b]>>
      BY DEF TagOf
    <3> HIDE DEF single
    <3>3. Spread(PartsIn({"tool"}), t) = Spread(single, results)
      BY <1>0, <3>1, ToolMessageType, MappedThen
    <3>4. Spread(single, results) = Mapped(TagOf, results)
      BY <1>0, <3>2, FunctionTypes, SpreadSingles
    <3> QED
      BY <1>0, <3>3, <3>4, TagsIs
  <2> DEFINE rest == Rest(m)
  <2> HIDE DEF t, n, rest
  <2>10. \A roles : Spread(PartsIn(roles), t \o rest) =
                      Spread(PartsIn(roles), t) \o Spread(PartsIn(roles), rest)
    BY <2>1, FunctionTypes, SpreadConcat DEF rest
  <2>11. Spread(CallsIn, t \o rest) = Spread(CallsIn, t) \o Spread(CallsIn, rest)
    BY <2>1, FunctionTypes, SpreadConcat DEF rest
  <2>12. /\ <<>> \o Tags(content) = Tags(content) /\ Tags(results) \o <<>> = Tags(results)
         /\ <<>> \o <<>> = <<>>
    <3>1. Tags(content) \in Seq(Nat) /\ Tags(results) \in Seq(Nat)
      BY <1>0, TagsIs
    <3> QED
      BY <3>1, ConcatEmptySeq
  <2>13. Spread(PartsIn(Roles), t \o rest) = Tags(content)
    BY <1>0, <2>4, <2>8, <2>10, <2>12 DEF rest
  <2>14. Spread(PartsIn({"tool"}), t \o rest) = Tags(results)
    BY <1>0, <2>4, <2>5, <2>9, <2>10, <2>12 DEF rest
  <2>15. Spread(CallsIn, t \o rest) = <<>>
    BY <2>4, <2>8, <2>11, <2>12 DEF rest
  <2> QED
    BY <1>1, <1>2, <2>1, <2>3, <2>13, <2>14, <2>15 DEF rest
<1> QED
  BY <1>3, <1>4

\* Nothing of the conversation is left out.
LEMMA ConvertKeeps ==
    ASSUME NEW msgs \in Seq(MessageSet), \A i \in 1..Len(msgs) : Convertible(msgs[i])
    PROVE  LET out == ConvertMessages(msgs)
           IN  /\ Spread(PartsIn(Roles), out) = Spread(KeptTags({"text", "image"}), msgs)
               /\ Spread(PartsIn({"tool"}), out) = Spread(KeptTags({"tool_result"}), msgs)
               /\ Spread(CallsIn, out) = Spread(KeptIds({"tool_use"}), msgs)
<1> DEFINE n == Len(msgs)
           After(f) == [m \in MessageSet |-> Spread(f, Converted[m])]
<1>1. n \in Nat /\ \A i \in 1..n : msgs[i] \in MessageSet
  BY LenProperties
<1>2. ConvertMessages(msgs) = Spread(Converted, msgs)
  BY ConvertIs
<1>3. \A f : ThenSpread(MessageSet, Converted, f, After(f))
  BY DEF ThenSpread
<1>4. \A i \in 1..n :
        /\ After(PartsIn(Roles))[msgs[i]] = KeptTags({"text", "image"})[msgs[i]]
        /\ After(PartsIn({"tool"}))[msgs[i]] = KeptTags({"tool_result"})[msgs[i]]
        /\ After(CallsIn)[msgs[i]] = KeptIds({"tool_use"})[msgs[i]]
  BY <1>1, MessageKept
<1> HIDE DEF After
<1>5. \A roles : Spread(PartsIn(roles), Spread(Converted, msgs)) = Spread(After(PartsIn(roles)), msgs)
  BY <1>3, ConvertedType, FunctionTypes, SpreadSpread
<1>6. Spread(CallsIn, Spread(Converted, msgs)) = Spread(After(CallsIn), msgs)
  BY <1>3, ConvertedType, FunctionTypes, SpreadSpread
<1>7. Spread(After(PartsIn(Roles)), msgs) = Spread(KeptTags({"text", "image"}), msgs)
  BY <1>4, MappedSame
<1>8. Spread(After(PartsIn({"tool"})), msgs) = Spread(KeptTags({"tool_result"}), msgs)
  BY <1>4, MappedSame
<1>9. Spread(After(CallsIn), msgs) = Spread(KeptIds({"tool_use"}), msgs)
  BY <1>4, MappedSame
<1> QED
  BY <1>2, <1>5, <1>6, <1>7, <1>8, <1>9
-----------------------------------------------------------------------------
(* The adaptation.                                                         *)

\* What the adaptation does to each block, message and entry.
StringifiedBlock == [b \in TaggedBlock |-> Stringified(b)]

AdaptedMessage ==
    [m \in MessageSet |-> [role |-> m.role, blocks |-> Mapped(StringifiedBlock, m.blocks)]]

AdaptedEntry == [e \in FlatEntry |-> [role |-> e.role, block |-> Stringified(e.block)]]

\* The adaptation leaves a block's type, id and tag, and no structure.
LEMMA StringifiedIs ==
    ASSUME NEW b \in TaggedBlock
    PROVE  /\ Stringified(b) \in TaggedBlock
           /\ Stringified(b).type = b.type /\ Stringified(b).id = b.id
           /\ ~ Stringified(b).structured
           /\ ~ b.structured => Stringified(b) = b
<1>1. CASE b.type = "tool_result"
  <2> DEFINE c == [b EXCEPT !.structured = FALSE]
  <2>1. Stringified(b) = c
    BY <1>1 DEF Stringified
  <2>2. b \in Tagged
    BY DEF TaggedBlock
  <2>3. c \in Tagged /\ c.type = b.type /\ c.id = b.id /\ c.structured = FALSE
    BY <2>2 DEF Tagged
  <2>4. ~ b.structured => c = b
    BY <2>2 DEF Tagged
  <2> HIDE DEF c
  <2> QED
    BY <2>1, <2>3, <2>4 DEF TaggedBlock
<1>2. CASE b.type # "tool_result"
  BY <1>2, Fields DEF Stringified
<1> QED
  BY <1>1, <1>2

\* The adaptation keeps the shape of a block, a message and an entry.
LEMMA AdaptedTypes ==
    /\ Maps(TaggedBlock, TaggedBlock, StringifiedBlock)
    /\ Maps(MessageSet, MessageSet, AdaptedMessage)
    /\ Maps(FlatEntry, FlatEntry, AdaptedEntry)
<1>1. Maps(TaggedBlock, TaggedBlock, StringifiedBlock)
  BY StringifiedIs DEF Maps, StringifiedBlock
<1>2. Maps(MessageSet, MessageSet, AdaptedMessage)
  <2>1. ASSUME NEW m \in MessageSet
        PROVE  AdaptedMessage[m] \in MessageSet
    <3> DEFINE s == Mapped(StringifiedBlock, m.blocks)
    <3>1. m.role \in Roles /\ s \in Seq(TaggedBlock)
      BY <1>1, Fields, MappedType
    <3>2. AdaptedMessage[m] = [role |-> m.role, blocks |-> s]
      BY DEF AdaptedMessage
    <3> HIDE DEF s
    <3> QED
      BY <3>1, <3>2 DEF MessageSet
  <2> QED
    BY <2>1 DEF Maps
<1>3. Maps(FlatEntry, FlatEntry, AdaptedEntry)
  <2>1. ASSUME NEW e \in FlatEntry
        PROVE  AdaptedEntry[e] \in FlatEntry
    BY Fields, StringifiedIs DEF AdaptedEntry, FlatEntry
  <2> QED
    BY <2>1 DEF Maps
<1> QED
  BY <1>1, <1>2, <1>3

\* The adaptation of a conversation is that of its messages.
LEMMA AdaptedIs ==
    ASSUME NEW msgs \in Seq(MessageSet)
    PROVE  /\ AdaptedMessages(msgs) = Mapped(AdaptedMessage, msgs)
           /\ AdaptedMessages(msgs) \in Seq(MessageSet)
           /\ Len(AdaptedMessages(msgs)) = Len(msgs)
<1> DEFINE n == Len(msgs)
<1>1. n \in Nat /\ \A k \in 1..n : msgs[k] \in MessageSet
  BY LenProperties
<1> HIDE DEF n
<1>2. ASSUME NEW m \in MessageSet
      PROVE  [m EXCEPT !.blocks = [i \in 1..Len(@) |-> Stringified(@[i])]] = AdaptedMessage[m]
  <2> DEFINE s == m.blocks
             l == Len(s)
             t == [i \in 1..l |-> Stringified(s[i])]
  <2>1. s \in Seq(TaggedBlock) /\ \A i \in 1..l : s[i] \in TaggedBlock
    BY Fields, LenProperties
  <2>2. Mapped(StringifiedBlock, s) = t
    <3> HIDE DEF s
    <3>1. \A i \in 1..l : StringifiedBlock[s[i]] = Stringified(s[i])
      BY <2>1 DEF StringifiedBlock
    <3> QED
      BY <3>1 DEF Mapped
  <2>3. AdaptedMessage[m] = [role |-> m.role, blocks |-> t]
    BY <2>2 DEF AdaptedMessage
  <2>4. [m EXCEPT !.blocks = t] = [role |-> m.role, blocks |-> t]
    <3> HIDE DEF t
    <3> QED
      BY DEF MessageSet
  <2> QED
    BY <2>3, <2>4
<1>3. [k \in 1..n |-> [msgs[k] EXCEPT !.blocks = [i \in 1..Len(@) |-> Stringified(@[i])]]]
        = [k \in 1..n |-> AdaptedMessage[msgs[k]]]
  BY <1>1, <1>2
<1>4. AdaptedMessages(msgs) = Mapped(AdaptedMessage, msgs)
  BY <1>3 DEF AdaptedMessages, Mapped, n
<1>5. Mapped(AdaptedMessage, msgs) \in Seq(MessageSet) /\ Len(Mapped(AdaptedMessage, msgs)) = Len(msgs)
  BY AdaptedTypes, MappedType
<1> QED
  BY <1>4, <1>5

\* Every block of a message has its entry.
LEMMA FlatRange ==
    ASSUME NEW msgs \in Seq(MessageSet), NEW m \in Range(msgs), NEW b \in Range(m.blocks)
    PROVE  [role |-> m.role, block |-> b] \in Range(Flat(msgs))
<1> DEFINE e == [role |-> m.role, block |-> b]
<1>1. m \in MessageSet
  BY RangeOfSeq
<1>2. e \in Range(Entries[m])
  <2>1. m.blocks \in Seq(TaggedBlock)
    BY <1>1, Fields
  <2>2. PICK i \in 1..Len(m.blocks) : m.blocks[i] = b
    BY <2>1, LenProperties DEF Range
  <2>3. Entries[m] = [j \in 1..Len(m.blocks) |-> [role |-> m.role, block |-> m.blocks[j]]]
    BY <1>1 DEF Entries
  <2>4. Entries[m][i] = e /\ i \in DOMAIN Entries[m]
    BY <2>2, <2>3
  <2> HIDE DEF e
  <2> QED
    BY <2>4 DEF Range
<1> HIDE DEF e
<1>3. Range(Spread(Entries, msgs)) = UNION {Range(Entries[x]) : x \in Range(msgs)}
  BY EntriesType, SpreadRange
<1>4. e \in Range(Spread(Entries, msgs))
  BY <1>2, <1>3
<1> QED
  BY <1>4, FlatIs DEF e

\* What the adaptation leaves has no structure.
LEMMA AdaptedPlain ==
    ASSUME NEW msgs \in Seq(MessageSet), NEW m \in Range(AdaptedMessages(msgs)),
           NEW b \in Range(m.blocks)
    PROVE  ~ b.structured
<1> DEFINE a == AdaptedMessages(msgs)
           n == Len(msgs)
<1>1. a = Mapped(AdaptedMessage, msgs) /\ Len(a) = n /\ a \in Seq(MessageSet)
  BY AdaptedIs
<1> HIDE DEF a
<1>2. PICK k \in 1..n : a[k] = m
  BY <1>1, LenProperties DEF Range, a
<1>3. msgs[k] \in MessageSet /\ m = AdaptedMessage[msgs[k]]
  BY <1>1, <1>2, LenProperties DEF Mapped
<1> DEFINE s == msgs[k].blocks
<1>4. s \in Seq(TaggedBlock) /\ m.blocks = Mapped(StringifiedBlock, s)
  BY <1>3, Fields DEF AdaptedMessage
<1> HIDE DEF s
<1>5. PICK i \in 1..Len(s) : b = StringifiedBlock[s[i]] /\ s[i] \in TaggedBlock
  BY <1>4 DEF Range, Mapped
<1> QED
  BY <1>5, StringifiedIs DEF StringifiedBlock

\* Where there is no structure the adaptation changes nothing.
LEMMA AdaptedSame ==
    ASSUME NEW msgs \in Seq(MessageSet),
           \A m \in Range(msgs) : \A b \in Range(m.blocks) : ~ b.structured
    PROVE  AdaptedMessages(msgs) = msgs
<1> DEFINE a == AdaptedMessages(msgs)
           n == Len(msgs)
<1>1. a = Mapped(AdaptedMessage, msgs) /\ Len(a) = n /\ a \in Seq(MessageSet) /\ n \in Nat
  BY AdaptedIs, LenProperties
<1> HIDE DEF a
<1>2. ASSUME NEW k \in 1..n
      PROVE  a[k] = msgs[k]
  <2> DEFINE m == msgs[k]
             s == m.blocks
  <2>1. m \in MessageSet /\ m \in Range(msgs) /\ a[k] = AdaptedMessage[m]
    BY <1>1, LenProperties DEF Range, Mapped
  <2> HIDE DEF m
  <2>2. s \in Seq(TaggedBlock)
    BY <2>1, Fields
  <2>3. \A i \in 1..Len(s) : s[i] \in TaggedBlock /\ s[i] \in Range(s)
    BY <2>2, LenProperties DEF Range
  <2>4. \A i \in 1..Len(s) : StringifiedBlock[s[i]] = s[i]
    BY <2>1, <2>3, StringifiedIs DEF StringifiedBlock
  <2>5. Mapped(StringifiedBlock, s) = s
    <3> HIDE DEF s
    <3>1. s \in [1..Len(s) -> TaggedBlock]
      BY <2>2, LenProperties
    <3> QED
      BY <2>4, <3>1 DEF Mapped
  <2>6. AdaptedMessage[m] = [role |-> m.role, blocks |-> s]
    BY <2>1, <2>5 DEF AdaptedMessage
  <2>7. m = [role |-> m.role, blocks |-> s]
    BY <2>1 DEF MessageSet
  <2> QED
    BY <2>1, <2>6, <2>7 DEF m
<1> HIDE DEF n
<1>3. a = msgs
  BY <1>1, <1>2, SeqEqual DEF n
<1> QED
  BY <1>3 DEF a

\* The entries of an adapted conversation.
LEMMA FlatAdapted ==
    ASSUME NEW msgs \in Seq(MessageSet)
    PROVE  Flat(AdaptedMessages(msgs)) = Mapped(AdaptedEntry, Flat(msgs))
<1> DEFINE h == [m \in MessageSet |-> Entries[AdaptedMessage[m]]]
<1>1. Then(MessageSet, AdaptedMessage, Entries, h)
  BY DEF Then
<1>2. ASSUME NEW m \in MessageSet
      PROVE  Entries[AdaptedMessage[m]] = Mapped(AdaptedEntry, Entries[m])
  <2> DEFINE r == m.role
             s == m.blocks
             t == Mapped(StringifiedBlock, s)
             both == [b \in TaggedBlock |-> [role |-> r, block |-> Stringified(b)]]
  <2>1. r \in Roles /\ s \in Seq(TaggedBlock) /\ Entries[m] = Mapped(WithRole(r), s)
    BY Fields, EntriesOne
  <2>2. AdaptedMessage[m] \in MessageSet /\ AdaptedMessage[m] = [role |-> r, blocks |-> t]
    BY AdaptedTypes DEF Maps, AdaptedMessage
  <2> HIDE DEF r, s, t
  <2>3. AdaptedMessage[m].role = r /\ AdaptedMessage[m].blocks = t
    BY <2>2
  <2>4. Entries[AdaptedMessage[m]] = Mapped(WithRole(r), t)
    BY <2>2, <2>3, EntriesOne
  <2>5. Then(TaggedBlock, StringifiedBlock, WithRole(r), both)
    <3>1. ASSUME NEW b \in TaggedBlock
          PROVE  WithRole(r)[StringifiedBlock[b]] = [role |-> r, block |-> Stringified(b)]
      BY StringifiedIs DEF WithRole, StringifiedBlock
    <3> QED
      BY <3>1 DEF Then
  <2>6. Then(TaggedBlock, WithRole(r), AdaptedEntry, both)
    <3>1. ASSUME NEW b \in TaggedBlock
          PROVE  AdaptedEntry[WithRole(r)[b]] = [role |-> r, block |-> Stringified(b)]
      BY <2>1 DEF WithRole, AdaptedEntry, FlatEntry
    <3> QED
      BY <3>1 DEF Then
  <2> HIDE DEF both
  <2>7. Mapped(WithRole(r), Mapped(StringifiedBlock, s)) = Mapped(both, s)
    BY <2>1, <2>5, AdaptedTypes, MappedThen
  <2>8. Mapped(AdaptedEntry, Mapped(WithRole(r), s)) = Mapped(both, s)
    BY <2>1, <2>6, FunctionTypes, MappedThen
  <2> QED
    BY <2>1, <2>4, <2>7, <2>8 DEF t
<1>3. ThenMapped(MessageSet, Entries, AdaptedEntry, h)
  BY <1>2 DEF ThenMapped
<1> HIDE DEF h
<1>4. Spread(Entries, Mapped(AdaptedMessage, msgs)) = Spread(h, msgs)
  BY <1>1, AdaptedTypes, MappedThen
<1>5. Mapped(AdaptedEntry, Spread(Entries, msgs)) = Spread(h, msgs)
  BY <1>3, AdaptedTypes, EntriesType, MappedSpread
<1>6. Flat(AdaptedMessages(msgs)) = Spread(Entries, AdaptedMessages(msgs))
  BY AdaptedIs, FlatIs
<1> QED
  BY <1>4, <1>5, <1>6, AdaptedIs, FlatIs

\* The pass sees no difference.
LEMMA AdaptedPass ==
    \A flat \in Seq(FlatEntry) : Pass(Mapped(AdaptedEntry, flat)) = Pass(flat)
<1> DEFINE P == {flat \in Seq(FlatEntry) : Pass(Mapped(AdaptedEntry, flat)) = Pass(flat)}
<1>1. <<>> \in P
  BY EmptySeq, MappedEmpty
<1>2. ASSUME NEW flat \in Seq(FlatEntry), NEW e \in FlatEntry, flat \in P
      PROVE  Append(flat, e) \in P
  <2> DEFINE a == Append(flat, e)
             m == Mapped(AdaptedEntry, flat)
             d == AdaptedEntry[e]
  <2>1. /\ a \in Seq(FlatEntry) /\ m \in Seq(FlatEntry) /\ d \in FlatEntry
        /\ Mapped(AdaptedEntry, a) = Append(m, d)
    <3>1. a \in Seq(FlatEntry)
      BY AppendProperties
    <3>2. m \in Seq(FlatEntry)
      BY AdaptedTypes, MappedType
    <3>3. d \in FlatEntry
      BY AdaptedTypes DEF Maps
    <3>4. Mapped(AdaptedEntry, a) = Append(m, d)
      BY AdaptedTypes, MappedAppend
    <3> QED
      BY <3>1, <3>2, <3>3, <3>4
  <2>2. Pass(a) = Remembered(Pass(flat), e)
    BY PassAppend
  <2>3. \A p : Remembered(p, d) = Remembered(p, e)
    <3>1. d.role = e.role /\ d.block = Stringified(e.block) /\ e.block \in TaggedBlock
      BY Fields DEF AdaptedEntry
    <3>2. d.block.type = e.block.type /\ d.block.id = e.block.id
      BY <3>1, StringifiedIs
    <3> HIDE DEF d
    <3> QED
      BY <3>1, <3>2 DEF Remembered
  <2>4. Pass(m) = Pass(flat)
    BY <1>2
  <2> HIDE DEF a, m, d
  <2>5. Pass(Append(m, d)) = Remembered(Pass(m), d)
    BY <2>1, PassAppend
  <2>6. a \in P
    BY <2>1, <2>2, <2>3, <2>4, <2>5
  <2> QED
    BY <2>6 DEF a
<1> HIDE DEF P
<1>3. \A flat \in Seq(FlatEntry) : flat \in P
  BY <1>1, <1>2, SequenceInduction
<1> QED
  BY <1>3 DEF P

\* A history stays valid when it is adapted.
LEMMA AdaptedValid ==
    ASSUME NEW msgs \in Seq(MessageSet)
    PROVE  ToolHistoryValid(AdaptedMessages(msgs)) = ToolHistoryValid(msgs)
BY FlatIs, FlatAdapted, AdaptedPass DEF ToolHistoryValid
-----------------------------------------------------------------------------
(* Results follow calls.                                                   *)

\* In the provider's messages every result has its call before it and no
\* other result beside it; what is known is at least what they say.
InStep(out, past) ==
    /\ \A k \in 1..Len(out) : out[k].role = "tool" =>
         /\ \E j \in 1..(k - 1) : out[k].answers \in Range(out[j].calls)
         /\ \A j \in 1..Len(out) : out[j].role = "tool" /\ out[j].answers = out[k].answers => j = k
         /\ out[k].answers \in past.results
    /\ \A id \in past.calls : \E j \in 1..Len(out) : id \in Range(out[j].calls)

\* One message more.
LEMMA InStepNext ==
    ASSUME NEW out \in Seq(SentSet), NEW x \in SentSet, NEW p, NEW q, InStep(out, p),
           x.role = "tool" => x.answers \in p.calls /\ x.answers \notin p.results
                              /\ x.answers \in q.results,
           p.results \subseteq q.results,
           \A id \in q.calls : id \in p.calls \/ id \in Range(x.calls)
    PROVE  InStep(Append(out, x), q)
<1> DEFINE a == Append(out, x)
           n == Len(out)
<1>1. /\ n \in Nat /\ Len(a) = n + 1 /\ a[n + 1] = x
      /\ \A k \in 1..n : a[k] = out[k]
  BY AppendProperties, LenProperties
<1>2. /\ \A k \in 1..n : out[k].role = "tool" =>
           /\ \E j \in 1..(k - 1) : out[k].answers \in Range(out[j].calls)
           /\ \A j \in 1..n : out[j].role = "tool" /\ out[j].answers = out[k].answers => j = k
           /\ out[k].answers \in p.results
      /\ \A id \in p.calls : \E j \in 1..n : id \in Range(out[j].calls)
  BY DEF InStep
<1> HIDE DEF a, n
<1>3. ASSUME NEW k \in 1..n + 1, a[k].role = "tool"
      PROVE  /\ \E j \in 1..(k - 1) : a[k].answers \in Range(a[j].calls)
             /\ \A j \in 1..n + 1 : a[j].role = "tool" /\ a[j].answers = a[k].answers => j = k
             /\ a[k].answers \in q.results
  <2>1. CASE k = n + 1
    <3>1. a[k] = x /\ x.answers \in p.calls /\ x.answers \notin p.results /\ x.answers \in q.results
      BY <1>1, <1>3, <2>1
    <3>2. PICK j \in 1..n : x.answers \in Range(out[j].calls)
      BY <1>2, <3>1
    <3>3. j \in 1..(k - 1) /\ a[j] = out[j]
      BY <1>1, <2>1
    <3>4. ASSUME NEW i \in 1..n + 1, a[i].role = "tool", a[i].answers = a[k].answers, i # k
          PROVE  FALSE
      <4>1. i \in 1..n /\ a[i] = out[i]
        BY <1>1, <2>1, <3>4
      <4> QED
        BY <1>2, <3>1, <3>4, <4>1
    <3> QED
      BY <3>1, <3>2, <3>3, <3>4
  <2>2. CASE k # n + 1
    <3>1. k \in 1..n /\ a[k] = out[k] /\ out[k].role = "tool"
      BY <1>1, <1>3, <2>2
    <3>2. out[k].answers \in p.results /\ out[k].answers \in q.results
      BY <1>2, <3>1
    <3>3. PICK j \in 1..(k - 1) : out[k].answers \in Range(out[j].calls)
      BY <1>2, <3>1
    <3>4. a[j] = out[j]
      BY <1>1, <3>1
    <3>5. ASSUME NEW i \in 1..n + 1, a[i].role = "tool", a[i].answers = a[k].answers
          PROVE  i = k
      <4>1. CASE i = n + 1
        <5>1. a[i] = x /\ x.answers \notin p.results
          BY <1>1, <3>5, <4>1
        <5> QED
          BY <3>1, <3>2, <3>5, <5>1
      <4>2. CASE i # n + 1
        <5>1. i \in 1..n /\ a[i] = out[i]
          BY <1>1, <4>2
        <5> QED
          BY <1>2, <3>1, <3>5, <5>1
      <4> QED
        BY <4>1, <4>2
    <3> QED
      BY <3>1, <3>2, <3>3, <3>4, <3>5
  <2> QED
    BY <2>1, <2>2
<1>4. ASSUME NEW id \in q.calls
      PROVE  \E j \in 1..n + 1 : id \in Range(a[j].calls)
  <2>1. CASE id \in p.calls
    <3>1. PICK j \in 1..n : id \in Range(out[j].calls)
      BY <1>2, <2>1
    <3>2. j \in 1..n + 1 /\ a[j] = out[j]
      BY <1>1
    <3> QED
      BY <3>1, <3>2
  <2>2. CASE id \in Range(x.calls)
    <3>1. n + 1 \in 1..n + 1 /\ a[n + 1] = x
      BY <1>1
    <3> QED
      BY <2>2, <3>1
  <2> QED
    BY <2>1, <2>2
<1> QED
  BY <1>1, <1>3, <1>4 DEF InStep, a

\* What one valid entry adds.
LEMMA RememberedIs ==
    ASSUME NEW p \in Past, NEW e \in FlatEntry, NEW q, q = Remembered(p, e), q.valid
    PROVE  /\ p.valid
           /\ e.block.type = "tool_use" =>
                q.calls = p.calls \union {e.block.id} /\ q.results = p.results
           /\ e.block.type = "tool_result" =>
                /\ q.calls = p.calls /\ q.results = p.results \union {e.block.id}
                /\ e.block.id \in p.calls /\ e.block.id \notin p.results
           /\ e.block.type \notin {"tool_use", "tool_result"} => q = p
<1> DEFINE id == e.block.id
<1>1. /\ p.calls \in SUBSET STRING /\ p.results \in SUBSET STRING /\ p.valid \in BOOLEAN
      /\ p = [calls |-> p.calls, results |-> p.results, valid |-> p.valid]
  BY DEF Past
<1>2. CASE e.block.type = "tool_use"
  <2>1. q = [p EXCEPT !.calls = p.calls \union {id},
               !.valid = p.valid /\ e.role = "assistant" /\ id # "" /\ id \notin p.calls]
    BY <1>2 DEF Remembered
  <2>2. /\ q.calls = p.calls \union {id} /\ q.results = p.results
        /\ q.valid = (p.valid /\ e.role = "assistant" /\ id # "" /\ id \notin p.calls)
    BY <2>1 DEF Past
  <2> QED
    BY <1>2, <2>2
<1>3. CASE e.block.type = "tool_result"
  <2>1. q = [p EXCEPT !.results = p.results \union {id},
               !.valid = p.valid /\ e.role = "user" /\ id \in p.calls /\ id \notin p.results]
    BY <1>3 DEF Remembered
  <2>2. /\ q.results = p.results \union {id} /\ q.calls = p.calls
        /\ q.valid = (p.valid /\ e.role = "user" /\ id \in p.calls /\ id \notin p.results)
    BY <2>1 DEF Past
  <2> QED
    BY <1>3, <2>2
<1>4. CASE e.block.type \notin {"tool_use", "tool_result"}
  <2>1. q = p
    BY <1>4 DEF Remembered
  <2> QED
    BY <1>4, <2>1
<1> QED
  BY <1>2, <1>3, <1>4

\* The entries flat, and then those of some blocks of one message.
With(flat, role, blocks) == flat \o Mapped(WithRole(role), blocks)

\* One block more.
LEMMA WithAppend ==
    ASSUME NEW flat \in Seq(FlatEntry), NEW role \in Roles, NEW s \in Seq(TaggedBlock),
           NEW b \in TaggedBlock
    PROVE  LET e == [role |-> role, block |-> b]
           IN  /\ e \in FlatEntry /\ With(flat, role, s) \in Seq(FlatEntry)
               /\ Pass(With(flat, role, Append(s, b))) = Remembered(Pass(With(flat, role, s)), e)
               /\ Pass(With(flat, role, s)) \in Past
<1> DEFINE e == [role |-> role, block |-> b]
           w == WithRole(role)
           m == Mapped(w, s)
<1>1. Maps(TaggedBlock, FlatEntry, w)
  BY FunctionTypes
<1>2. w[b] = e /\ e \in FlatEntry
  BY DEF WithRole, FlatEntry
<1> HIDE DEF w, e
<1>3. m \in Seq(FlatEntry)
  BY <1>1, MappedType
<1>4. Mapped(w, Append(s, b)) = Append(m, e)
  BY <1>1, <1>2, MappedAppend
<1> HIDE DEF m
<1>5. flat \o m \in Seq(FlatEntry) /\ flat \o Append(m, e) = Append(flat \o m, e)
  BY <1>2, <1>3, ConcatAppend
<1> DEFINE u == flat \o m
<1>6. u \in Seq(FlatEntry) /\ u = With(flat, role, s)
      /\ Append(u, e) = With(flat, role, Append(s, b))
  BY <1>4, <1>5 DEF With, w, m
<1> HIDE DEF u
<1>7. Pass(Append(u, e)) = Remembered(Pass(u), e)
  BY <1>2, <1>6, PassAppend
<1>8. Pass(u) \in Past
  BY <1>6, PassKnows DEF KnownAfter
<1> QED
  BY <1>2, <1>6, <1>7, <1>8 DEF e

\* No block.
LEMMA WithNone ==
    ASSUME NEW flat \in Seq(FlatEntry), NEW role
    PROVE  With(flat, role, <<>>) = flat
BY MappedEmpty, ConcatEmptySeq DEF With

\* The tools' results among some blocks, as ConvertUser sends them.
Results(blocks) == Mapped(ToolMessage, OfType(blocks, {"tool_result"}))

\* One block more is one result more, or none.
LEMMA ResultsAppend ==
    ASSUME NEW s \in Seq(TaggedBlock), NEW b \in TaggedBlock
    PROVE  /\ Results(s) \in Seq(SentSet)
           /\ b.type = "tool_result" => Results(Append(s, b)) = Append(Results(s), ToolMessage[b])
           /\ b.type # "tool_result" => Results(Append(s, b)) = Results(s)
<1> DEFINE types == {"tool_result"}
           k == Keep(types)
           o == OfType(s, types)
           one == <<b>>
<1>1. Maps(TaggedBlock, Seq(TaggedBlock), k) /\ Append(s, b) \in Seq(TaggedBlock)
  BY FunctionTypes, AppendProperties
<1>2. k[b] = IF b.type = "tool_result" THEN one ELSE <<>>
  BY DEF Keep
<1>3. /\ o \in Seq(TaggedBlock) /\ o = Spread(k, s)
      /\ OfType(Append(s, b), types) = Spread(k, Append(s, b))
  BY <1>1, OfTypeIs
<1> HIDE DEF types, k, one
<1>4. Spread(k, Append(s, b)) = Spread(k, s) \o k[b]
  BY <1>1, SpreadAppend
<1> HIDE DEF o
<1>5. Results(s) \in Seq(SentSet)
  <2>1. Mapped(ToolMessage, o) \in Seq(SentSet)
    BY <1>3, ToolMessageType, MappedType
  <2> QED
    BY <2>1 DEF Results, o, types
<1>6. ASSUME b.type = "tool_result"
      PROVE  Results(Append(s, b)) = Append(Results(s), ToolMessage[b])
  <2>1. o \o one = Append(o, b)
    BY <1>3, AppendIsConcat DEF one
  <2>2. OfType(Append(s, b), types) = Append(o, b)
    BY <1>2, <1>3, <1>4, <1>6, <2>1
  <2>3. Mapped(ToolMessage, Append(o, b)) = Append(Mapped(ToolMessage, o), ToolMessage[b])
    BY <1>3, ToolMessageType, MappedAppend
  <2> QED
    BY <2>2, <2>3 DEF Results, o, types
<1>7. ASSUME b.type # "tool_result"
      PROVE  Results(Append(s, b)) = Results(s)
  <2>1. o \o <<>> = o
    BY <1>3, ConcatEmptySeq
  <2>2. OfType(Append(s, b), types) = o
    BY <1>2, <1>3, <1>4, <1>7, <2>1
  <2> QED
    BY <2>2 DEF Results, o, types
<1> QED
  BY <1>5, <1>6, <1>7

\* The results of a user's message, one by one.
LEMMA UserInStep ==
    ASSUME NEW flat \in Seq(FlatEntry), NEW role \in Roles, NEW out \in Seq(SentSet),
           Pass(flat).valid => InStep(out, Pass(flat)),
           NEW B, B = {b \in TaggedBlock : b.type # "tool_use"}
    PROVE  \A s \in Seq(B) :
              Pass(With(flat, role, s)).valid =>
                 Pass(flat).valid /\ InStep(out \o Results(s), Pass(With(flat, role, s)))
<1> DEFINE P == {s \in Seq(B) :
                   Pass(With(flat, role, s)).valid =>
                      Pass(flat).valid /\ InStep(out \o Results(s), Pass(With(flat, role, s)))}
<1>0. B \subseteq TaggedBlock
  OBVIOUS
<1>1. <<>> \in P
  <2> DEFINE none == <<>>
  <2>1. none \in Seq(B) /\ none \in Seq(TaggedBlock) /\ With(flat, role, none) = flat
    BY EmptySeq, WithNone
  <2>2. Results(none) = <<>>
    <3>0. Len(none) = 0
      OBVIOUS
    <3> HIDE DEF none
    <3>2. \A i \in 1..Len(none) : none[i].type \notin {"tool_result"}
      BY <3>0
    <3>1. OfType(none, {"tool_result"}) = <<>>
      BY <2>1, <3>2, OfTypeNone
    <3> QED
      BY <3>1, MappedEmpty DEF Results
  <2>3. out \o Results(none) = out
    BY <2>2, ConcatEmptySeq
  <2> HIDE DEF none
  <2>4. none \in P
    BY <2>1, <2>3
  <2> QED
    BY <2>4 DEF none
<1>2. ASSUME NEW s \in Seq(B), NEW b \in B, s \in P
      PROVE  Append(s, b) \in P
  <2> DEFINE a == Append(s, b)
             p == Pass(With(flat, role, s))
             q == Pass(With(flat, role, a))
             e == [role |-> role, block |-> b]
             r == Results(s)
             x == ToolMessage[b]
  <2>1. a \in Seq(B) /\ b \in TaggedBlock /\ b.type # "tool_use"
    BY AppendProperties
  <2>2. s \in Seq(TaggedBlock)
    BY <1>0, SeqMonotonic
  <2>3. e \in FlatEntry /\ q = Remembered(p, e) /\ p \in Past
    BY <2>1, <2>2, WithAppend
  <2>4. /\ r \in Seq(SentSet)
        /\ b.type = "tool_result" => Results(a) = Append(r, x)
        /\ b.type # "tool_result" => Results(a) = r
    BY <2>1, <2>2, ResultsAppend
  <2>5. x \in SentSet /\ x.role = "tool" /\ x.answers = b.id
    BY <2>1, ToolMessageType DEF Maps
  <2>6. p.valid => Pass(flat).valid /\ InStep(out \o r, p)
    BY <1>2
  <2>7. e.block = b
    OBVIOUS
  <2> HIDE DEF a, p, q, e, r, x
  <2>8. ASSUME q.valid
        PROVE  Pass(flat).valid /\ InStep(out \o Results(a), q)
    <3>1. /\ p.valid
          /\ b.type = "tool_result" =>
               /\ q.calls = p.calls /\ q.results = p.results \union {b.id}
               /\ b.id \in p.calls /\ b.id \notin p.results
          /\ b.type # "tool_result" => q = p
      BY <2>1, <2>3, <2>7, <2>8, RememberedIs
    <3>2. Pass(flat).valid /\ InStep(out \o r, p)
      BY <2>6, <3>1
    <3>3. CASE b.type = "tool_result"
      <4>1. out \o r \in Seq(SentSet) /\ out \o Append(r, x) = Append(out \o r, x)
        BY <2>4, <2>5, ConcatAppend
      <4> DEFINE o == out \o r
      <4>2. o \in Seq(SentSet) /\ InStep(o, p) /\ out \o Results(a) = Append(o, x)
        BY <2>4, <3>2, <3>3, <4>1
      <4> HIDE DEF o
      <4>3. InStep(Append(o, x), q)
        BY <2>5, <3>1, <3>3, <4>2, InStepNext
      <4> QED
        BY <3>2, <4>2, <4>3
    <3>4. CASE b.type # "tool_result"
      BY <2>4, <3>1, <3>2, <3>4
    <3> QED
      BY <3>3, <3>4
  <2>9. a \in P
    BY <2>1, <2>8 DEF q
  <2> QED
    BY <2>9 DEF a
<1> HIDE DEF P
<1>3. \A s \in Seq(B) : s \in P
  BY <1>1, <1>2, SequenceInduction
<1> QED
  BY <1>3 DEF P

\* The calls of an assistant's message, one by one.
LEMMA AssistantCalls ==
    ASSUME NEW flat \in Seq(FlatEntry), NEW role \in Roles,
           NEW B, B = {b \in TaggedBlock : b.type \in {"text", "tool_use"}}
    PROVE  \A s \in Seq(B) :
              Pass(With(flat, role, s)).valid =>
                 /\ Pass(flat).valid
                 /\ Pass(With(flat, role, s)).results = Pass(flat).results
                 /\ \A id \in Pass(With(flat, role, s)).calls : id \in Pass(flat).calls
                      \/ \E b \in Range(s) : b.type = "tool_use" /\ b.id = id
<1> DEFINE Good(s, q) ==
             /\ Pass(flat).valid
             /\ q.results = Pass(flat).results
             /\ \A id \in q.calls : id \in Pass(flat).calls
                  \/ \E b \in Range(s) : b.type = "tool_use" /\ b.id = id
           P == {s \in Seq(B) : Pass(With(flat, role, s)).valid => Good(s, Pass(With(flat, role, s)))}
<1>0. B \subseteq TaggedBlock
  OBVIOUS
<1>1. <<>> \in P
  <2> DEFINE none == <<>>
  <2>1. none \in Seq(B) /\ With(flat, role, none) = flat
    BY EmptySeq, WithNone
  <2> HIDE DEF none
  <2>2. none \in P
    BY <2>1
  <2> QED
    BY <2>2 DEF none
<1>2. ASSUME NEW s \in Seq(B), NEW b \in B, s \in P
      PROVE  Append(s, b) \in P
  <2> DEFINE a == Append(s, b)
             p == Pass(With(flat, role, s))
             q == Pass(With(flat, role, a))
             e == [role |-> role, block |-> b]
  <2>1. a \in Seq(B) /\ b \in TaggedBlock /\ b.type \in {"text", "tool_use"}
    BY AppendProperties
  <2>2. s \in Seq(TaggedBlock)
    BY <1>0, SeqMonotonic
  <2>3. e \in FlatEntry /\ q = Remembered(p, e) /\ p \in Past
    BY <2>1, <2>2, WithAppend
  <2>4. Range(a) = Range(s) \union {b}
    <3> DEFINE one == <<b>>
    <3>1. a = s \o one /\ one \in Seq(B) /\ Range(one) = {b}
      BY AppendIsConcat DEF Range
    <3> HIDE DEF one, a
    <3> QED
      BY <3>1, RangeConcatenation
  <2>5. p.valid => Good(s, p)
    BY <1>2
  <2>6. e.block = b
    OBVIOUS
  <2> HIDE DEF a, p, q, e
  <2>7. ASSUME q.valid
        PROVE  Good(a, q)
    <3>1. /\ p.valid
          /\ b.type = "tool_use" => q.calls = p.calls \union {b.id} /\ q.results = p.results
          /\ b.type = "text" => q = p
      BY <2>1, <2>3, <2>6, <2>7, RememberedIs
    <3>2. Good(s, p)
      BY <2>5, <3>1
    <3>3. CASE b.type = "tool_use"
      BY <2>4, <3>1, <3>2, <3>3
    <3>4. CASE b.type = "text"
      BY <2>4, <3>1, <3>2, <3>4
    <3> QED
      BY <2>1, <3>3, <3>4
  <2> HIDE DEF Good
  <2>8. a \in P
    BY <2>1, <2>7 DEF q
  <2> QED
    BY <2>8 DEF a
<1> HIDE DEF P
<1>3. \A s \in Seq(B) : s \in P
  BY <1>1, <1>2, SequenceInduction
<1> QED
  BY <1>3 DEF P, Good

\* A message that can be converted keeps the provider's messages in step.
LEMMA MessageInStep ==
    ASSUME NEW flat \in Seq(FlatEntry), NEW out \in Seq(SentSet),
           Pass(flat).valid => InStep(out, Pass(flat)),
           NEW m \in MessageSet, Convertible(m), Pass(flat \o Entries[m]).valid
    PROVE  Pass(flat).valid /\ InStep(out \o Converted[m], Pass(flat \o Entries[m]))
<1> DEFINE s == m.blocks
           r == m.role
           p == Pass(flat)
           q == Pass(With(flat, r, s))
<1>1. /\ s \in Seq(TaggedBlock) /\ r \in Roles
      /\ flat \o Entries[m] = With(flat, r, s)
  BY Fields, EntriesOne DEF With
<1>2. q.valid
  BY <1>1
<1>3. \A i \in 1..Len(s) : s[i] \in TaggedBlock
  BY <1>1
<1>4. CASE r = "assistant"
  <2> DEFINE B == {b \in TaggedBlock : b.type \in {"text", "tool_use"}}
             uses == OfType(s, {"tool_use"})
             x == Message("assistant", Tags(OfType(s, {"text"})), Ids(uses), "")
  <2>1. \A i \in 1..Len(s) : s[i] \in B
    BY <1>3, <1>4, ConvertibleTypes
  <2>2. s \in Seq(B)
    <3> HIDE DEF B, s
    <3> DEFINE n == Len(s)
    <3>1. n \in Nat /\ s = [i \in 1..n |-> s[i]]
      BY <1>1, LenProperties
    <3>2. s \in [1..n -> B]
      BY <2>1, <3>1
    <3> HIDE DEF n
    <3> QED
      BY <3>1, <3>2, SeqDef
  <2>3. /\ Converted[m] = <<x>> /\ x \in SentSet
        /\ x.role = "assistant" /\ x.calls = Ids(uses)
    BY <1>4, ConvertedType, ConvertAssistantIs
  <2> HIDE DEF s, r, x
  <2>4. /\ p.valid /\ q.results = p.results
        /\ \A id \in q.calls : id \in p.calls
             \/ \E b \in Range(s) : b.type = "tool_use" /\ b.id = id
    BY <1>1, <1>2, <2>2, AssistantCalls
  <2>5. ASSUME NEW b \in Range(s), b.type = "tool_use"
        PROVE  b.id \in Range(Ids(uses))
    <3> DEFINE k == Keep({"tool_use"})
    <3>1. /\ uses = Spread(k, s) /\ uses \in Seq(TaggedBlock) /\ b \in TaggedBlock
          /\ Maps(TaggedBlock, Seq(TaggedBlock), k)
      BY <1>1, OfTypeIs, RangeOfSeq, FunctionTypes
    <3>2. k[b] = <<b>> /\ b \in Range(<<b>>)
      BY <2>5, <3>1 DEF Keep, Range
    <3> HIDE DEF k, uses
    <3>3. Range(Spread(k, s)) = UNION {Range(k[y]) : y \in Range(s)}
      BY <1>1, <3>1, SpreadRange
    <3>4. b \in Range(uses)
      BY <3>1, <3>2, <3>3
    <3>5. PICK i \in 1..Len(uses) : uses[i] = b
      BY <3>1, <3>4, LenProperties DEF Range
    <3>6. Ids(uses)[i] = b.id /\ i \in DOMAIN Ids(uses)
      BY <3>5 DEF Ids
    <3> QED
      BY <3>6 DEF Range
  <2>6. \A id \in q.calls : id \in p.calls \/ id \in Range(x.calls)
    BY <2>3, <2>4, <2>5
  <2>7. InStep(out, p)
    BY <2>4
  <2> HIDE DEF p, q, uses
  <2>8. InStep(Append(out, x), q)
    BY <2>3, <2>4, <2>6, <2>7, InStepNext
  <2>9. Append(out, x) = out \o Converted[m]
    BY <2>3, AppendIsConcat
  <2> QED
    BY <1>1, <2>4, <2>8, <2>9 DEF p, q
<1>5. CASE r # "assistant"
  <2> DEFINE B == {b \in TaggedBlock : b.type # "tool_use"}
             results == Results(s)
             rest == Rest(m)
             o == out \o results
  <2>1. \A i \in 1..Len(s) : s[i] \in B
    BY <1>3, <1>5, ConvertibleTypes
  <2>2. s \in Seq(B)
    <3> HIDE DEF B, s
    <3> DEFINE n == Len(s)
    <3>1. n \in Nat /\ s = [i \in 1..n |-> s[i]]
      BY <1>1, LenProperties
    <3>2. s \in [1..n -> B]
      BY <2>1, <3>1
    <3> HIDE DEF n
    <3> QED
      BY <3>1, <3>2, SeqDef
  <2>3. Converted[m] = results \o rest /\ results \in Seq(SentSet) /\ rest \in Seq(SentSet)
    BY <1>5, ConvertedType, ConvertUserIs, RestIs DEF Results
  <2>4. rest = <<>> \/ \E x \in SentSet : rest = <<x>> /\ x.role = r /\ x.calls = <<>>
    BY RestIs
  <2>5. r # "tool"
    BY <1>1 DEF Roles
  <2> HIDE DEF s, r, results, rest
  <2>6. p.valid /\ InStep(o, q)
    BY <1>1, <1>2, <2>2, UserInStep DEF results
  <2>7. o \in Seq(SentSet) /\ out \o (results \o rest) = o \o rest
    <3>1. o \in Seq(SentSet)
      BY <2>3, ConcatProperties
    <3>2. (out \o results) \o rest = out \o (results \o rest)
      BY <2>3, ConcatAssociative
    <3> QED
      BY <3>1, <3>2
  <2> HIDE DEF p, q, o
  <2>8. InStep(o \o rest, q)
    <3>1. CASE rest = <<>>
      BY <2>6, <2>7, <3>1, ConcatEmptySeq
    <3>2. ASSUME NEW x \in SentSet, rest = <<x>>, x.role = r, x.calls = <<>>
          PROVE  InStep(o \o rest, q)
      <4>1. o \o rest = Append(o, x)
        BY <2>7, <3>2, AppendIsConcat
      <4>2. InStep(Append(o, x), q)
        BY <2>5, <2>6, <2>7, <3>2, InStepNext
      <4> QED
        BY <4>1, <4>2
    <3> QED
      BY <2>4, <3>1, <3>2
  <2> QED
    BY <1>1, <2>3, <2>6, <2>7, <2>8 DEF p, q
<1> QED
  BY <1>4, <1>5

\* What comes of a valid conversation is in step.
LEMMA ConvertInStep ==
    ASSUME NEW C, C = {m \in MessageSet : Convertible(m)}
    PROVE  \A msgs \in Seq(C) :
              ToolHistoryValid(msgs) => InStep(ConvertMessages(msgs), Pass(Flat(msgs)))
<1> DEFINE P == {msgs \in Seq(C) :
                   Pass(Flat(msgs)).valid => InStep(ConvertMessages(msgs), Pass(Flat(msgs)))}
<1>0. C \subseteq MessageSet
  OBVIOUS
<1>1. <<>> \in P
  <2> DEFINE none == <<>>
  <2>1. none \in Seq(C) /\ none \in Seq(MessageSet)
    BY EmptySeq
  <2>2. Flat(none) = <<>> /\ ConvertMessages(none) = <<>>
    <3>1. Spread(Entries, none) = <<>> /\ Spread(Converted, none) = <<>>
      BY SpreadEmpty
    <3> HIDE DEF none
    <3> QED
      BY <2>1, <3>1, FlatIs, ConvertIs
  <2>3. InStep(<<>>, Start)
    BY DEF InStep, Start
  <2> HIDE DEF none
  <2>4. none \in P
    BY <2>1, <2>2, <2>3, PassEmpty
  <2> QED
    BY <2>4 DEF none
<1>2. ASSUME NEW msgs \in Seq(C), NEW m \in C, msgs \in P
      PROVE  Append(msgs, m) \in P
  <2> DEFINE a == Append(msgs, m)
             flat == Flat(msgs)
             out == ConvertMessages(msgs)
  <2>1. a \in Seq(C) /\ m \in MessageSet /\ Convertible(m)
    BY AppendProperties
  <2>2. msgs \in Seq(MessageSet) /\ a \in Seq(MessageSet)
    BY <1>0, <2>1, SeqMonotonic
  <2>3. flat \in Seq(FlatEntry) /\ Flat(a) = flat \o Entries[m]
    BY <2>1, <2>2, FlatIs, FlatAppend
  <2>4. out \in Seq(SentSet) /\ ConvertMessages(a) = out \o Converted[m]
    <3>1. Spread(Converted, a) = Spread(Converted, msgs) \o Converted[m]
      BY <2>1, <2>2, ConvertedType, SpreadAppend
    <3> HIDE DEF a
    <3> QED
      BY <2>2, <3>1, ConvertIs
  <2>5. Pass(flat).valid => InStep(out, Pass(flat))
    BY <1>2
  <2> HIDE DEF a, flat, out
  <2>6. ASSUME Pass(flat \o Entries[m]).valid
        PROVE  InStep(out \o Converted[m], Pass(flat \o Entries[m]))
    BY <2>1, <2>3, <2>4, <2>5, <2>6, MessageInStep
  <2>7. a \in P
    BY <2>1, <2>3, <2>4, <2>6
  <2> QED
    BY <2>7 DEF a
<1>3. \A msgs \in Seq(C) : msgs \in P
  <2> HIDE DEF P
  <2> QED
    BY <1>1, <1>2, SequenceInduction
<1> QED
  BY <1>3 DEF ToolHistoryValid
-----------------------------------------------------------------------------
(* The invariant.                                                          *)

\* A conversation of messages that say something.
Said(msgs) ==
    /\ msgs \in Seq(MessageSet)
    /\ \A k \in 1..Len(msgs) : msgs[k].blocks # <<>>

\* No tool's result has a structure left.
Plain(msgs) == \A m \in Range(msgs) : \A b \in Range(m.blocks) : ~ b.structured

\* All stages, and those of a request that is not accepted.
Stages == {"writing", "accepted", "adapted", "sent"} \union Refusals

Pending(s) == s \in {"writing", "invalid"}

\* The rest of a request, as the assumption on Options has it.
OptionShape == [hints : SUBSET Hints, tools : {"none", "some", "bad"}, choice : ChoiceShape,
                thinking : BOOLEAN, flaw : {"none", "unknown", "broken"}]

\* The inductive invariant.  What was accepted has a valid history, and has it
\* still when it was adapted; after that no tool's result has a structure; and
\* what was sent is the conversion of messages that can all be converted.
TranslationInv ==
    /\ stage \in Stages
    /\ Said(messages)
    /\ options = None <=> Pending(stage)
    /\ ~ Pending(stage) =>
         /\ options \in OptionShape
         /\ messages # <<>>
         /\ ToolHistoryValid(messages)
    /\ target \in Capabilities \union {None}
    /\ stage \in {"adapted", "sent", "unsendable"} => Plain(messages)
    /\ stage = "sent" =>
         /\ sent = ConvertMessages(messages)
         /\ \A k \in 1..Len(messages) : Convertible(messages[k])
    /\ stage # "sent" => sent = <<>>
    /\ stage = "unsendable" => \E m \in Range(messages) : ~ Convertible(m)

\* A request is not None, and there is no message in no conversation.
LEMMA NotNone ==
    /\ \A opts \in OptionShape : opts # None
    /\ \A s \in Seq(MessageSet) : s # <<>> <=> Len(s) \in Nat \ {0}
<1>1. ASSUME NEW opts \in OptionShape
      PROVE  opts # None
  <2>1. "hints" \in DOMAIN opts
    BY DEF OptionShape
  <2>2. DOMAIN None = {}
    BY DEF None
  <2> QED
    BY <2>1, <2>2
<1>2. \A s \in Seq(MessageSet) : s # <<>> <=> Len(s) \in Nat \ {0}
  BY EmptySeq, LenProperties
<1> QED
  BY <1>1, <1>2

\* Nothing has been written at first.
LEMMA InvInit == Init => TranslationInv
<1> SUFFICES ASSUME Init
             PROVE  TranslationInv
  OBVIOUS
<1>1. stage = "writing" /\ messages = <<>> /\ options = None /\ target = None /\ sent = <<>>
  BY DEF Init
<1>2. Said(messages)
  <2>1. <<>> \in Seq(MessageSet) /\ Len(<<>>) = 0
    BY EmptySeq
  <2> QED
    BY <1>1, <2>1 DEF Said
<1> QED
  BY <1>1, <1>2 DEF TranslationInv, Stages, Pending

\* Writing keeps the conversation's shape.
LEMMA WriteSaid ==
    ASSUME Said(messages), NEW role \in Roles, NEW block \in Blocks, Write(role, block)
    PROVE  Said(messages')
<1> DEFINE tag == Len(Flat(messages)) + 1
           b == [type |-> block.type, id |-> block.id, structured |-> block.structured,
                 flaw |-> block.flaw, tag |-> tag]
           n == Len(messages)
<1>1. messages \in Seq(MessageSet) /\ \A k \in 1..n : messages[k].blocks # <<>>
  BY DEF Said
<1>2. b \in TaggedBlock
  <2>1. /\ block \in BlockShape /\ MaxBlocks \in Nat
        /\ block.structured => block.type = "tool_result"
    BY TranslationAssumption
  <2>2. Flat(messages) \in Seq(FlatEntry)
    BY <1>1, FlatIs
  <2>3. tag \in 1..MaxBlocks
    <3>1. Len(Flat(messages)) \in Nat /\ Len(Flat(messages)) < MaxBlocks
      BY <2>2, LenProperties DEF Write
    <3> QED
      BY <2>1, <3>1
  <2> DEFINE type == block.type
             id == block.id
             structured == block.structured
             flaw == block.flaw
  <2>6. /\ type \in {"text", "image", "tool_use", "tool_result"}
        /\ id \in STRING /\ structured \in BOOLEAN /\ flaw \in {"none", "unknown", "broken"}
        /\ structured => type = "tool_result"
    <3>1. block \in BlockShape
      BY <2>1
    <3>2. /\ block.type \in {"text", "image", "tool_use", "tool_result"}
          /\ block.id \in STRING /\ block.structured \in BOOLEAN
          /\ block.flaw \in {"none", "unknown", "broken"}
      BY <3>1 DEF BlockShape
    <3>3. block.structured => block.type = "tool_result"
      BY <2>1
    <3> QED
      BY <3>2, <3>3, Zenon
  <2>7. b = [type |-> type, id |-> id, structured |-> structured, flaw |-> flaw, tag |-> tag]
    OBVIOUS
  <2> HIDE DEF tag, type, id, structured, flaw, b
  <2>4. b \in Tagged
    BY <2>3, <2>6, <2>7 DEF Tagged
  <2>5. b.structured => b.type = "tool_result"
    BY <2>6, <2>7
  <2> HIDE DEF b
  <2> QED
    BY <2>4, <2>5 DEF TaggedBlock
<1>3. \/ messages' = Append(messages, [role |-> role, blocks |-> <<b>>])
      \/ /\ messages # <<>>
         /\ messages' = [messages EXCEPT ![n].blocks = Append(@, b)]
  BY Zenon DEF Write
<1> HIDE DEF b
<1>4. CASE messages' = Append(messages, [role |-> role, blocks |-> <<b>>])
  <2> DEFINE m == [role |-> role, blocks |-> <<b>>]
  <2>1. m \in MessageSet /\ m.blocks # <<>>
    <3>1. <<b>> \in Seq(TaggedBlock)
      BY <1>2
    <3> QED
      BY <3>1 DEF MessageSet
  <2>2. messages' = Append(messages, m)
    BY <1>4
  <2> HIDE DEF m
  <2>3. /\ Append(messages, m) \in Seq(MessageSet) /\ Len(Append(messages, m)) = n + 1 /\ n \in Nat
        /\ \A k \in 1..n : Append(messages, m)[k] = messages[k]
        /\ Append(messages, m)[n + 1] = m
    BY <1>1, <2>1, AppendProperties, LenProperties
  <2>4. \A k \in 1..n + 1 : Append(messages, m)[k].blocks # <<>>
    BY <1>1, <2>1, <2>3
  <2> QED
    BY <2>2, <2>3, <2>4 DEF Said
<1>5. CASE messages # <<>> /\ messages' = [messages EXCEPT ![n].blocks = Append(@, b)]
  <2> DEFINE l == messages[n]
             s == Append(l.blocks, b)
             m == [l EXCEPT !.blocks = s]
  <2>1. n \in 1..n /\ n \in Nat
    BY <1>1, <1>5, NotNone
  <2>2. l \in MessageSet
    BY <1>1, <2>1, LenProperties
  <2>3. s \in Seq(TaggedBlock) /\ s # <<>>
    BY <1>2, <2>2, Fields, AppendProperties
  <2>4. messages' = [messages EXCEPT ![n] = m]
    BY <1>5
  <2> HIDE DEF l, s
  <2>5. m \in MessageSet /\ m.blocks # <<>>
    BY <2>2, <2>3 DEF MessageSet
  <2> HIDE DEF m, n
  <2>6. /\ [messages EXCEPT ![n] = m] \in Seq(MessageSet)
        /\ Len([messages EXCEPT ![n] = m]) = Len(messages)
        /\ \A k \in 1..Len(messages) : [messages EXCEPT ![n] = m][k] = IF k = n THEN m ELSE messages[k]
    BY <1>1, <2>1, <2>5, ExceptSeq DEF n
  <2>7. \A k \in 1..Len(messages) : messages'[k].blocks # <<>>
    BY <1>1, <2>4, <2>5, <2>6 DEF n
  <2> QED
    BY <2>4, <2>6, <2>7 DEF Said
<1> QED
  BY <1>3, <1>4, <1>5

\* A client that writes a block keeps the invariant.
LEMMA InvWrite ==
    ASSUME TranslationInv, NEW role \in Roles, NEW block \in Blocks, Write(role, block)
    PROVE  TranslationInv'
<1>1. /\ stage = "writing" /\ stage' = stage /\ options' = options /\ target' = target
      /\ sent' = sent
  BY Zenon DEF Write
<1>2. Said(messages')
  BY WriteSaid DEF TranslationInv
<1>3. /\ options = None /\ target \in Capabilities \union {None} /\ sent = <<>>
  BY <1>1 DEF TranslationInv, Pending
<1> QED
  BY <1>1, <1>2, <1>3 DEF TranslationInv, Pending, Stages

\* So does normalize, which accepts only a valid history,
LEMMA InvNormalize ==
    ASSUME TranslationInv, NEW opts \in Options, Normalize(opts)
    PROVE  TranslationInv'
<1>1. /\ stage = "writing" /\ messages' = messages /\ target' = target /\ sent' = sent
  BY Zenon DEF Normalize
<1>2. /\ options = None /\ target \in Capabilities \union {None} /\ sent = <<>> /\ Said(messages)
  BY <1>1 DEF TranslationInv, Pending
<1>3. CASE Normalizes(messages, opts) /\ stage' = "accepted" /\ options' = opts
  <2>1. messages # <<>> /\ ToolHistoryValid(messages)
    BY <1>3, Zenon DEF Normalizes
  <2>2. opts \in OptionShape /\ opts # None
    BY TranslationAssumption, NotNone DEF OptionShape
  <2> QED
    BY <1>1, <1>2, <1>3, <2>1, <2>2 DEF TranslationInv, Pending, Stages
<1>4. CASE stage' = "invalid" /\ options' = options
  BY <1>1, <1>2, <1>4 DEF TranslationInv, Pending, Stages, Refusals
<1> QED
  BY <1>3, <1>4, Zenon DEF Normalize

\* The adapted options keep their shape.
LEMMA AdaptedOptionsIs ==
    ASSUME NEW opts \in OptionShape, NEW cap \in Capabilities
    PROVE  /\ AdaptedOptions(opts, cap) \in OptionShape
           /\ AdaptedOptions(opts, cap).hints = opts.hints \intersect cap.supports
           /\ AdaptedOptions(opts, cap).choice.kind = opts.choice.kind
           /\ AdaptedOptions(opts, cap).choice.parallel =
                (opts.choice.parallel /\ (MayCallInParallel(opts.choice) => cap.parallel))
           /\ AdaptedOptions(opts, cap).choice \in ChoiceShape
<1> DEFINE c == opts.choice
           h == opts.hints \intersect cap.supports
           par == c.parallel /\ (MayCallInParallel(c) => cap.parallel)
           d == [c EXCEPT !.parallel = par]
           new == [opts EXCEPT !.hints = h, !.choice = d]
<1>1. c \in ChoiceShape /\ h \in SUBSET Hints /\ par \in BOOLEAN
  BY DEF OptionShape, ChoiceShape
<1>2. AdaptedOptions(opts, cap) = new
  BY DEF AdaptedOptions, OptionShape
<1> HIDE DEF par, h, c
<1>3. d \in ChoiceShape /\ d.kind = c.kind /\ d.parallel = par
  BY <1>1 DEF ChoiceShape
<1> HIDE DEF d
<1>4. new \in OptionShape /\ new.hints = h /\ new.choice = d
  BY <1>1, <1>3 DEF OptionShape
<1> HIDE DEF new
<1> QED
  BY <1>2, <1>3, <1>4 DEF par, h, c

\* adapt_request, which leaves the history valid,
LEMMA InvAdapt ==
    ASSUME TranslationInv, NEW cap \in Capabilities, Adapt(cap)
    PROVE  TranslationInv'
<1>1. stage = "accepted" /\ target' = cap /\ sent' = sent
  BY Zenon DEF Adapt
<1>2. /\ options \in OptionShape /\ messages # <<>> /\ ToolHistoryValid(messages)
      /\ Said(messages) /\ sent = <<>>
  BY <1>1 DEF TranslationInv, Pending
<1>3. CASE stage' = "adapted" /\ messages' = AdaptedMessages(messages)
           /\ options' = AdaptedOptions(options, cap)
  <2> DEFINE a == AdaptedMessages(messages)
             n == Len(messages)
  <2>1. messages \in Seq(MessageSet) /\ \A k \in 1..n : messages[k].blocks # <<>>
    BY <1>2 DEF Said
  <2>2. a = Mapped(AdaptedMessage, messages) /\ a \in Seq(MessageSet) /\ Len(a) = n
    BY <2>1, AdaptedIs
  <2>3. ASSUME NEW k \in 1..n
        PROVE  a[k].blocks # <<>>
    <3> DEFINE m == messages[k]
               s == m.blocks
    <3>1. m \in MessageSet /\ s # <<>> /\ a[k] = AdaptedMessage[m]
      BY <2>1, <2>2, LenProperties DEF Mapped
    <3>2. s \in Seq(TaggedBlock) /\ a[k].blocks = Mapped(StringifiedBlock, s)
      BY <3>1, Fields DEF AdaptedMessage
    <3> HIDE DEF s
    <3>3. Len(Mapped(StringifiedBlock, s)) = Len(s)
      BY <3>2, AdaptedTypes, MappedType
    <3>4. Len(s) # 0 /\ Len(<<>>) = 0
      BY <3>1, <3>2, EmptySeq
    <3> QED
      BY <3>2, <3>3, <3>4
  <2> HIDE DEF a
  <2>4. Said(a) /\ a # <<>>
    BY <1>2, <2>1, <2>2, <2>3, NotNone DEF Said
  <2>5. Plain(a)
    BY <2>1, AdaptedPlain DEF Plain, a
  <2>6. ToolHistoryValid(a)
    BY <1>2, <2>1, AdaptedValid DEF a
  <2>7. options' \in OptionShape /\ options' # None
    BY <1>2, <1>3, AdaptedOptionsIs, NotNone
  <2>8. messages' = a
    BY <1>3 DEF a
  <2> QED
    BY <1>1, <1>2, <1>3, <2>4, <2>5, <2>6, <2>7, <2>8 DEF TranslationInv, Pending, Stages
<1>4. CASE stage' = "incapable" /\ messages' = messages /\ options' = options
  <2>1. options # None
    BY <1>2, NotNone
  <2> QED
    BY <1>1, <1>2, <1>4, <2>1 DEF TranslationInv, Pending, Stages, Refusals
<1> QED
  BY <1>3, <1>4, Zenon DEF Adapt

\* and build_request.
LEMMA InvBuild ==
    ASSUME TranslationInv, Build
    PROVE  TranslationInv'
<1>1. /\ stage = "adapted" /\ messages' = messages /\ options' = options /\ target' = target
  BY Zenon DEF Build
<1>2. /\ options \in OptionShape /\ messages # <<>> /\ ToolHistoryValid(messages)
      /\ Said(messages) /\ sent = <<>> /\ Plain(messages)
      /\ target \in Capabilities \union {None} /\ options # None
  BY <1>1, NotNone DEF TranslationInv, Pending
<1>3. CASE /\ \A m \in Range(messages) : Convertible(m)
           /\ stage' = "sent" /\ sent' = ConvertMessages(messages)
  <2>1. \A k \in 1..Len(messages) : Convertible(messages[k])
    BY <1>2, <1>3, LenProperties DEF Said, Range
  <2> QED
    BY <1>1, <1>2, <1>3, <2>1 DEF TranslationInv, Pending, Stages
<1>4. CASE /\ \E m \in Range(messages) : ~ Convertible(m)
           /\ stage' = "unsendable" /\ sent' = sent
  BY <1>1, <1>2, <1>4 DEF TranslationInv, Pending, Stages, Refusals
<1> QED
  BY <1>3, <1>4, Zenon DEF Build

\* Every step keeps the invariant.
LEMMA InvNext == TranslationInv /\ [Next]_vars => TranslationInv'
<1> SUFFICES ASSUME TranslationInv, [Next]_vars
             PROVE  TranslationInv'
  OBVIOUS
<1>1. CASE \E role \in Roles, block \in Blocks : Write(role, block)
  BY <1>1, InvWrite
<1>2. CASE \E opts \in Options : Normalize(opts)
  BY <1>2, InvNormalize
<1>3. CASE \E cap \in Capabilities : Adapt(cap)
  BY <1>3, InvAdapt
<1>4. CASE Build
  BY <1>4, InvBuild
<1>5. CASE UNCHANGED vars
  BY <1>5 DEF vars, TranslationInv
<1> QED
  BY <1>1, <1>2, <1>3, <1>4, <1>5, Zenon DEF Next
-----------------------------------------------------------------------------
(* The properties.                                                         *)

\* A message that says something and can be converted is sent.
LEMMA ConvertedSome ==
    ASSUME NEW m \in MessageSet, Convertible(m), m.blocks # <<>>
    PROVE  Converted[m] # <<>>
<1> DEFINE s == m.blocks
           results == OfType(s, {"tool_result"})
           content == OfType(s, {"text", "image"})
           t == Mapped(ToolMessage, results)
           rest == Rest(m)
<1>1. s \in Seq(TaggedBlock) /\ Len(s) \in Nat /\ Len(s) # 0
  BY Fields, EmptySeq
<1>2. CASE m.role = "assistant"
  <2>1. \E x : Converted[m] = <<x>>
    BY <1>2, ConvertedType, ConvertAssistantIs
  <2> QED
    BY <2>1
<1>3. CASE m.role # "assistant"
  <2> SUFFICES ASSUME Converted[m] = <<>>
               PROVE  FALSE
    OBVIOUS
  <2>1. Converted[m] = t \o rest /\ t \in Seq(SentSet) /\ rest \in Seq(SentSet)
    BY <1>3, ConvertedType, ConvertUserIs, RestIs
  <2>2. t = <<>> /\ rest = <<>>
    <3> HIDE DEF t, rest
    <3> QED
      BY <2>1, ConcatEqualIffEmpty
  <2>3. content = <<>>
    BY <2>2 DEF Rest
  <2>4. results = <<>>
    <3>1. results \in Seq(TaggedBlock)
      BY <1>1, OfTypeIs
    <3> HIDE DEF results
    <3>2. Len(t) = Len(results)
      BY <3>1, ToolMessageType, MappedType
    <3> QED
      BY <2>2, <3>1, <3>2, EmptySeq
  <2> HIDE DEF s
  <2>5. s[1].type \notin {"tool_result"}
    BY <1>1, <2>4, OfTypeSome
  <2>6. s[1].type \notin {"text", "image"}
    BY <1>1, <2>3, OfTypeSome
  <2>7. s[1] \in TaggedBlock /\ s[1].type # "tool_use"
    BY <1>1, <1>3, ConvertibleTypes DEF s
  <2> QED
    BY <2>5, <2>6, <2>7, Fields
<1> QED
  BY <1>2, <1>3

\* The invariant gives the type invariant: every message says something, so
\* that a request that is sent is not empty.
LEMMA InvType == TranslationInv => TypeOK
<1> SUFFICES ASSUME TranslationInv
             PROVE  TypeOK
  OBVIOUS
<1> DEFINE n == Len(messages)
<1>1. messages \in Seq(MessageSet) /\ \A k \in 1..n : messages[k].blocks # <<>>
  BY DEF TranslationInv, Said
<1>2. messages \in Seq([role : Roles, blocks : Seq(Tagged)])
  <2>1. ASSUME NEW m \in MessageSet
        PROVE  m \in [role : Roles, blocks : Seq(Tagged)]
    <3>1. m.role \in Roles /\ m.blocks \in Seq(TaggedBlock) /\ TaggedBlock \subseteq Tagged
      BY Fields DEF TaggedBlock
    <3>2. m.blocks \in Seq(Tagged)
      BY <3>1, SeqMonotonic
    <3> QED
      BY <3>1, <3>2 DEF MessageSet
  <2> QED
    BY <1>1, <2>1, SeqMonotonic
<1>3. stage = "sent" => sent \in Seq(SentSet) /\ sent # <<>>
  <2> SUFFICES ASSUME stage = "sent"
               PROVE  sent \in Seq(SentSet) /\ sent # <<>>
    OBVIOUS
  <2>1. /\ sent = ConvertMessages(messages) /\ messages # <<>>
        /\ \A k \in 1..n : Convertible(messages[k])
    BY DEF TranslationInv, Pending
  <2>2. sent = Spread(Converted, messages) /\ sent \in Seq(SentSet)
    BY <1>1, <2>1, ConvertIs
  <2>3. 1 \in 1..n /\ messages[1] \in MessageSet
    BY <1>1, <2>1, NotNone, LenProperties
  <2>4. Converted[messages[1]] # <<>>
    BY <1>1, <2>1, <2>3, ConvertedSome
  <2>5. sent # <<>>
    BY <1>1, <2>2, <2>3, <2>4, ConvertedType, SpreadIsEmpty
  <2> QED
    BY <2>2, <2>5
<1>4. stage # "sent" => sent = <<>>
  BY DEF TranslationInv
<1>5. \A k \in 1..Len(sent) : sent[k].role \in Roles \union {"tool"}
  <2>1. CASE stage = "sent"
    <3>1. \A k \in 1..Len(sent) : sent[k] \in SentSet
      BY <1>3, <2>1
    <3> QED
      BY <3>1 DEF SentSet, SentRoles
  <2>2. CASE stage # "sent"
    BY <1>4, <2>2
  <2> QED
    BY <2>1, <2>2
<1> QED
  BY <1>2, <1>3, <1>4, <1>5 DEF TypeOK, TranslationInv, Stages, Pending

\* The pass of validate_tool_history finds out what it is meant to.
LEMMA InvHistory == TranslationInv => HistoryAsDefined
<1> SUFFICES ASSUME TranslationInv
             PROVE  HistoryAsDefined
  OBVIOUS
<1> DEFINE flat == Flat(messages)
<1>1. flat \in Seq(FlatEntry)
  BY FlatIs DEF TranslationInv, Said
<1>2. ToolHistoryValid(messages) <=> Called(flat) /\ Answered(flat)
  BY <1>1, PassKnows DEF ToolHistoryValid, KnownAfter
<1> HIDE DEF flat
<1>3. HistoryAsDefined <=>
        (stage = "writing" => (ToolHistoryValid(messages) <=> Called(flat) /\ Answered(flat)))
  BY DEF HistoryAsDefined, Called, Answered, Of, flat
<1> QED
  BY <1>2, <1>3

\* What is sent is the conversion of a valid history, message by message in
\* step with the pass.
LEMMA InvFollow == TranslationInv => ResultsFollowCalls
<1> SUFFICES ASSUME TranslationInv
             PROVE  ResultsFollowCalls
  OBVIOUS
<1>1. CASE stage = "sent"
  <2> DEFINE C == {m \in MessageSet : Convertible(m)}
             n == Len(messages)
  <2>1. /\ messages \in Seq(MessageSet) /\ sent = ConvertMessages(messages)
        /\ \A k \in 1..n : Convertible(messages[k])
        /\ ToolHistoryValid(messages)
    BY <1>1 DEF TranslationInv, Said, Pending
  <2>2. messages \in Seq(C)
    <3>1. n \in Nat /\ messages \in [1..n -> MessageSet]
      BY <2>1, LenProperties
    <3>2. \A k \in 1..n : messages[k] \in C
      BY <2>1, <3>1
    <3> HIDE DEF C
    <3>3. messages \in [1..n -> C]
      BY <3>1, <3>2
    <3> HIDE DEF n
    <3> QED
      BY <3>1, <3>3, SeqDef
  <2>3. InStep(sent, Pass(Flat(messages)))
    BY <2>1, <2>2, ConvertInStep
  <2> QED
    BY <2>3 DEF InStep, ResultsFollowCalls
<1>2. CASE stage # "sent"
  BY <1>2 DEF TranslationInv, ResultsFollowCalls
<1> QED
  BY <1>1, <1>2

\* What is sent keeps what each message says.
LEMMA InvNothing == TranslationInv => NothingLeftOut
<1> SUFFICES ASSUME TranslationInv, stage = "sent"
             PROVE  /\ SentParts(Roles) = Tags(OfType(Written, {"text", "image"}))
                    /\ SentParts({"tool"}) = Tags(OfType(Written, {"tool_result"}))
                    /\ SentCalls = Ids(OfType(Written, {"tool_use"}))
  BY DEF NothingLeftOut
<1>1. /\ messages \in Seq(MessageSet) /\ sent = ConvertMessages(messages)
      /\ \A k \in 1..Len(messages) : Convertible(messages[k])
  BY DEF TranslationInv, Said
<1>2. \A k \in 1..Len(sent) : sent[k] \in SentSet
  BY <1>1, ConvertIs
<1>3. \A roles : SentParts(roles) = Spread(PartsIn(roles), sent)
  <2> TAKE roles
  <2>1. [k \in 1..Len(sent) |-> IF sent[k].role \in roles THEN sent[k].parts ELSE <<>>]
          = [k \in 1..Len(sent) |-> PartsIn(roles)[sent[k]]]
    BY <1>2 DEF PartsIn
  <2> QED
    BY <2>1 DEF SentParts, Spread, Mapped
<1>4. SentCalls = Spread(CallsIn, sent)
  <2>1. [k \in 1..Len(sent) |-> sent[k].calls] = [k \in 1..Len(sent) |-> CallsIn[sent[k]]]
    BY <1>2 DEF CallsIn
  <2> QED
    BY <2>1 DEF SentCalls, Spread, Mapped
<1>5. \A types : /\ Tags(OfType(Written, types)) = Spread(KeptTags(types), messages)
                 /\ Ids(OfType(Written, types)) = Spread(KeptIds(types), messages)
  BY <1>1, KeptIs DEF Written, Entry
<1>6. /\ Spread(PartsIn(Roles), sent) = Spread(KeptTags({"text", "image"}), messages)
      /\ Spread(PartsIn({"tool"}), sent) = Spread(KeptTags({"tool_result"}), messages)
      /\ Spread(CallsIn, sent) = Spread(KeptIds({"tool_use"}), messages)
  BY <1>1, ConvertKeeps
<1> QED
  BY <1>3, <1>4, <1>5, <1>6

\* Every entry has its place.
LEMMA HasPlace ==
    ASSUME messages \in Seq(MessageSet), NEW m \in Range(messages), NEW b \in Range(m.blocks)
    PROVE  \E k \in 1..Len(Flat(messages)) :
              Entry(k).role = m.role /\ Entry(k).block = b /\ k \in Places(b.type)
<1> DEFINE flat == Flat(messages)
           e == [role |-> m.role, block |-> b]
<1>1. flat \in Seq(FlatEntry) /\ e \in Range(flat)
  BY FlatIs, FlatRange
<1>2. e.role = m.role /\ e.block = b
  OBVIOUS
<1> HIDE DEF flat, e
<1>3. PICK k \in 1..Len(flat) : flat[k] = e
  BY <1>1, LenProperties DEF Range
<1> QED
  BY <1>2, <1>3 DEF Entry, Places, flat

\* A valid history without structures has only images to refuse.
LEMMA InvUnsendable == TranslationInv => UnsendableOnlyImages
<1> SUFFICES ASSUME TranslationInv, stage = "unsendable"
             PROVE  \E k \in Places("image") : Entry(k).role = "assistant"
  BY DEF UnsendableOnlyImages
<1> DEFINE flat == Flat(messages)
<1>1. /\ messages \in Seq(MessageSet) /\ ToolHistoryValid(messages) /\ Plain(messages)
      /\ \E m \in Range(messages) : ~ Convertible(m)
  BY DEF TranslationInv, Said, Pending
<1>2. Called(flat) /\ Answered(flat)
  BY <1>1, FlatIs, PassKnows DEF ToolHistoryValid, KnownAfter
<1>3. PICK m \in Range(messages) : ~ Convertible(m)
  BY <1>1
<1>4. m \in MessageSet /\ m.blocks \in Seq(TaggedBlock)
  BY <1>1, Fields, RangeOfSeq
<1>5. CASE m.role = "assistant"
  <2>1. PICK b \in Range(m.blocks) : b.type \notin {"text", "tool_use"}
    BY <1>3, <1>5 DEF Convertible
  <2>2. b \in TaggedBlock /\ b.type \in {"image", "tool_result"}
    BY <1>4, <2>1, Fields, RangeOfSeq
  <2>3. PICK k \in 1..Len(flat) :
               Entry(k).role = "assistant" /\ Entry(k).block = b /\ k \in Places(b.type)
    BY <1>1, <1>5, HasPlace
  <2>4. b.type # "tool_result"
    <3>1. ASSUME b.type = "tool_result"
          PROVE  FALSE
      <4>1. k \in Of(flat, "tool_result")
        BY <2>3, <3>1 DEF Of, Entry
      <4>2. flat[k].role = "user"
        BY <1>2, <4>1 DEF Answered
      <4> QED
        BY <2>3, <4>2 DEF Entry
    <3> QED
      BY <3>1
  <2> QED
    BY <2>2, <2>3, <2>4
<1>6. CASE m.role # "assistant"
  <2>1. PICK b \in Range(m.blocks) : b.type = "tool_use" \/ b.structured
    BY <1>3, <1>6 DEF Convertible
  <2>2. b.type = "tool_use"
    BY <1>1, <2>1 DEF Plain
  <2>3. PICK k \in 1..Len(flat) : Entry(k).role = m.role /\ Entry(k).block = b
    BY <1>1, HasPlace
  <2>4. k \in Of(flat, "tool_use")
    BY <2>2, <2>3 DEF Of, Entry
  <2>5. flat[k].role = "assistant"
    BY <1>2, <2>4 DEF Called
  <2> QED
    BY <1>6, <2>3, <2>5 DEF Entry
<1> QED
  BY <1>5, <1>6

\* What an adaptation gives up.
LEMMA AdaptRespects ==
    ASSUME TranslationInv, NEW cap \in Capabilities, Adapt(cap), stage' = "adapted"
    PROVE  /\ options'.hints \subseteq target'.supports
           /\ options.hints \ options'.hints \subseteq target'.fallback \ target'.supports
           /\ options.tools = "some" => target'.tools
           /\ Places("image") # {} => target'.vision
           /\ MayCallInParallel(options'.choice) => target'.parallel
           /\ options'.choice # options.choice => target'.serialize
           /\ messages' # messages => target'.stringify
<1> DEFINE new == AdaptedOptions(options, cap)
           flat == Flat(messages)
<1>1. /\ stage = "accepted" /\ target' = cap /\ options' = new
      /\ messages' = AdaptedMessages(messages) /\ Adaptable(messages, options, cap)
  BY Zenon DEF Adapt
<1>2. options \in OptionShape /\ messages \in Seq(MessageSet)
  BY <1>1 DEF TranslationInv, Pending, Said
<1>3. /\ options.hints \ cap.supports \subseteq cap.fallback
      /\ options.tools = "some" => cap.tools
      /\ MayCallInParallel(options.choice) => cap.parallel \/ cap.serialize
      /\ \A entry \in Range(flat) :
           /\ entry.block.type = "image" => cap.vision
           /\ entry.block.type = "tool_result" /\ entry.block.structured => cap.stringify
  BY <1>1, Zenon DEF Adaptable
<1>4. /\ new.hints = options.hints \intersect cap.supports
      /\ new.choice.kind = options.choice.kind /\ new.choice \in ChoiceShape
      /\ new.choice.parallel =
           (options.choice.parallel /\ (MayCallInParallel(options.choice) => cap.parallel))
  BY <1>2, AdaptedOptionsIs
<1>5. options.choice \in ChoiceShape
  BY <1>2 DEF OptionShape
<1> DEFINE c == options.choice
           d == new.choice
<1>6. /\ c.parallel \in BOOLEAN /\ d.parallel \in BOOLEAN
      /\ c = [kind |-> c.kind, parallel |-> c.parallel]
      /\ d = [kind |-> d.kind, parallel |-> d.parallel]
  BY <1>4, <1>5 DEF ChoiceShape
<1>7. MayCallInParallel(d) => cap.parallel
  BY <1>4, <1>6 DEF MayCallInParallel
<1>8. d # c => cap.serialize
  <2> SUFFICES ASSUME ~ cap.serialize
               PROVE  d = c
    OBVIOUS
  <2>1. MayCallInParallel(c) => cap.parallel
    BY <1>3
  <2>2. d.parallel = c.parallel /\ d.kind = c.kind
    BY <1>4, <1>6, <2>1
  <2> HIDE DEF c, d
  <2> QED
    BY <1>6, <2>2
<1>9. Places("image") # {} => cap.vision
  <2> SUFFICES ASSUME NEW k \in 1..Len(flat), flat[k].block.type = "image"
               PROVE  cap.vision
    BY DEF Places, Entry
  <2>1. flat \in Seq(FlatEntry)
    BY <1>2, FlatIs
  <2> HIDE DEF flat
  <2>2. flat[k] \in Range(flat)
    BY <2>1, LenProperties DEF Range
  <2> QED
    BY <1>3, <2>2
<1>10. messages' # messages => cap.stringify
  <2> SUFFICES ASSUME ~ cap.stringify
               PROVE  AdaptedMessages(messages) = messages
    BY <1>1
  <2>1. ASSUME NEW m \in Range(messages), NEW b \in Range(m.blocks)
        PROVE  ~ b.structured
    <3> DEFINE e == [role |-> m.role, block |-> b]
    <3>1. e \in Range(flat) /\ e.block = b
      BY <1>2, FlatRange
    <3> HIDE DEF e, flat
    <3>2. ~ (b.type = "tool_result" /\ b.structured)
      BY <1>3, <3>1
    <3>3. m \in MessageSet
      BY <1>2, RangeOfSeq
    <3>4. b \in TaggedBlock
      BY <3>3, Fields, RangeOfSeq
    <3> QED
      BY <3>2, <3>4, Fields
  <2> QED
    BY <1>2, <2>1, AdaptedSame
<1> HIDE DEF new, c, d
<1> QED
  BY <1>1, <1>3, <1>4, <1>7, <1>8, <1>9, <1>10 DEF c, d

\* Of all steps only an adaptation leads to "adapted".
LEMMA NextRespects ==
    TranslationInv /\ [Next]_vars =>
      [stage' = "adapted" =>
        /\ options'.hints \subseteq target'.supports
        /\ options.hints \ options'.hints \subseteq target'.fallback \ target'.supports
        /\ options.tools = "some" => target'.tools
        /\ Places("image") # {} => target'.vision
        /\ MayCallInParallel(options'.choice) => target'.parallel
        /\ options'.choice # options.choice => target'.serialize
        /\ messages' # messages => target'.stringify]_vars
<1> SUFFICES ASSUME TranslationInv, Next, stage' = "adapted"
             PROVE  /\ options'.hints \subseteq target'.supports
                    /\ options.hints \ options'.hints \subseteq target'.fallback \ target'.supports
                    /\ options.tools = "some" => target'.tools
                    /\ Places("image") # {} => target'.vision
                    /\ MayCallInParallel(options'.choice) => target'.parallel
                    /\ options'.choice # options.choice => target'.serialize
                    /\ messages' # messages => target'.stringify
  BY Zenon
<1>1. CASE \E role \in Roles, block \in Blocks : Write(role, block)
  <2>1. stage = "writing" /\ stage' = stage
    BY <1>1, Zenon DEF Write
  <2> QED
    BY <2>1
<1>2. CASE \E opts \in Options : Normalize(opts)
  <2>1. stage' = "accepted" \/ stage' = "invalid"
    BY <1>2, Zenon DEF Normalize
  <2> QED
    BY <2>1
<1>3. CASE \E cap \in Capabilities : Adapt(cap)
  <2>1. PICK cap \in Capabilities : Adapt(cap)
    BY <1>3
  <2> QED
    BY <2>1, AdaptRespects, Zenon
<1>4. CASE Build
  <2>1. stage' = "sent" \/ stage' = "unsendable"
    BY <1>4, Zenon DEF Build
  <2> QED
    BY <2>1
<1> QED
  BY <1>1, <1>2, <1>3, <1>4, Zenon DEF Next
-----------------------------------------------------------------------------
(* The theorems.                                                           *)

\* The inductive invariant holds always.
LEMMA TranslationInvariant == Spec => []TranslationInv
BY InvInit, InvNext, PTL DEF Spec

\* The stage, the conversation, the options, the target and the provider's
\* messages have the shape the code gives them, and a request that is sent has
\* at least one message (normalize, adapt_request and build_request).
THEOREM TypeCorrect == Spec => []TypeOK
BY TranslationInvariant, InvType, PTL

\* For any conversation a client may have written, validate_tool_history
\* accepts it exactly if calls are the assistant's and have different ids, and
\* every result is the user's and the only one for a call made before it.
THEOREM HistoryAsDefinedInvariant == Spec => []HistoryAsDefined
BY TranslationInvariant, InvHistory, PTL

\* In what convert_messages sends, every tool message answers a call of an
\* earlier assistant message, and no other tool message answers that call.
THEOREM ResultsFollowCallsInvariant == Spec => []ResultsFollowCalls
BY TranslationInvariant, InvFollow, PTL

\* convert_messages leaves out and adds no text, image, result or call, and
\* keeps the order of texts and images, of results, and of calls.
THEOREM NothingLeftOutInvariant == Spec => []NothingLeftOut
BY TranslationInvariant, InvNothing, PTL

\* What normalize and adapt_request let through is refused by convert_messages
\* only for an image in an assistant's message.
THEOREM UnsendableOnlyImagesInvariant == Spec => []UnsendableOnlyImages
BY TranslationInvariant, InvUnsendable, PTL

\* adapt_request asks a target for nothing that it does not support, and gives
\* up nothing that the target's profile does not allow it to.
THEOREM TargetRespectedAlways == Spec => TargetRespected
BY TranslationInvariant, NextRespects, PTL DEF Spec, TargetRespected
=============================================================================
