-------------------------- MODULE ConversionProofs --------------------------
(***************************************************************************)
(* A client that asks for a stream is given the content that it would have *)
(* been given without one: what each event adds to the message that the    *)
(* client assembles, an invariant of StreamTranslation beside that of      *)
(* StreamProofs, and a comparison with convert_response.                   *)
(***************************************************************************)
EXTENDS StreamProofs, ResponseConversion
-----------------------------------------------------------------------------
(* What a client makes of the events.                                      *)

\* OfType and Filled take an event at a time.
Only(type) == [e \in Events |-> IF e.type = type THEN <<e>> ELSE <<>>]

Within(index) ==
    [e \in Events |->
        IF e.type = "content_block_delta" /\ e.index = index THEN e.data ELSE <<>>]

\* What they return, and that OfType and Filled are these functions spread
\* over the events.
LEMMA LogFunctions ==
    /\ \A type : Maps(Events, Seq(Events), Only(type))
    /\ \A index : Maps(Events, Seq(Data), Within(index))
    /\ \A log \in Seq(Events) : \A type :
         OfType(log, type) = Spread(Only(type), log) /\ OfType(log, type) \in Seq(Events)
    /\ \A log \in Seq(Events) : \A index :
         Filled(log, index) = Spread(Within(index), log) /\ Filled(log, index) \in Seq(Data)
<1>1. ASSUME NEW type
      PROVE  Maps(Events, Seq(Events), Only(type))
  <2>1. ASSUME NEW e \in Events
        PROVE  <<e>> \in Seq(Events) /\ <<>> \in Seq(Events)
    OBVIOUS
  <2> QED
    BY <2>1 DEF Maps, Only
<1>2. ASSUME NEW index
      PROVE  Maps(Events, Seq(Data), Within(index))
  <2>1. \A e \in Events : e.data \in Seq(Data) /\ <<>> \in Seq(Data)
    BY EmptySeq DEF Events, Data
  <2> QED
    BY <2>1 DEF Maps, Within
<1>3. ASSUME NEW log \in Seq(Events), NEW type
      PROVE  OfType(log, type) = Spread(Only(type), log) /\ OfType(log, type) \in Seq(Events)
  <2>1. \A k \in 1..Len(log) : log[k] \in Events
    BY ElementOfSeq
  <2>2. Mapped(Only(type), log) = [k \in 1..Len(log) |-> IF log[k].type = type THEN <<log[k]>> ELSE <<>>]
    BY <2>1 DEF Mapped, Only
  <2>3. OfType(log, type) = Spread(Only(type), log)
    BY <2>2 DEF OfType, Spread
  <2> QED
    BY <1>1, <2>3, SpreadType
<1>4. ASSUME NEW log \in Seq(Events), NEW index
      PROVE  Filled(log, index) = Spread(Within(index), log) /\ Filled(log, index) \in Seq(Data)
  <2>1. \A k \in 1..Len(log) : log[k] \in Events
    BY ElementOfSeq
  <2>2. Mapped(Within(index), log) =
          [k \in 1..Len(log) |->
             IF log[k].type = "content_block_delta" /\ log[k].index = index
             THEN log[k].data ELSE <<>>]
    BY <2>1 DEF Mapped, Within
  <2>3. Filled(log, index) = Spread(Within(index), log)
    BY <2>2 DEF Filled, Spread
  <2> QED
    BY <1>2, <2>3, SpreadType
<1> QED
  BY <1>1, <1>2, <1>3, <1>4

\* Two halves may be taken one by one.
LEMMA LogConcat ==
    ASSUME NEW l \in Seq(Events), NEW m \in Seq(Events)
    PROVE  /\ l \o m \in Seq(Events)
           /\ \A type : OfType(l \o m, type) = OfType(l, type) \o OfType(m, type)
           /\ \A index : Filled(l \o m, index) = Filled(l, index) \o Filled(m, index)
<1>1. l \o m \in Seq(Events)
  BY ConcatProperties
<1>2. ASSUME NEW type
      PROVE  OfType(l \o m, type) = OfType(l, type) \o OfType(m, type)
  <2>1. Spread(Only(type), l \o m) = Spread(Only(type), l) \o Spread(Only(type), m)
    <3> DEFINE f == Only(type)
    <3>1. Maps(Events, Seq(Events), f)
      BY LogFunctions
    <3> HIDE DEF f
    <3>2. Spread(f, l \o m) = Spread(f, l) \o Spread(f, m)
      BY ONLY <3>1, SpreadConcat, l \in Seq(Events), m \in Seq(Events)
    <3> QED
      BY <3>2 DEF f
  <2> QED
    BY <1>1, <2>1, LogFunctions
<1>3. ASSUME NEW index
      PROVE  Filled(l \o m, index) = Filled(l, index) \o Filled(m, index)
  <2>1. Spread(Within(index), l \o m) = Spread(Within(index), l) \o Spread(Within(index), m)
    <3> DEFINE f == Within(index)
    <3>1. Maps(Events, Seq(Data), f)
      BY LogFunctions
    <3> HIDE DEF f
    <3>2. Spread(f, l \o m) = Spread(f, l) \o Spread(f, m)
      BY ONLY <3>1, SpreadConcat, l \in Seq(Events), m \in Seq(Events)
    <3> QED
      BY <3>2 DEF f
  <2> QED
    BY <1>1, <2>1, LogFunctions
<1> QED
  BY <1>1, <1>2, <1>3

\* One event, and none.
LEMMA LogOne ==
    /\ \A type : OfType(<<>>, type) = <<>>
    /\ \A index : Filled(<<>>, index) = <<>>
    /\ \A x \in Events : \A type : OfType(<<x>>, type) = IF x.type = type THEN <<x>> ELSE <<>>
    /\ \A x \in Events : \A index :
         Filled(<<x>>, index) = IF x.type = "content_block_delta" /\ x.index = index
                                THEN x.data ELSE <<>>
<1>1. <<>> \in Seq(Events) /\ \A x \in Events : <<x>> \in Seq(Events)
  OBVIOUS
<1>2. \A type : OfType(<<>>, type) = <<>>
  BY <1>1, LogFunctions, SpreadEmpty
<1>3. \A index : Filled(<<>>, index) = <<>>
  BY <1>1, LogFunctions, SpreadEmpty
<1>4. ASSUME NEW x \in Events, NEW type
      PROVE  OfType(<<x>>, type) = IF x.type = type THEN <<x>> ELSE <<>>
  <2>1. Spread(Only(type), <<x>>) = Only(type)[x]
    BY LogFunctions, SpreadOne
  <2>2. OfType(<<x>>, type) = Only(type)[x]
    BY <1>1, <2>1, LogFunctions
  <2> QED
    BY <2>2 DEF Only
<1>5. ASSUME NEW x \in Events, NEW index
      PROVE  Filled(<<x>>, index) = IF x.type = "content_block_delta" /\ x.index = index
                                    THEN x.data ELSE <<>>
  <2>1. Spread(Within(index), <<x>>) = Within(index)[x]
    BY LogFunctions, SpreadOne
  <2>2. Filled(<<x>>, index) = Within(index)[x]
    BY <1>1, <2>1, LogFunctions
  <2> QED
    BY <2>2 DEF Within
<1> QED
  BY <1>2, <1>3, <1>4, <1>5

\* A tool's block: its start, and its arguments under its index.
LEMMA ToolBlockParts ==
    ASSUME NEW tool \in BufferedTool, NEW b \in Nat
    PROVE  /\ ToolBlock(tool, b) \in Seq(Events)
           /\ ToolOpens(tool, b) \in Events
           /\ OfType(ToolBlock(tool, b), "content_block_start") = <<ToolOpens(tool, b)>>
           /\ OfType(ToolBlock(tool, b), "message_delta") = <<>>
           /\ tool.arguments \in Seq(Data)
           /\ \A index : Filled(ToolBlock(tool, b), index)
                           = IF index = b THEN tool.arguments ELSE <<>>
<1> DEFINE x == ToolOpens(tool, b)
           y == Event("content_block_delta", b, tool.arguments, 0)
           z == Bare("content_block_stop", b)
<1>1. tool.name \in Seq(Data) /\ tool.arguments \in Seq(Data) /\ <<>> \in Seq(Data)
  BY SeqMonotonic, EmptySeq DEF BufferedTool, Data
<1>2. x \in Events /\ y \in Events /\ z \in Events
  <2>1. tool.id \in Seq(Ids) /\ <<>> \in Seq(Ids)
    BY EmptySeq DEF BufferedTool
  <2> QED
    BY <1>1, <2>1 DEF Events, Event, Bare, ToolOpens, Data
<1>3. /\ x.type = "content_block_start"
      /\ y.type = "content_block_delta" /\ y.index = b /\ y.data = tool.arguments
      /\ z.type = "content_block_stop"
  BY DEF Event, Bare, ToolOpens
<1>4. ToolBlock(tool, b) = <<x, y, z>>
  BY DEF ToolBlock
<1> HIDE DEF x, y, z
<1>5. /\ <<x>> \in Seq(Events) /\ <<y>> \in Seq(Events) /\ <<z>> \in Seq(Events)
      /\ <<x, y, z>> = (<<x>> \o <<y>>) \o <<z>> /\ <<x>> \o <<y>> \in Seq(Events)
  <2>1. /\ <<x>> \in Seq(Events) /\ <<y>> \in Seq(Events) /\ <<z>> \in Seq(Events)
        /\ <<x, y>> \in Seq(Events)
        /\ <<x, y>> = Append(<<x>>, y) /\ <<x, y, z>> = Append(<<x, y>>, z)
    BY <1>2
  <2>2. Append(<<x>>, y) = <<x>> \o <<y>> /\ Append(<<x, y>>, z) = <<x, y>> \o <<z>>
    BY <1>2, <2>1, AppendIsConcat
  <2> QED
    BY <2>1, <2>2
<1>6. \A type : OfType(<<x, y, z>>, type)
                  = (OfType(<<x>>, type) \o OfType(<<y>>, type)) \o OfType(<<z>>, type)
  <2> DEFINE a == <<x>>
             b1 == <<y>>
             c == <<z>>
             ab == a \o b1
  <2>1. a \in Seq(Events) /\ b1 \in Seq(Events) /\ c \in Seq(Events) /\ ab \in Seq(Events)
        /\ <<x, y, z>> = ab \o c
    BY <1>5
  <2> HIDE DEF a, b1, c
  <2>2. \A type : OfType(ab, type) = OfType(a, type) \o OfType(b1, type)
    BY <2>1, LogConcat
  <2> HIDE DEF ab
  <2>3. \A type : OfType(ab \o c, type) = OfType(ab, type) \o OfType(c, type)
    BY <2>1, LogConcat
  <2> QED
    BY <2>1, <2>2, <2>3 DEF a, b1, c
<1>7. \A index : Filled(<<x, y, z>>, index)
                   = (Filled(<<x>>, index) \o Filled(<<y>>, index)) \o Filled(<<z>>, index)
  <2> DEFINE a == <<x>>
             b1 == <<y>>
             c == <<z>>
             ab == a \o b1
  <2>1. a \in Seq(Events) /\ b1 \in Seq(Events) /\ c \in Seq(Events) /\ ab \in Seq(Events)
        /\ <<x, y, z>> = ab \o c
    BY <1>5
  <2> HIDE DEF a, b1, c
  <2>2. \A index : Filled(ab, index) = Filled(a, index) \o Filled(b1, index)
    BY <2>1, LogConcat
  <2> HIDE DEF ab
  <2>3. \A index : Filled(ab \o c, index) = Filled(ab, index) \o Filled(c, index)
    BY <2>1, LogConcat
  <2> QED
    BY <2>1, <2>2, <2>3 DEF a, b1, c
<1>8. /\ OfType(<<x>>, "content_block_start") = <<x>>
      /\ OfType(<<y>>, "content_block_start") = <<>> /\ OfType(<<z>>, "content_block_start") = <<>>
      /\ OfType(<<x>>, "message_delta") = <<>>
      /\ OfType(<<y>>, "message_delta") = <<>> /\ OfType(<<z>>, "message_delta") = <<>>
  BY <1>2, <1>3, LogOne
<1>9. \A index : /\ Filled(<<x>>, index) = <<>> /\ Filled(<<z>>, index) = <<>>
                 /\ Filled(<<y>>, index) = IF index = b THEN tool.arguments ELSE <<>>
  BY <1>2, <1>3, LogOne
<1>10. \A T : \A s \in Seq(T) : (<<>> \o s) \o <<>> = s /\ (s \o <<>>) \o <<>> = s
  BY ConcatEmptySeq
<1>11. (<<>> \o <<>>) \o <<>> = <<>>
  BY <1>1, <1>10
<1>12. OfType(<<x, y, z>>, "content_block_start") = <<x>>
  BY <1>5, <1>6, <1>8, <1>10
<1>13. OfType(<<x, y, z>>, "message_delta") = <<>>
  BY <1>6, <1>8, <1>11
<1>14. \A index : Filled(<<x, y, z>>, index) = IF index = b THEN tool.arguments ELSE <<>>
  BY <1>1, <1>7, <1>9, <1>10, <1>11
<1>15. <<x, y, z>> \in Seq(Events)
  BY <1>2
<1> QED
  BY <1>1, <1>2, <1>4, <1>12, <1>13, <1>14, <1>15 DEF x

\* The tool of rank k, and where the blocks of all tools start.
ToolAt(e, k) == e.tools[InOrder(DOMAIN e.tools)[k]]

ToolStarts(e) ==
    [k \in 1..Cardinality(DOMAIN e.tools) |->
        ToolOpens(ToolAt(e, k), e.nextBlock + k - 1)]

\* The blocks of the tools: each starts with the id and name of its tool, in order,
\* and is filled with its arguments.
LEMMA ToolBlocksParts ==
    ASSUME NEW e, EncoderOK(e), NEW n, n = Cardinality(DOMAIN e.tools)
    PROVE  /\ n \in Nat
           /\ ToolBlocks(e) \in Seq(Events)
           /\ ToolStarts(e) \in Seq(Events) /\ Len(ToolStarts(e)) = n
           /\ OfType(ToolBlocks(e), "content_block_start") = ToolStarts(e)
           /\ OfType(ToolBlocks(e), "message_delta") = <<>>
           /\ \A k \in 1..n : Filled(ToolBlocks(e), e.nextBlock + k - 1) = ToolAt(e, k).arguments
           /\ \A index : (\A k \in 1..n : index # e.nextBlock + k - 1) =>
                           Filled(ToolBlocks(e), index) = <<>>
<1> DEFINE T == 1..n
           b == e.nextBlock
           blk == [k \in T |-> ToolBlock(ToolAt(e, k), b + k - 1)]
           st == [k \in T |-> ToolOpens(ToolAt(e, k), b + k - 1)]
           numbers == Numbers(n)
           all == ToolBlocks(e)
<1>1. /\ n \in Nat /\ b \in Nat
      /\ \A k \in T : ToolAt(e, k) \in BufferedTool /\ b + k - 1 \in Nat
  <2>1. n \in Nat /\ \A k \in T : ToolAt(e, k) \in BufferedTool
    BY ToolInOrder DEF ToolAt
  <2>2. b \in Nat
    BY DEF EncoderOK
  <2> HIDE DEF b
  <2> QED
    BY <2>1, <2>2
<1>2. \A k \in T : /\ blk[k] \in Seq(Events) /\ st[k] \in Events
                   /\ OfType(blk[k], "content_block_start") = <<st[k]>>
                   /\ OfType(blk[k], "message_delta") = <<>>
                   /\ ToolAt(e, k).arguments \in Seq(Data)
                   /\ \A index : Filled(blk[k], index)
                                   = IF index = b + k - 1 THEN ToolAt(e, k).arguments ELSE <<>>
  <2> TAKE k \in T
  <2> DEFINE tool == ToolAt(e, k)
             at == b + k - 1
  <2>1. tool \in BufferedTool /\ at \in Nat
    BY <1>1
  <2>2. blk[k] = ToolBlock(tool, at) /\ st[k] = ToolOpens(tool, at)
    OBVIOUS
  <2> HIDE DEF tool, at, blk, st
  <2>3. /\ ToolBlock(tool, at) \in Seq(Events)
        /\ ToolOpens(tool, at) \in Events
        /\ OfType(ToolBlock(tool, at), "content_block_start") = <<ToolOpens(tool, at)>>
        /\ OfType(ToolBlock(tool, at), "message_delta") = <<>>
        /\ tool.arguments \in Seq(Data)
        /\ \A index : Filled(ToolBlock(tool, at), index)
                        = IF index = at THEN tool.arguments ELSE <<>>
    BY <2>1, ToolBlockParts
  <2> QED
    BY <2>2, <2>3 DEF tool, at
<1>3. /\ numbers \in Seq(T)
      /\ Mapped(st, numbers) = st /\ Len(Mapped(st, numbers)) = n
      /\ Spread(blk, numbers) = all
      /\ \A i \in 1..Len(numbers) : numbers[i] \in T
  <2>1. blk = [k \in 1..n |-> blk[k]] /\ st = [k \in 1..n |-> st[k]] /\ all = FlattenSeq(blk)
    BY DEF ToolBlocks, ToolAt
  <2>2. Len(st) = n
    BY <1>1
  <2> HIDE DEF blk, st, all
  <2>3. /\ numbers \in Seq(1..n) /\ Mapped(st, numbers) = st /\ Spread(blk, numbers) = FlattenSeq(blk)
    BY <1>1, <2>1, SpreadNumbers
  <2>4. \A i \in 1..Len(numbers) : numbers[i] \in T
    BY <2>3, ElementOfSeq
  <2> QED
    BY <2>1, <2>2, <2>3, <2>4
<1>4. Maps(T, Seq(Events), blk) /\ Maps(T, Events, st)
  BY <1>2 DEF Maps
<1>5. st = ToolStarts(e)
  BY DEF ToolStarts
<1> HIDE DEF T, blk, st, numbers, all, b
<1>6. all \in Seq(Events)
  BY <1>3, <1>4, SpreadType
<1>7. st \in Seq(Events) /\ Len(st) = n
  BY <1>3, <1>4, MappedType
<1>8. OfType(all, "content_block_start") = st
  <2> DEFINE f == Only("content_block_start")
             h == [k \in T |-> <<st[k]>>]
  <2>1. Maps(Events, Seq(Events), f) /\ OfType(all, "content_block_start") = Spread(f, all)
    BY <1>6, LogFunctions
  <2>2. ThenSpread(T, blk, f, h)
    BY <1>2, LogFunctions DEF ThenSpread
  <2>3. \A k \in T : h[k] = <<st[k]>>
    OBVIOUS
  <2> HIDE DEF f, h
  <2>4. Spread(f, Spread(blk, numbers)) = Spread(h, numbers)
    BY <1>3, <1>4, <2>1, <2>2, SpreadSpread
  <2>5. Spread(h, numbers) = Mapped(st, numbers)
    BY <1>3, <1>4, <2>3, SpreadSingles
  <2> QED
    BY <1>3, <2>1, <2>4, <2>5
<1>9. OfType(all, "message_delta") = <<>>
  <2> DEFINE f == Only("message_delta")
             h == [k \in T |-> <<>>]
  <2>1. Maps(Events, Seq(Events), f) /\ OfType(all, "message_delta") = Spread(f, all)
    BY <1>6, LogFunctions
  <2>2. ThenSpread(T, blk, f, h)
    BY <1>2, LogFunctions DEF ThenSpread
  <2>3. Maps(T, Seq(Events), h) /\ \A k \in T : h[k] = <<>>
    BY EmptySeq DEF Maps
  <2> HIDE DEF f, h
  <2>4. Spread(f, Spread(blk, numbers)) = Spread(h, numbers)
    BY <1>3, <1>4, <2>1, <2>2, SpreadSpread
  <2>5. Spread(h, numbers) = <<>>
    BY <1>3, <2>3, SpreadIsEmpty
  <2> QED
    BY <1>3, <2>1, <2>4, <2>5
<1>10. ASSUME NEW index
       PROVE  /\ \A k \in T : index = b + k - 1 => Filled(all, index) = ToolAt(e, k).arguments
              /\ (\A k \in T : index # b + k - 1) => Filled(all, index) = <<>>
  <2> DEFINE f == Within(index)
             h == [k \in T |-> Filled(blk[k], index)]
  <2>1. Maps(Events, Seq(Data), f) /\ Filled(all, index) = Spread(f, all)
    BY <1>6, LogFunctions
  <2>2. ThenSpread(T, blk, f, h)
    BY <1>2, LogFunctions DEF ThenSpread
  <2>3. /\ Maps(T, Seq(Data), h)
        /\ \A k \in T : h[k] = IF index = b + k - 1 THEN ToolAt(e, k).arguments ELSE <<>>
    <3>1. \A k \in T : h[k] = IF index = b + k - 1 THEN ToolAt(e, k).arguments ELSE <<>>
      BY <1>2
    <3> HIDE DEF h
    <3> QED
      BY <1>2, <3>1, EmptySeq DEF Maps
  <2> HIDE DEF f, h
  <2>4. Filled(all, index) = Spread(h, numbers)
    <3>1. Spread(f, Spread(blk, numbers)) = Spread(h, numbers)
      BY <1>3, <1>4, <2>1, <2>2, SpreadSpread
    <3> QED
      BY <1>3, <2>1, <3>1
  <2>5. ASSUME NEW k \in T, index = b + k - 1
        PROVE  Filled(all, index) = ToolAt(e, k).arguments
    <3>1. \A j \in T : j # k => index # b + j - 1
      BY <1>1, <2>5 DEF T
    <3>2. \A j \in T : j # k => h[j] = <<>>
      BY <2>3, <3>1
    <3>3. Spread(h, numbers) = h[k]
      BY <1>1, <2>3, <3>2, SpreadAt DEF T, numbers
    <3> QED
      BY <2>3, <2>4, <2>5, <3>3
  <2>6. ASSUME \A k \in T : index # b + k - 1
        PROVE  Filled(all, index) = <<>>
    <3>1. \A k \in T : h[k] = <<>>
      BY <2>3, <2>6
    <3>2. Spread(h, numbers) = <<>>
      BY <1>3, <2>3, <3>1, SpreadIsEmpty
    <3> QED
      BY <2>4, <3>2
  <2> QED
    BY <2>5, <2>6
<1> QED
  BY <1>1, <1>5, <1>6, <1>7, <1>8, <1>9, <1>10 DEF T, all, b

\* Two events.
LEMMA LogTwo ==
    ASSUME NEW x \in Events, NEW y \in Events
    PROVE  /\ <<x, y>> \in Seq(Events)
           /\ \A type : OfType(<<x, y>>, type) = OfType(<<x>>, type) \o OfType(<<y>>, type)
           /\ \A index : Filled(<<x, y>>, index) = Filled(<<x>>, index) \o Filled(<<y>>, index)
<1> DEFINE a == <<x>>
           c == <<y>>
<1>1. a \in Seq(Events) /\ c \in Seq(Events) /\ <<x, y>> \in Seq(Events)
  OBVIOUS
<1>2. <<x, y>> = a \o c
  <2>1. <<x, y>> = Append(<<x>>, y)
    OBVIOUS
  <2> QED
    BY <1>1, <2>1, AppendIsConcat
<1> HIDE DEF a, c
<1>3. /\ \A type : OfType(a \o c, type) = OfType(a, type) \o OfType(c, type)
      /\ \A index : Filled(a \o c, index) = Filled(a, index) \o Filled(c, index)
  BY <1>1, LogConcat
<1> QED
  BY <1>1, <1>2, <1>3 DEF a, c

\* The block a message of nothing gets.
EmptyStart(e) ==
    IF e.textBlock = -1 /\ DOMAIN e.tools = {} THEN << Bare("content_block_start", 0) >> ELSE <<>>

\* The end of the text begins no block but this one, and fills none.
LEMMA TextEndParts ==
    ASSUME NEW e, EncoderOK(e)
    PROVE  /\ TextEnd(e) \in Seq(Events) /\ EmptyStart(e) \in Seq(Events)
           /\ OfType(TextEnd(e), "content_block_start") = EmptyStart(e)
           /\ OfType(TextEnd(e), "message_delta") = <<>>
           /\ \A index : Filled(TextEnd(e), index) = <<>>
<1> DEFINE x == Bare("content_block_start", 0)
           z == Bare("content_block_stop", 0)
<1>1. x \in Events /\ z \in Events
  BY EmptySeq DEF Events, Event, Bare
<1>2. x.type = "content_block_start" /\ z.type = "content_block_stop"
  BY DEF Event, Bare
<1>3. (e.textBlock = -1 /\ e.nextBlock = 0) \/ (e.textBlock = 0 /\ e.nextBlock = 1)
  BY DEF EncoderOK
<1>4. TextEnd(e) = IF e.textBlock # -1 THEN <<z>>
                   ELSE IF DOMAIN e.tools = {} THEN <<x, z>> ELSE <<>>
  BY <1>3 DEF TextEnd
<1>5. EmptyStart(e) = IF e.textBlock = -1 /\ DOMAIN e.tools = {} THEN <<x>> ELSE <<>>
  BY DEF EmptyStart
<1> HIDE DEF x, z
<1>6. /\ OfType(<<x>>, "content_block_start") = <<x>> /\ OfType(<<z>>, "content_block_start") = <<>>
      /\ OfType(<<x>>, "message_delta") = <<>> /\ OfType(<<z>>, "message_delta") = <<>>
      /\ \A index : Filled(<<x>>, index) = <<>> /\ Filled(<<z>>, index) = <<>>
  BY <1>1, <1>2, LogOne
<1>7. /\ <<x>> \in Seq(Events) /\ <<z>> \in Seq(Events) /\ <<>> \in Seq(Events)
      /\ <<x>> \o <<>> = <<x>> /\ <<>> \o <<>> = <<>>
  <2>1. <<x>> \in Seq(Events) /\ <<z>> \in Seq(Events) /\ <<>> \in Seq(Events)
    BY <1>1
  <2> QED
    BY <2>1, ConcatEmptySeq
<1>8. /\ <<x, z>> \in Seq(Events)
      /\ OfType(<<x, z>>, "content_block_start") = <<x>>
      /\ OfType(<<x, z>>, "message_delta") = <<>>
      /\ \A index : Filled(<<x, z>>, index) = <<>>
  <2>1. /\ <<x, z>> \in Seq(Events)
        /\ \A type : OfType(<<x, z>>, type) = OfType(<<x>>, type) \o OfType(<<z>>, type)
        /\ \A index : Filled(<<x, z>>, index) = Filled(<<x>>, index) \o Filled(<<z>>, index)
    BY <1>1, LogTwo
  <2> QED
    BY <1>6, <1>7, <2>1
<1>9. /\ OfType(<<>>, "content_block_start") = <<>> /\ OfType(<<>>, "message_delta") = <<>>
      /\ \A index : Filled(<<>>, index) = <<>>
  BY LogOne
<1> QED
  BY <1>3, <1>4, <1>5, <1>6, <1>7, <1>8, <1>9, Zenon

\* The count that the encoding of the end brings.
LEMMA OutputType ==
    ASSUME NEW e, EncoderOK(e), NEW usage \in Optional(Usages)
    PROVE  ValueOr(usage, e.usage).output \in Nat
<1>1. e.usage \in Usage /\ Usages \in SUBSET Usage
  BY StreamAssumption DEF EncoderOK
<1>2. ValueOr(usage, e.usage) \in Usage
  BY <1>1, ValueOrType
<1> QED
  BY <1>2 DEF Usage

\* The encoding of the end begins the blocks of the tools, fills them, and
\* sums up once.
LEMMA FinishedParts ==
    ASSUME NEW e, EncoderOK(e), NEW reason \in StopReasons, NEW usage \in Optional(Usages),
           NEW f, f = EncodeFinished(e, reason, usage)
    PROVE  /\ f \in Seq(Events)
           /\ OfType(f, "content_block_start") = EmptyStart(e) \o ToolStarts(e)
           /\ OfType(f, "message_delta")
                = << Event("message_delta", 0, <<reason>>, ValueOr(usage, e.usage).output) >>
           /\ \A index : Filled(f, index) = Filled(ToolBlocks(e), index)
<1> DEFINE d == Event("message_delta", 0, <<reason>>, ValueOr(usage, e.usage).output)
           z == Bare("message_stop", 0)
           a == TextEnd(e)
           ts == ToolBlocks(e)
           w == <<d, z>>
           at == a \o ts
<1>1. d \in Events /\ z \in Events
  <2>1. <<>> \in Seq(Data) /\ <<reason>> \in Seq(Data) /\ <<>> \in Seq(Ids)
    BY DEF Data
  <2>2. ValueOr(usage, e.usage).output \in Nat
    BY OutputType
  <2> QED
    BY <2>1, <2>2 DEF Events, Event, Bare, Data
<1>2. d.type = "message_delta" /\ z.type = "message_stop"
  BY DEF Event, Bare
<1>3. f = at \o w
  BY DEF EncodeFinished
<1>4. /\ a \in Seq(Events) /\ ts \in Seq(Events)
      /\ EmptyStart(e) \in Seq(Events) /\ ToolStarts(e) \in Seq(Events)
      /\ OfType(a, "content_block_start") = EmptyStart(e)
      /\ OfType(a, "message_delta") = <<>>
      /\ \A index : Filled(a, index) = <<>>
      /\ OfType(ts, "content_block_start") = ToolStarts(e)
      /\ OfType(ts, "message_delta") = <<>>
  BY TextEndParts, ToolBlocksParts
<1> HIDE DEF d, z, a, ts
<1>5. /\ OfType(<<d>>, "content_block_start") = <<>> /\ OfType(<<z>>, "content_block_start") = <<>>
      /\ OfType(<<d>>, "message_delta") = <<d>> /\ OfType(<<z>>, "message_delta") = <<>>
      /\ \A index : Filled(<<d>>, index) = <<>> /\ Filled(<<z>>, index) = <<>>
  BY <1>1, <1>2, LogOne
<1>6. \A T : \A s \in Seq(T) : s \o <<>> = s /\ <<>> \o s = s
  BY ConcatEmptySeq
<1>7. <<d>> \in Seq(Events) /\ <<>> \o <<>> = <<>> /\ <<d>> \o <<>> = <<d>>
  <2>1. <<d>> \in Seq(Events) /\ <<>> \in Seq(Events)
    BY <1>1
  <2> QED
    BY <1>6, <2>1
<1>8. /\ w \in Seq(Events)
      /\ OfType(w, "content_block_start") = <<>>
      /\ OfType(w, "message_delta") = <<d>>
      /\ \A index : Filled(w, index) = <<>>
  <2>1. /\ <<d, z>> \in Seq(Events)
        /\ \A type : OfType(<<d, z>>, type) = OfType(<<d>>, type) \o OfType(<<z>>, type)
        /\ \A index : Filled(<<d, z>>, index) = Filled(<<d>>, index) \o Filled(<<z>>, index)
    BY <1>1, LogTwo
  <2>2. <<>> \o <<d>> = <<d>>
    BY <1>6, <1>7
  <2> QED
    BY <1>5, <1>7, <2>1, <2>2
<1> HIDE DEF w
<1>9. /\ at \in Seq(Events)
      /\ \A type : OfType(at, type) = OfType(a, type) \o OfType(ts, type)
      /\ \A index : Filled(at, index) = Filled(a, index) \o Filled(ts, index)
  BY <1>4, LogConcat
<1>10. \A index : Filled(ts, index) \in Seq(Data) /\ Filled(at, index) \in Seq(Data)
  BY <1>4, <1>9, LogFunctions
<1>11. /\ OfType(at, "content_block_start") = EmptyStart(e) \o ToolStarts(e)
       /\ OfType(at, "message_delta") = <<>>
       /\ \A index : Filled(at, index) = Filled(ts, index)
  <2>1. OfType(at, "content_block_start") = EmptyStart(e) \o ToolStarts(e)
    BY <1>4, <1>9
  <2>2. OfType(at, "message_delta") = <<>>
    BY <1>4, <1>7, <1>9
  <2>3. ASSUME NEW index
        PROVE  Filled(at, index) = Filled(ts, index)
    <3>1. Filled(at, index) = <<>> \o Filled(ts, index)
      BY <1>4, <1>9
    <3> QED
      BY <1>6, <1>10, <3>1
  <2> QED
    BY <2>1, <2>2, <2>3
<1>12. EmptyStart(e) \o ToolStarts(e) \in Seq(Events)
  BY <1>4, ConcatProperties
<1> HIDE DEF at
<1>13. /\ at \o w \in Seq(Events)
       /\ \A type : OfType(at \o w, type) = OfType(at, type) \o OfType(w, type)
       /\ \A index : Filled(at \o w, index) = Filled(at, index) \o Filled(w, index)
  BY <1>8, <1>9, LogConcat
<1>14. <<>> \o <<d>> = <<d>>
  BY <1>6, <1>7
<1>15. /\ OfType(at \o w, "content_block_start") = EmptyStart(e) \o ToolStarts(e)
       /\ OfType(at \o w, "message_delta") = <<d>>
       /\ \A index : Filled(at \o w, index) = Filled(ts, index)
  <2>1. OfType(at \o w, "content_block_start") = (EmptyStart(e) \o ToolStarts(e)) \o <<>>
    BY <1>8, <1>11, <1>13
  <2>2. OfType(at \o w, "message_delta") = <<>> \o <<d>>
    BY <1>8, <1>11, <1>13
  <2>3. (EmptyStart(e) \o ToolStarts(e)) \o <<>> = EmptyStart(e) \o ToolStarts(e)
    BY <1>6, <1>12
  <2>4. ASSUME NEW index
        PROVE  Filled(at \o w, index) = Filled(ts, index)
    <3>1. Filled(at \o w, index) = Filled(ts, index) \o <<>>
      BY <1>8, <1>11, <1>13
    <3> QED
      BY <1>6, <1>10, <3>1
  <2> QED
    BY <1>14, <2>1, <2>2, <2>3, <2>4
<1> QED
  BY <1>3, <1>13, <1>15 DEF d, ts

-----------------------------------------------------------------------------
(* The message that the events make.                                       *)

\* Some of an id or a name, from its beginning.
Started(part, whole, S) == part # <<>> /\ \E rest \in Seq(S) : whole = part \o rest

\* What the encoder keeps of a tool's id and name, next to what the parser has
\* got of them.
Announced(tool, parsed) ==
    /\ Started(tool.id, parsed.id, Ids)
    /\ Started(tool.name, parsed.name, Names)
    /\ ~said.late => tool.id = parsed.id /\ tool.name = parsed.name

\* What the parser and the encoder hold of what was said, beside Heard: the
\* last reason and count of tokens, whether there is text, and the id and the
\* name of every tool announced, or the beginnings of them.
Told ==
    /\ said.reason # None => parser.reason = StopReason[said.reason]
    /\ parser.usage = said.usage
    /\ said.usage = {} => encoder.usage.output = 0
    /\ encoder.textBlock = -1 <=> said.text = <<>>
    /\ \A i \in DOMAIN encoder.tools : Announced(encoder.tools[i], parser.tools[i])

\* Every message opens with the proxy's estimate of the input tokens.
Opening == Event("message_start", 0, <<>>, Estimate)

Opened == Len(Full) > 0 /\ Full[1] = Opening

\* Before its end a message has the block of the text at most, with the text.
TextOnly(log) ==
    /\ OfType(log, "content_block_start")
         = IF encoder.textBlock = -1 THEN <<>> ELSE << Bare("content_block_start", 0) >>
    /\ OfType(log, "message_delta") = <<>>
    /\ \A index \in Nat : Filled(log, index) = IF index = 0 THEN said.text ELSE <<>>

\* A complete message is that, and then the encoding of the end.
Ended ==
    Count(Full, Len(Full), "message_stop") # 0 =>
        \E log \in Seq(Events) :
            TextOnly(log) /\ Full = log \o EncodeFinished(encoder, parser.reason, parser.usage)

MessageInv == Told /\ Opened /\ (pc = "reading" => TextOnly(Full)) /\ Ended

\* What comes later does not change how a message opened.
LEMMA OpenedKept ==
    ASSUME StreamInv, Opened, NEW s \in Seq(Events), Full' = Full \o s
    PROVE  Opened'
<1> DEFINE l == Full
<1>1. l \in Seq(Events)
  BY ConcatProperties DEF StreamInv, Shape, Full
<1>2. Len(l) > 0 /\ l[1] = Opening
  BY DEF Opened
<1> HIDE DEF l
<1>3. /\ Len(l) \in Nat /\ Len(s) \in Nat /\ Len(l \o s) = Len(l) + Len(s)
      /\ \A i \in 1..Len(l) + Len(s) : (l \o s)[i] = IF i <= Len(l) THEN l[i] ELSE s[i - Len(l)]
  BY <1>1, ConcatProperties, LenProperties
<1>4. Len(l \o s) > 0 /\ (l \o s)[1] = Opening
  BY <1>2, <1>3
<1> QED
  BY <1>4 DEF Opened, Opening, l

\* At first there is nothing to be told.
LEMMA MessageStart == Init => MessageInv
<1> SUFFICES ASSUME Init PROVE MessageInv
  OBVIOUS
<1> DEFINE x == Opening
<1>1. x \in Events /\ x.type = "message_start"
  BY EmptySeq, StreamAssumption DEF Opening, Event, Events
<1>2. /\ parser.reason = None /\ parser.usage = {}
      /\ encoder.textBlock = -1 /\ encoder.tools = <<>> /\ encoder.usage.output = 0
      /\ said.reason = None /\ said.usage = {} /\ said.text = <<>>
      /\ sent = <<>> /\ pending = <<x>>
  BY DEF Init, Opening
<1>3. Told
  BY <1>2 DEF Told
<1> HIDE DEF x
<1>4. <<x>> \in Seq(Events)
  BY <1>1
<1>5. Full = <<x>>
  BY <1>2, <1>4, ConcatEmptySeq DEF Full
<1>6. TextOnly(Full)
  BY <1>1, <1>2, <1>5, LogOne DEF TextOnly
<1>7. Count(Full, Len(Full), "message_stop") = 0
  <2>1. Count(<<x>>, 1, "message_stop") = 0
    <3>1. {i \in 1..1 : <<x>>[i].type = "message_stop"} = {}
      BY <1>1
    <3> QED
      BY <3>1, FS_EmptySet DEF Count
  <2> QED
    BY <1>5, <2>1
<1>8. Opened
  BY <1>5 DEF Opened, x
<1> QED
  BY <1>3, <1>6, <1>7, <1>8 DEF MessageInv, Ended

\* The events keep their meaning in a step that encodes nothing.
LEMMA MessageKept ==
    ASSUME StreamInv, MessageInv, Full' = Full, pc' = "reading" => pc = "reading",
           encoder'.textBlock = encoder.textBlock, said'.text = said.text,
           pc # "reading" => parser' = parser /\ encoder' = encoder
    PROVE  Opened' /\ (pc' = "reading" => TextOnly(Full)') /\ Ended'
<1>1. \A log : TextOnly(log) => TextOnly(log)'
  BY DEF TextOnly
<1>2. pc' = "reading" => TextOnly(Full)'
  BY <1>1 DEF MessageInv, TextOnly
<1>0. Opened'
  BY DEF MessageInv, Opened, Opening
<1>3. CASE pc = "reading"
  <2>1. Count(Full, Len(Full), "message_stop") = 0
    BY <1>3 DEF StreamInv, Reading, Underway
  <2> QED
    BY <1>0, <1>2, <2>1 DEF Ended
<1>4. CASE pc # "reading"
  BY <1>0, <1>1, <1>2, <1>4 DEF MessageInv, Ended, TextOnly
<1> QED
  BY <1>3, <1>4

\* A fragment of text is appended to what fills the first block.
LEMMA SayTextMessage ==
    ASSUME StreamInv, StreamInv', MessageInv, NEW t \in Texts, SayText(t)
    PROVE  MessageInv'
<1> DEFINE e == encoder
           x == Bare("content_block_start", 0)
           y == Event("content_block_delta", 0, <<t>>, 0)
           s == EncodeText(encoder, t)
<1>1. /\ pc = "reading" /\ pending = <<>> /\ pending' = s /\ sent' = sent /\ pc' = pc
      /\ parser' = parser
      /\ encoder' = IF e.textBlock # -1 THEN e
                    ELSE [e EXCEPT !.textBlock = e.nextBlock, !.nextBlock = @ + 1]
      /\ said' = [said EXCEPT !.parts = @ + 1, !.text = Append(@, t)]
  BY Zenon DEF SayText, Say, Listening
<1>2. /\ sent \in Seq(Events) /\ Full = sent /\ said \in SaidType
      /\ (e.textBlock = -1 /\ e.nextBlock = 0) \/ (e.textBlock = 0 /\ e.nextBlock = 1)
  <2>1. sent \in Seq(Events)
    BY DEF StreamInv, Shape
  <2>2. sent \o <<>> = sent
    BY <2>1, ConcatEmptySeq
  <2> QED
    BY <1>1, <2>1, <2>2 DEF StreamInv, Shape, EncoderOK, Full
<1>3. TextOnly(sent)
  BY <1>1, <1>2 DEF MessageInv
<1>4. x \in Events /\ y \in Events
  <2>1. <<t>> \in Seq(Data) /\ <<>> \in Seq(Data) /\ <<>> \in Seq(Ids)
    BY DEF Data
  <2> QED
    BY <2>1 DEF Events, Event, Bare, Data
<1>5. /\ x.type = "content_block_start"
      /\ y.type = "content_block_delta" /\ y.index = 0 /\ y.data = <<t>>
  BY DEF Bare, Event
<1>6. s = IF e.textBlock = -1 THEN <<x, y>> ELSE <<y>>
  BY <1>2 DEF EncodeText
<1>7. /\ said'.text = Append(said.text, t) /\ said'.text = said.text \o <<t>>
      /\ said'.text # <<>> /\ said.text \in Seq(Texts)
      /\ said'.reason = said.reason /\ said'.usage = said.usage /\ said'.late = said.late
  <2> DEFINE more == Append(said.text, t)
  <2>1. said.text \in Seq(Texts) /\ more # <<>> /\ more = said.text \o <<t>>
    <3>1. said.text \in Seq(Texts)
      BY <1>2 DEF SaidType
    <3> QED
      BY <3>1, AppendProperties, AppendIsConcat
  <2> HIDE DEF more
  <2>2. /\ said'.text = more /\ said'.reason = said.reason /\ said'.usage = said.usage
        /\ said'.late = said.late
    BY <1>1, <1>2 DEF SaidType, more
  <2> QED
    BY <2>1, <2>2 DEF more
<1>8. /\ encoder'.textBlock = 0 /\ encoder'.tools = encoder.tools /\ encoder'.usage = encoder.usage
  <2>1. e \in [nextBlock : 0..1, textBlock : {-1, 0}, tools : {e.tools}, usage : Usage]
    BY DEF StreamInv, Shape, EncoderOK
  <2> QED
    BY <1>1, <1>2, <2>1
<1> HIDE DEF x, y, s
<1>9. Told'
  <2>1. ~(encoder'.textBlock = -1)
    BY <1>8
  <2>2. /\ said'.reason # None => parser'.reason = StopReason[said'.reason]
        /\ parser'.usage = said'.usage /\ (said'.usage = {} => encoder'.usage.output = 0)
    BY <1>1, <1>7, <1>8 DEF MessageInv, Told
  <2>3. \A i \in DOMAIN encoder'.tools : Announced(encoder.tools[i], parser.tools[i])'
    BY <1>1, <1>7, <1>8 DEF MessageInv, Told, Announced
  <2> QED
    BY <1>7, <2>1, <2>2, <2>3 DEF Told
<1>10. /\ OfType(<<x>>, "content_block_start") = <<x>> /\ OfType(<<y>>, "content_block_start") = <<>>
       /\ OfType(<<x>>, "message_delta") = <<>> /\ OfType(<<y>>, "message_delta") = <<>>
       /\ \A index : /\ Filled(<<x>>, index) = <<>>
                     /\ Filled(<<y>>, index) = IF index = 0 THEN <<t>> ELSE <<>>
  BY <1>4, <1>5, LogOne
<1>11. \A T : \A r \in Seq(T) : r \o <<>> = r /\ <<>> \o r = r
  BY ConcatEmptySeq
<1>12. /\ <<x>> \in Seq(Events) /\ <<y>> \in Seq(Events) /\ <<t>> \in Seq(Texts)
       /\ <<>> \o <<>> = <<>> /\ <<x>> \o <<>> = <<x>> /\ <<>> \o <<t>> = <<t>>
  <2>1. <<x>> \in Seq(Events) /\ <<y>> \in Seq(Events) /\ <<t>> \in Seq(Texts) /\ <<>> \in Seq(Events)
    BY <1>4
  <2> QED
    BY <1>11, <2>1
<1>13. /\ s \in Seq(Events)
       /\ OfType(s, "content_block_start") = IF e.textBlock = -1 THEN <<x>> ELSE <<>>
       /\ OfType(s, "message_delta") = <<>>
       /\ \A index : Filled(s, index) = IF index = 0 THEN <<t>> ELSE <<>>
  <2>1. /\ <<x, y>> \in Seq(Events)
        /\ \A type : OfType(<<x, y>>, type) = OfType(<<x>>, type) \o OfType(<<y>>, type)
        /\ \A index : Filled(<<x, y>>, index) = Filled(<<x>>, index) \o Filled(<<y>>, index)
    BY <1>4, LogTwo
  <2>2. /\ OfType(<<x, y>>, "content_block_start") = <<x>>
        /\ OfType(<<x, y>>, "message_delta") = <<>>
        /\ \A index : Filled(<<x, y>>, index) = IF index = 0 THEN <<t>> ELSE <<>>
    BY <1>10, <1>12, <2>1
  <2> QED
    BY <1>6, <1>10, <1>12, <2>1, <2>2
<1>14. /\ Full' = sent \o s
       /\ \A type : OfType(sent \o s, type) = OfType(sent, type) \o OfType(s, type)
       /\ \A index : Filled(sent \o s, index) = Filled(sent, index) \o Filled(s, index)
  <2>1. Full' = sent \o s
    BY <1>1 DEF Full
  <2> QED
    BY <1>2, <1>13, <2>1, LogConcat
<1>15. /\ OfType(sent, "content_block_start") = IF e.textBlock = -1 THEN <<>> ELSE <<x>>
       /\ OfType(sent, "message_delta") = <<>>
       /\ \A index \in Nat : Filled(sent, index) = IF index = 0 THEN said.text ELSE <<>>
  BY <1>3 DEF TextOnly, x
<1>16. OfType(Full', "content_block_start") = <<x>>
  <2>1. <<>> \o <<x>> = <<x>>
    BY <1>11, <1>12
  <2> QED
    BY <1>12, <1>13, <1>14, <1>15, <2>1
<1>17. OfType(Full', "message_delta") = <<>>
  BY <1>12, <1>13, <1>14, <1>15
<1>18. \A index \in Nat : Filled(Full', index) = IF index = 0 THEN said'.text ELSE <<>>
  BY <1>7, <1>12, <1>13, <1>14, <1>15
<1>19. TextOnly(Full)'
  BY <1>8, <1>16, <1>17, <1>18 DEF TextOnly, x
<1>20. Ended'
  <2>1. Count(Full, Len(Full), "message_stop")' = 0
    BY <1>1 DEF StreamInv, Reading, Underway
  <2> QED
    BY <2>1 DEF Ended
<1>21. Opened'
  BY <1>2, <1>13, <1>14, OpenedKept DEF MessageInv
<1> QED
  BY <1>9, <1>19, <1>20, <1>21 DEF MessageInv

\* A count of tokens is told to both.
LEMMA SayUsageMessage ==
    ASSUME StreamInv, MessageInv, NEW u \in Usages, SayUsage(u)
    PROVE  MessageInv'
<1>1. /\ pc = "reading" /\ pc' = pc /\ pending' = pending /\ sent' = sent
      /\ parser' = [parser EXCEPT !.usage = {u}]
      /\ encoder' = [encoder EXCEPT !.usage = u]
      /\ said' = [said EXCEPT !.parts = @ + 1, !.usage = {u}]
  BY Zenon DEF SayUsage, Say, Listening
<1>2. /\ said'.text = said.text /\ said'.reason = said.reason /\ said'.usage = {u}
      /\ said'.late = said.late
      /\ parser'.tools = parser.tools /\ parser'.reason = parser.reason /\ parser'.usage = {u}
      /\ encoder'.tools = encoder.tools /\ encoder'.textBlock = encoder.textBlock
  <2>1. /\ said'.text = said.text /\ said'.reason = said.reason /\ said'.usage = {u}
        /\ said'.late = said.late
        /\ parser'.tools = parser.tools /\ parser'.reason = parser.reason /\ parser'.usage = {u}
    BY <1>1 DEF StreamInv, Shape, ParserType, SaidType
  <2>2. encoder'.tools = encoder.tools /\ encoder'.textBlock = encoder.textBlock
    BY <1>1 DEF StreamInv, Shape, EncoderOK
  <2> QED
    BY <2>1, <2>2
<1>3. Told'
  BY <1>2 DEF MessageInv, Told, Announced
<1>4. Full' = Full
  BY <1>1 DEF Full
<1> QED
  BY <1>1, <1>2, <1>3, <1>4, MessageKept DEF MessageInv

\* A reason to stop replaces the one before.
LEMMA SayReasonMessage ==
    ASSUME StreamInv, MessageInv, NEW reason \in Reasons, SayReason(reason)
    PROVE  MessageInv'
<1>1. /\ pc = "reading" /\ pc' = pc /\ pending' = pending /\ sent' = sent /\ encoder' = encoder
      /\ parser' = [parser EXCEPT !.reason = StopReason[reason]]
      /\ said' = [said EXCEPT !.parts = @ + 1, !.reason = reason]
  BY Zenon DEF SayReason, Say, Listening
<1>2. /\ said'.text = said.text /\ said'.reason = reason /\ said'.usage = said.usage
      /\ said'.late = said.late
      /\ parser'.tools = parser.tools /\ parser'.reason = StopReason[reason]
      /\ parser'.usage = parser.usage
  BY <1>1 DEF StreamInv, Shape, ParserType, SaidType
<1>3. Told'
  BY <1>1, <1>2 DEF MessageInv, Told, Announced
<1>4. Full' = Full
  BY <1>1 DEF Full
<1> QED
  BY <1>1, <1>2, <1>3, <1>4, MessageKept DEF MessageInv

\* What has begun goes on, and what is whole has begun.
LEMMA StartedGoesOn ==
    ASSUME NEW S, NEW part \in Seq(S), part # <<>>
    PROVE  /\ Started(part, part, S)
           /\ \A whole : \A more \in Seq(S) :
                Started(part, whole, S) => Started(part, whole \o more, S)
<1>1. Started(part, part, S)
  <2>1. <<>> \in Seq(S) /\ part = part \o <<>>
    BY ConcatEmptySeq, EmptySeq
  <2> QED
    BY <2>1 DEF Started
<1>2. ASSUME NEW whole, NEW more \in Seq(S), Started(part, whole, S)
      PROVE  Started(part, whole \o more, S)
  <2>1. PICK rest \in Seq(S) : whole = part \o rest
    BY <1>2 DEF Started
  <2>2. (part \o rest) \o more = part \o (rest \o more)
    BY ConcatAssociative
  <2>3. rest \o more \in Seq(S)
    BY ConcatProperties
  <2> QED
    BY <2>1, <2>2, <2>3 DEF Started
<1> QED
  BY <1>1, <1>2

\* A fragment of a tool's id or name is appended to what the parser has of it;
\* the encoder keeps what there was when the call was announced.
LEMMA SayToolMessage ==
    ASSUME StreamInv, MessageInv, NEW i \in Indexes, NEW id \in Short(Ids),
           NEW name \in Short(Names), NEW arguments \in Short(Pieces),
           SayTool(i, id, name, arguments)
    PROVE  MessageInv'
<1> DEFINE tool == parser.tools[i]
           grown == Grown(tool, id, name, arguments)
           delta == Forwarded(tool, grown, arguments)
           D == DOMAIN encoder.tools
           one == [id |-> grown.id, name |-> grown.name, arguments |-> delta]
<1>1. /\ pc = "reading" /\ pc' = pc /\ pending' = pending /\ sent' = sent
      /\ parser' = [parser EXCEPT !.tools[i] = grown]
      /\ encoder' =
           IF ~grown.started THEN encoder
           ELSE IF ~tool.started
           THEN [encoder EXCEPT !.tools =
                   [j \in {i} \union DOMAIN @ |-> IF j = i THEN one ELSE @[j]]]
           ELSE [encoder EXCEPT !.tools[i].arguments = @ \o delta]
      /\ said' = [said EXCEPT !.parts = @ + 1, !.arguments[i] = @ \o arguments,
                              !.late = @ \/ (tool.started /\ (id # <<>> \/ name # <<>>))]
  BY Zenon DEF SayTool, Say, Listening
<1>2. id \in Seq(Ids) /\ name \in Seq(Names)
  <2>1. /\ id = <<>> \/ \E s \in Ids : id = <<s>>
        /\ name = <<>> \/ \E s \in Names : name = <<s>>
    BY DEF Short
  <2>2. /\ <<>> \in Seq(Ids) /\ \A s \in Ids : <<s>> \in Seq(Ids)
        /\ <<>> \in Seq(Names) /\ \A s \in Names : <<s>> \in Seq(Names)
    OBVIOUS
  <2> QED
    BY <2>1, <2>2
<1>3. /\ tool.id \in Seq(Ids) /\ tool.name \in Seq(Names) /\ tool.started \in BOOLEAN
      /\ D = {j \in Indexes : parser.tools[j].started}
      /\ \A j \in D : encoder.tools[j] \in BufferedTool
      /\ \A j \in D : Announced(encoder.tools[j], parser.tools[j])
  <2>1. tool \in StreamedTool
    BY DEF StreamInv, Shape, ParserType
  <2>2. tool.id \in Seq(Ids) /\ tool.name \in Seq(Names) /\ tool.started \in BOOLEAN
    BY <2>1 DEF StreamedTool
  <2> QED
    BY <2>2 DEF StreamInv, Shape, Heard, EncoderOK, MessageInv, Told
<1>4. /\ grown.id = tool.id \o id /\ grown.name = tool.name \o name
      /\ grown.started <=> tool.started \/ (tool.id \o id # <<>> /\ tool.name \o name # <<>>)
  BY DEF Grown
<1>5. /\ said'.text = said.text /\ said'.reason = said.reason /\ said'.usage = said.usage
      /\ said'.late <=> said.late \/ (tool.started /\ (id # <<>> \/ name # <<>>))
      /\ parser'.reason = parser.reason /\ parser'.usage = parser.usage
      /\ \A j \in Indexes : parser'.tools[j] = IF j = i THEN grown ELSE parser.tools[j]
  BY <1>1 DEF StreamInv, Shape, ParserType, SaidType
<1>6. /\ encoder'.textBlock = encoder.textBlock /\ encoder'.usage = encoder.usage
      /\ encoder'.tools =
           IF ~grown.started THEN encoder.tools
           ELSE IF ~tool.started
           THEN [j \in {i} \union D |-> IF j = i THEN one ELSE encoder.tools[j]]
           ELSE [encoder.tools EXCEPT ![i].arguments = @ \o delta]
  <2>1. encoder \in [nextBlock : 0..1, textBlock : {-1, 0}, tools : {encoder.tools}, usage : Usage]
    BY DEF StreamInv, Shape, EncoderOK
  <2> HIDE DEF tool, grown, delta, one
  <2> QED
    BY <1>1, <2>1
<1>7. one.id = grown.id /\ one.name = grown.name
  OBVIOUS
<1> HIDE DEF tool, grown, delta, one
<1>8. ASSUME NEW j \in D, encoder'.tools[j].id = encoder.tools[j].id,
             encoder'.tools[j].name = encoder.tools[j].name,
             parser'.tools[j] = parser.tools[j]
      PROVE  Announced(encoder.tools[j], parser.tools[j])'
  BY <1>3, <1>5, <1>8 DEF Announced
<1>9. ASSUME NEW j \in DOMAIN encoder'.tools
      PROVE  Announced(encoder.tools[j], parser.tools[j])'
  <2>1. CASE ~grown.started
    <3>1. j \in D /\ encoder'.tools[j] = encoder.tools[j] /\ ~tool.started
      BY <1>3, <1>4, <1>6, <2>1
    <3>2. j # i /\ parser'.tools[j] = parser.tools[j]
      BY <1>3, <1>5, <3>1 DEF tool
    <3> QED
      BY <1>8, <3>1, <3>2
  <2>2. CASE grown.started /\ ~tool.started
    <3>1. j \in {i} \union D /\ encoder'.tools[j] = IF j = i THEN one ELSE encoder.tools[j]
      BY <1>6, <2>2
    <3>2. CASE j = i
      <4>1. /\ encoder'.tools[j].id = grown.id /\ parser'.tools[j].id = grown.id
            /\ encoder'.tools[j].name = grown.name /\ parser'.tools[j].name = grown.name
        BY <1>5, <1>7, <3>1, <3>2
      <4>2. /\ grown.id # <<>> /\ grown.id \in Seq(Ids)
            /\ grown.name # <<>> /\ grown.name \in Seq(Names)
        BY <1>2, <1>3, <1>4, <2>2, ConcatProperties
      <4>3. Started(grown.id, grown.id, Ids) /\ Started(grown.name, grown.name, Names)
        BY <4>2, StartedGoesOn
      <4> QED
        BY <4>1, <4>3 DEF Announced
    <3>3. CASE j # i
      <4>1. j \in D /\ encoder'.tools[j] = encoder.tools[j] /\ parser'.tools[j] = parser.tools[j]
        BY <1>3, <1>5, <3>1, <3>3
      <4> QED
        BY <1>8, <4>1
    <3> QED
      BY <3>2, <3>3
  <2>3. CASE grown.started /\ tool.started
    <3>1. /\ i \in D /\ j \in D
          /\ encoder'.tools[j].id = encoder.tools[j].id
          /\ encoder'.tools[j].name = encoder.tools[j].name
      <4>1. i \in D
        BY <1>3, <2>3 DEF tool
      <4>2. encoder'.tools = [encoder.tools EXCEPT ![i].arguments = @ \o delta]
        BY <1>6, <2>3
      <4>3. encoder.tools[i] \in BufferedTool
        BY <1>3, <4>1
      <4> QED
        BY <4>1, <4>2, <4>3 DEF BufferedTool
    <3>2. CASE j = i
      <4>1. Announced(encoder.tools[i], tool)
        BY <1>3, <3>1 DEF tool
      <4> DEFINE kept == encoder.tools[i]
      <4>2. kept.id \in Seq(Ids) /\ kept.name \in Seq(Names)
        BY <1>3, <3>1 DEF BufferedTool
      <4> HIDE DEF kept
      <4>3. /\ kept.id # <<>> /\ kept.name # <<>>
            /\ Started(kept.id, tool.id, Ids) /\ Started(kept.name, tool.name, Names)
        BY <4>1 DEF Announced, Started, kept
      <4>4. Started(kept.id, grown.id, Ids) /\ Started(kept.name, grown.name, Names)
        <5>1. Started(kept.id, tool.id \o id, Ids)
          BY <1>2, <4>2, <4>3, StartedGoesOn
        <5>2. Started(kept.name, tool.name \o name, Names)
          BY <1>2, <4>2, <4>3, StartedGoesOn
        <5> QED
          BY <1>4, <5>1, <5>2
      <4>5. ~said'.late => kept.id = grown.id /\ kept.name = grown.name
        <5>1. ~said'.late => /\ kept.id = tool.id /\ kept.name = tool.name
                             /\ id = <<>> /\ name = <<>>
          BY <1>5, <2>3, <4>1 DEF Announced, kept
        <5>2. tool.id \o <<>> = tool.id /\ tool.name \o <<>> = tool.name
          BY <1>3, ConcatEmptySeq
        <5> QED
          BY <1>4, <5>1, <5>2
      <4>6. parser'.tools[j] = grown
        BY <1>5, <3>2
      <4>7. encoder'.tools[j].id = kept.id /\ encoder'.tools[j].name = kept.name
        BY <3>1, <3>2 DEF kept
      <4> QED
        BY <4>4, <4>5, <4>6, <4>7 DEF Announced
    <3>3. CASE j # i
      <4>1. parser'.tools[j] = parser.tools[j]
        BY <1>3, <1>5, <3>1, <3>3
      <4> QED
        BY <1>8, <3>1, <4>1
    <3> QED
      BY <3>2, <3>3
  <2> QED
    BY <1>3, <2>1, <2>2, <2>3
<1>10. Told'
  BY <1>5, <1>6, <1>9 DEF MessageInv, Told
<1>11. Full' = Full
  BY <1>1 DEF Full
<1> QED
  BY <1>1, <1>5, <1>6, <1>10, <1>11, MessageKept DEF MessageInv

\* A message that failed is not reported as complete.
LEMMA FailMessage ==
    ASSUME StreamInv, MessageInv, Listening, Fail
    PROVE  MessageInv'
<1> DEFINE x == Bare("error", 0)
<1>1. /\ pc = "reading" /\ pending = <<>> /\ pc' = "finished" /\ pending' = <<x>>
      /\ parser' = parser /\ encoder' = encoder /\ sent' = sent /\ said' = said
  BY Zenon DEF Listening, Fail
<1>2. x \in Events /\ x.type = "error"
  BY EmptySeq DEF Bare, Event, Events
<1> HIDE DEF x
<1>3. sent \in Seq(Events) /\ Full = sent
  <2>1. sent \in Seq(Events)
    BY DEF StreamInv, Shape
  <2>2. sent \o <<>> = sent
    BY <2>1, ConcatEmptySeq
  <2> QED
    BY <1>1, <2>1, <2>2 DEF Full
<1>4. Full' = Append(sent, x)
  <2>1. sent \o <<x>> = Append(sent, x)
    BY <1>2, <1>3, OneMore
  <2> QED
    BY <1>1, <2>1 DEF Full
<1>5. Count(sent, Len(sent), "message_stop") = 0
  BY <1>1, <1>3 DEF StreamInv, Reading, Underway
<1>6. Count(Append(sent, x), Len(Append(sent, x)), "message_stop") = 0
  BY <1>2, <1>3, <1>5, CountAppend
<1>7. Told'
  BY <1>1 DEF MessageInv, Told, Announced
<1>8. Opened'
  <2>1. <<x>> \in Seq(Events) /\ Full' = Full \o <<x>>
    BY <1>1, <1>2, <1>3 DEF Full
  <2> QED
    BY <2>1, OpenedKept DEF MessageInv
<1> QED
  BY <1>1, <1>4, <1>6, <1>7, <1>8 DEF MessageInv, Ended

\* The end of a message follows what was encoded of it.
LEMMA UpstreamEndsMessage ==
    ASSUME StreamInv, StreamInv', MessageInv, UpstreamEnds
    PROVE  MessageInv'
<1> DEFINE s == EncodeFinished(encoder, parser.reason, parser.usage)
<1>1. Listening
  BY Zenon DEF UpstreamEnds
<1>2. CASE Fail
  BY <1>1, <1>2, FailMessage
<1>3. CASE ~Fail
  <2>1. /\ pc = "reading" /\ pending = <<>> /\ pc' = "finished" /\ pending' = s
        /\ parser' = parser /\ encoder' = encoder /\ sent' = sent /\ said' = said
    BY <1>3, Zenon DEF UpstreamEnds, Listening
  <2>2. sent \in Seq(Events) /\ Full = sent
    <3>1. sent \in Seq(Events)
      BY DEF StreamInv, Shape
    <3>2. sent \o <<>> = sent
      BY <3>1, ConcatEmptySeq
    <3> QED
      BY <2>1, <3>1, <3>2 DEF Full
  <2>3. TextOnly(sent)
    BY <2>1, <2>2 DEF MessageInv
  <2>4. TextOnly(sent)'
    BY <2>1, <2>3 DEF TextOnly
  <2>5. Full' = sent' \o EncodeFinished(encoder', parser'.reason, parser'.usage)
    BY <2>1 DEF Full
  <2>6. Told'
    BY <2>1 DEF MessageInv, Told, Announced
  <2>7. Ended'
    BY <2>1, <2>2, <2>4, <2>5 DEF Ended, TextOnly
  <2>8. Opened'
    <3>1. s \in Seq(Events)
      <4>1. pending' \in Seq(Events)
        BY DEF StreamInv, Shape
      <4> QED
        BY <2>1, <4>1
    <3> HIDE DEF s
    <3>2. Full' = Full \o s
      BY <2>1, <2>2 DEF Full
    <3> QED
      BY <3>1, <3>2, OpenedKept DEF MessageInv
  <2> QED
    BY <2>1, <2>6, <2>7, <2>8 DEF MessageInv
<1> QED
  BY <1>2, <1>3

\* Every step keeps the invariant.
LEMMA MessageStep == StreamInv /\ MessageInv /\ [Next]_vars => MessageInv'
<1> SUFFICES ASSUME StreamInv, MessageInv, [Next]_vars PROVE MessageInv'
  OBVIOUS
<1>0. StreamInv'
  BY StreamStep
<1>1. ASSUME NEW t \in Texts, SayText(t) PROVE MessageInv'
  BY <1>0, <1>1, SayTextMessage
<1>2. ASSUME NEW i \in Indexes, NEW id \in Short(Ids), NEW name \in Short(Names),
             NEW arguments \in Short(Pieces), SayTool(i, id, name, arguments)
      PROVE  MessageInv'
  BY <1>2, SayToolMessage
<1>3. ASSUME NEW u \in Usages, SayUsage(u) PROVE MessageInv'
  BY <1>3, SayUsageMessage
<1>4. ASSUME NEW reason \in Reasons, SayReason(reason) PROVE MessageInv'
  BY <1>4, SayReasonMessage
<1>5. CASE UpstreamEnds
  BY <1>0, <1>5, UpstreamEndsMessage
<1>6. CASE UpstreamBreaks \/ IdleTimeout
  BY <1>6, FailMessage DEF UpstreamBreaks, IdleTimeout
<1>7. CASE Yield
  <2>1. /\ pending # <<>> /\ sent' = Append(sent, Head(pending)) /\ pending' = Tail(pending)
        /\ pc' = pc /\ parser' = parser /\ encoder' = encoder /\ said' = said
    BY <1>7, Zenon DEF Yield
  <2>2. sent \in Seq(Events) /\ pending \in Seq(Events)
    BY DEF StreamInv, Shape
  <2>3. Full' = Full
    BY <2>1, <2>2, YieldKeeps DEF Full
  <2>4. Told'
    BY <2>1 DEF MessageInv, Told, Announced
  <2> QED
    BY <2>1, <2>3, <2>4, MessageKept DEF MessageInv
<1>8. CASE Close \/ ClientLeaves \/ UNCHANGED vars
  <2>1. /\ pc' = "closed" \/ pc' = "gone" \/ pc' = pc
        /\ parser' = parser /\ encoder' = encoder /\ said' = said
        /\ pending' = pending /\ sent' = sent
    BY <1>8, Zenon DEF Close, ClientLeaves, vars
  <2>2. Full' = Full /\ (pc' = "reading" => pc = "reading")
    BY <2>1 DEF Full
  <2>3. Told'
    BY <2>1 DEF MessageInv, Told, Announced
  <2> QED
    BY <2>1, <2>2, <2>3, MessageKept DEF MessageInv
<1> QED
  BY <1>1, <1>2, <1>3, <1>4, <1>5, <1>6, <1>7, <1>8 DEF Next

\* The invariant holds in every state.
THEOREM MessageInvariant == Spec => []MessageInv
<1>1. Init /\ StreamInv => MessageInv
  BY MessageStart
<1>2. StreamInv /\ MessageInv /\ [Next]_vars => MessageInv'
  BY MessageStep
<1> QED
  BY <1>1, <1>2, StreamInvariant, PTL DEF Spec

\* What is in a set of one is its value.
LEMMA ValueOrIs ==
    ASSUME NEW x, NEW default
    PROVE  ValueOr({x}, default) = x /\ ValueOr({}, default) = default
BY DEF ValueOr

\* What begins with s has s as a prefix.
LEMMA PrefixOfConcat ==
    ASSUME NEW T, NEW s \in Seq(T), NEW t \in Seq(T)
    PROVE  IsPrefix(s, s \o t)
<1> DEFINE u == s \o t
           n == Len(s)
           a == SubSeq(s, 1, n)
           b == SubSeq(u, 1, n)
<1>1. n \in Nat /\ Len(t) \in Nat /\ u \in Seq(T) /\ Len(u) = n + Len(t)
      /\ \A i \in 1..n : u[i] = s[i]
  BY ConcatProperties, LenProperties
<1> HIDE DEF u, n
<1>2. n <= Len(u) /\ \A i \in 1..n : u[i] \in T /\ s[i] \in T
  BY <1>1, ElementOfSeq DEF n
<1>3. /\ a \in Seq(T) /\ Len(a) = n /\ \A i \in 1..n : a[i] = s[i]
  BY <1>1, <1>2, SubSeqProperties
<1>4. /\ b \in Seq(T) /\ Len(b) = n /\ \A i \in 1..n : b[i] = u[i]
  BY <1>1, <1>2, SubSeqProperties
<1> HIDE DEF a, b
<1>5. a = b
  BY <1>1, <1>3, <1>4, SeqEqual
<1> QED
  BY <1>2, <1>5 DEF IsPrefix, a, b, n, u

\* One element before a sequence.
LEMMA LedBy ==
    ASSUME NEW T, NEW x \in T, NEW s \in Seq(T)
    PROVE  /\ Len(<<x>> \o s) = 1 + Len(s)
           /\ (<<x>> \o s)[1] = x
           /\ \A k \in 1..Len(s) : (<<x>> \o s)[1 + k] = s[k]
<1> DEFINE one == <<x>>
           n == Len(s)
           t == one \o s
<1>1. one \in Seq(T) /\ Len(one) = 1 /\ one[1] = x /\ n \in Nat
  BY LenProperties
<1> HIDE DEF one
<1>2. /\ Len(t) = Len(one) + n
      /\ \A i \in 1..Len(one) + n : t[i] = IF i <= Len(one) THEN one[i] ELSE s[i - Len(one)]
  BY <1>1, ConcatProperties
<1> HIDE DEF t, n
<1>3. Len(t) = 1 + n /\ t[1] = x /\ \A k \in 1..n : t[1 + k] = s[k]
  BY <1>1, <1>2
<1> QED
  BY <1>3 DEF one, t, n

\* What has begun with a part of it begins with that part.
LEMMA StartedBegins ==
    ASSUME NEW S, NEW part \in Seq(S), NEW whole, Started(part, whole, S)
    PROVE  Begins(part, whole)
<1>1. PICK rest \in Seq(S) : part # <<>> /\ whole = part \o rest
  BY DEF Started
<1>2. IsPrefix(part, part \o rest) /\ part \o rest # <<>>
  BY <1>1, PrefixOfConcat, ConcatEqualIffEmpty
<1> QED
  BY <1>1, <1>2 DEF Begins

\* The blocks of a complete message: the text, unless there is none beside
\* tools, and the tools that the provider called.
Lead == IF said.text = <<>> /\ Seen # {} THEN 0 ELSE 1

\* A tool of a complete message: its arguments, and its id and name or the
\* beginnings of them.
IsTool(block, i) ==
    /\ block = Block(block.id, block.name, said.arguments[i])
    /\ Begins(block.id, parser.tools[i].id)
    /\ Begins(block.name, parser.tools[i].name)
    /\ ~said.late => block.id = parser.tools[i].id /\ block.name = parser.tools[i].name

\* The provider's last count of output tokens.
Counted == ValueOr(said.usage, Uncounted).output

\* The first of the events of a type.
LEMMA FirstOfType ==
    ASSUME NEW log \in Seq(Events), Len(log) > 0
    PROVE  OfType(log, log[1].type)[1] = log[1]
<1> DEFINE x == log[1]
           rest == Tail(log)
           one == <<x>>
<1>1. x \in Events /\ rest \in Seq(Events) /\ one \in Seq(Events) /\ Len(log) \in Nat
  BY ElementOfSeq, LenProperties
<1>2. log = one \o rest
  <2>1. /\ one \o rest \in Seq(Events) /\ Len(one \o rest) = Len(log)
        /\ \A i \in 1..Len(log) : (one \o rest)[i] = log[i]
    BY <1>1
  <2> QED
    BY <2>1, SeqEqual
<1> DEFINE t == x.type
<1>3. OfType(one, t) = <<x>>
  BY <1>1, LogOne
<1> HIDE DEF x, rest, one, t
<1>4. OfType(one \o rest, t) = OfType(one, t) \o OfType(rest, t)
  BY <1>1, LogConcat
<1>5. OfType(rest, t) \in Seq(Events)
  BY <1>1, LogFunctions
<1>6. (<<x>> \o OfType(rest, t))[1] = x
  BY <1>1, <1>5, LedBy
<1> QED
  BY <1>2, <1>3, <1>4, <1>6 DEF t, x

\* All calls of a complete message are announced and whole.
LEMMA CompletedTools ==
    ASSUME StreamInv, Completed
    PROVE  /\ Seen = DOMAIN encoder.tools
           /\ Cardinality(Seen) \in Nat
           /\ Seen # {} <=> Cardinality(Seen) > 0
           /\ \A k \in 1..Cardinality(Seen) : InOrder(Seen)[k] \in Seen
           /\ \A i \in Seen : said.arguments[i] \in ValidJson /\ said.arguments[i] \in Seq(Pieces)
           /\ said.reason \in DOMAIN StopReason
<1>1. parser.reason # None /\ ToolsValid(parser.tools)
  BY NothingAfter DEF StreamInv, Whole
<1>2. Seen = DOMAIN encoder.tools
  BY <1>1 DEF StreamInv, Heard, Seen, ToolsValid
<1>3. Seen \in SUBSET Nat /\ IsFiniteSet(Seen)
  BY <1>2, StreamAssumption DEF StreamInv, Shape, EncoderOK
<1>4. /\ Cardinality(Seen) \in Nat
      /\ \A k \in 1..Cardinality(Seen) : InOrder(Seen)[k] \in Seen
  BY <1>3, InOrderType
<1>5. Seen = {} <=> Cardinality(Seen) = 0
  BY <1>3, FS_EmptySet
<1>6. \A i \in Seen : said.arguments[i] \in ValidJson /\ said.arguments[i] \in Seq(Pieces)
  <2>1. \A i \in Seen : i \in Indexes /\ parser.tools[i].arguments \in ValidJson
    BY <1>1 DEF ToolsValid, Seen
  <2>2. \A i \in Indexes : /\ parser.tools[i].arguments = said.arguments[i]
                           /\ said.arguments[i] \in Seq(Pieces)
    BY DEF StreamInv, Shape, Heard, SaidType
  <2> QED
    BY <2>1, <2>2
<1>7. said.reason \in DOMAIN StopReason
  BY <1>1 DEF StreamInv, Shape, Heard, SaidType
<1> QED
  BY <1>2, <1>4, <1>5, <1>6, <1>7

\* What the client assembles of the events of a complete message.
LEMMA AssembledMessage ==
    ASSUME StreamInv, MessageInv, Completed
    PROVE  /\ Assembled.reason = StopReason[said.reason]
           /\ Assembled.usage.input = Estimate /\ Assembled.usage.output = Counted
           /\ Assembled.content
                = [k \in 1..Lead + Cardinality(Seen) |-> Assembled.content[k]]
           /\ Lead = 1 => Assembled.content[1] = Block(<<>>, <<>>, said.text)
           /\ \A k \in 1..Cardinality(Seen) :
                IsTool(Assembled.content[Lead + k], InOrder(Seen)[k])
<1> DEFINE e == encoder
           n == Cardinality(Seen)
           x == Bare("content_block_start", 0)
           f == EncodeFinished(e, parser.reason, parser.usage)
           tb == ToolBlocks(e)
           ts == ToolStarts(e)
           d == Event("message_delta", 0, <<parser.reason>>,
                      ValueOr(parser.usage, e.usage).output)
           lead == IF Lead = 0 THEN <<>> ELSE <<x>>
           starts == OfType(sent, "content_block_start")
<1>1. /\ Seen = DOMAIN e.tools /\ n = Cardinality(DOMAIN e.tools) /\ n \in Nat
      /\ Seen # {} <=> n > 0
      /\ \A k \in 1..n : InOrder(Seen)[k] \in Seen
      /\ said.reason \in DOMAIN StopReason
  BY CompletedTools
<1>2. /\ EncoderOK(e) /\ parser \in ParserType /\ said \in SaidType
      /\ said.text \in Seq(Data)
      /\ e.nextBlock = e.textBlock + 1 /\ e.textBlock \in {-1, 0}
      /\ e.textBlock = -1 <=> said.text = <<>>
  <2>1. EncoderOK(e) /\ parser \in ParserType /\ said \in SaidType
    BY DEF StreamInv, Shape
  <2>2. said.text \in Seq(Data)
    BY <2>1, SeqMonotonic DEF SaidType, Data
  <2> QED
    BY <2>1, <2>2 DEF EncoderOK, MessageInv, Told
<1>3. parser.reason \in StopReasons /\ parser.usage \in Optional(Usages)
  <2>1. parser.reason # None
    BY NothingAfter DEF StreamInv, Whole
  <2> QED
    BY <1>2, <2>1 DEF ParserType
<1>4. PICK log \in Seq(Events) : TextOnly(log) /\ sent = log \o f
  <2>1. Full = sent /\ Count(Full, Len(Full), "message_stop") # 0
    BY NothingAfter
  <2> QED
    BY <2>1 DEF MessageInv, Ended
<1>5. /\ OfType(log, "content_block_start") = IF e.textBlock = -1 THEN <<>> ELSE <<x>>
      /\ OfType(log, "message_delta") = <<>>
      /\ \A index \in Nat : Filled(log, index) = IF index = 0 THEN said.text ELSE <<>>
  BY <1>4 DEF TextOnly
<1>6. /\ f \in Seq(Events)
      /\ OfType(f, "content_block_start") = EmptyStart(e) \o ts
      /\ OfType(f, "message_delta") = <<d>>
      /\ \A index : Filled(f, index) = Filled(tb, index)
  <2>1. f = EncodeFinished(e, parser.reason, parser.usage)
    OBVIOUS
  <2> HIDE DEF f, tb, ts, e
  <2>2. /\ f \in Seq(Events)
        /\ OfType(f, "content_block_start") = EmptyStart(e) \o ToolStarts(e)
        /\ OfType(f, "message_delta") = <<d>>
        /\ \A index : Filled(f, index) = Filled(ToolBlocks(e), index)
    BY <1>2, <1>3, <2>1, FinishedParts
  <2> QED
    BY <2>2 DEF tb, ts
<1>7. /\ ts \in Seq(Events) /\ Len(ts) = n
      /\ \A k \in 1..n : Filled(tb, e.nextBlock + k - 1) = ToolAt(e, k).arguments
      /\ \A index : (\A k \in 1..n : index # e.nextBlock + k - 1) => Filled(tb, index) = <<>>
  BY <1>1, <1>2, ToolBlocksParts
<1>8. \A k \in 1..n : ts[k] = ToolOpens(ToolAt(e, k), e.nextBlock + k - 1)
  BY <1>1 DEF ToolStarts
<1>9. x \in Events /\ x.index = 0 /\ x.id = <<>> /\ x.data = <<>>
  BY EmptySeq DEF Events, Event, Bare
<1>10. EmptyStart(e) = IF e.textBlock = -1 /\ Seen = {} THEN <<x>> ELSE <<>>
  BY <1>1 DEF EmptyStart
<1> HIDE DEF f, tb, ts, d, x
<1>11. \A T : \A s \in Seq(T) : s \o <<>> = s /\ <<>> \o s = s
  BY ConcatEmptySeq
<1>12. /\ \A type : OfType(sent, type) = OfType(log, type) \o OfType(f, type)
       /\ \A index : Filled(sent, index) = Filled(log, index) \o Filled(tb, index)
  <2>1. /\ \A type : OfType(log \o f, type) = OfType(log, type) \o OfType(f, type)
        /\ \A index : Filled(log \o f, index) = Filled(log, index) \o Filled(f, index)
    BY <1>4, <1>6, LogConcat
  <2> QED
    BY <1>4, <1>6, <2>1, Zenon
<1>13. starts = lead \o ts
  <2>0. /\ starts = (IF e.textBlock = -1 THEN <<>> ELSE <<x>>) \o (EmptyStart(e) \o ts)
        /\ Lead = 0 <=> e.textBlock = -1 /\ Seen # {}
    <3>1. starts = OfType(log, "content_block_start") \o OfType(f, "content_block_start")
      BY <1>12
    <3>2. Lead = 0 <=> e.textBlock = -1 /\ Seen # {}
      BY <1>2 DEF Lead
    <3> HIDE DEF starts
    <3> QED
      BY <1>5, <1>6, <3>1, <3>2
  <2> HIDE DEF starts, Lead
  <2>1. <<x>> \in Seq(Events)
    BY <1>9
  <2>2. <<x>> \o ts \in Seq(Events)
    BY <1>7, <2>1, ConcatProperties
  <2>3. CASE e.textBlock # -1
    <3>1. starts = <<x>> \o (<<>> \o ts) /\ lead = <<x>>
      BY <1>10, <2>0, <2>3
    <3> QED
      BY <1>7, <1>11, <3>1
  <2>4. CASE e.textBlock = -1 /\ Seen = {}
    <3>1. starts = <<>> \o (<<x>> \o ts) /\ lead = <<x>>
      BY <1>10, <2>0, <2>4
    <3> QED
      BY <1>11, <2>2, <3>1
  <2>5. CASE e.textBlock = -1 /\ Seen # {}
    <3>1. starts = <<>> \o (<<>> \o ts) /\ lead = <<>>
      BY <1>10, <2>0, <2>5
    <3> QED
      BY <1>7, <1>11, <3>1
  <2> QED
    BY <2>3, <2>4, <2>5
<1>14. /\ Lead \in 0..1 /\ lead \in Seq(Events) /\ Len(lead) = Lead /\ (Lead = 1 => lead[1] = x)
       /\ Lead = 0 => said.text = <<>>
       /\ n > 0 => e.nextBlock = Lead
  <2>1. Lead \in 0..1 /\ (Lead = 0 => said.text = <<>>) /\ (n > 0 => e.nextBlock = Lead)
    BY <1>1, <1>2 DEF Lead
  <2>2. /\ <<x>> \in Seq(Events) /\ Len(<<x>>) = 1 /\ <<x>>[1] = x
        /\ <<>> \in Seq(Events) /\ Len(<<>>) = 0
    BY <1>9, EmptySeq
  <2> QED
    BY <2>1, <2>2
<1> HIDE DEF lead
<1>15. /\ starts \in Seq(Events) /\ Len(starts) = Lead + n
       /\ Lead = 1 => starts[1] = x
       /\ \A k \in 1..n : starts[Lead + k] = ts[k]
  <2>1. /\ lead \o ts \in Seq(Events) /\ Len(lead \o ts) = Len(lead) + Len(ts)
        /\ \A i \in 1..Len(lead) + Len(ts) :
             (lead \o ts)[i] = IF i <= Len(lead) THEN lead[i] ELSE ts[i - Len(lead)]
    BY <1>7, <1>14, ConcatProperties
  <2> DEFINE all == lead \o ts
             l == Lead
  <2>2. /\ all \in Seq(Events) /\ Len(all) = l + n /\ l \in 0..1
        /\ \A i \in 1..l + n : all[i] = IF i <= l THEN lead[i] ELSE ts[i - l]
    BY <1>7, <1>14, <2>1
  <2> HIDE DEF all, l, n
  <2>3. \A k \in 1..n : all[l + k] = ts[k]
    BY <1>1, <2>2
  <2>4. l = 1 => all[1] = lead[1]
    BY <1>1, <2>2
  <2> QED
    BY <1>13, <1>14, <2>2, <2>3, <2>4 DEF all, l
<1>16. Lead = 1 => Filled(sent, 0) = said.text
  <2> SUFFICES ASSUME Lead = 1 PROVE Filled(sent, 0) = said.text
    OBVIOUS
  <2>1. \A k \in 1..n : 0 # e.nextBlock + k - 1
    BY <1>1, <1>14
  <2>2. Filled(sent, 0) = said.text \o <<>>
    BY <1>5, <1>7, <1>12, <2>1
  <2> QED
    BY <1>2, <1>11, <2>2
<1>17. ASSUME NEW k \in 1..n
       PROVE  /\ Filled(sent, e.nextBlock + k - 1) = ToolAt(e, k).arguments
              /\ InOrder(Seen)[k] \in Seen
              /\ IsTool(Block(ToolAt(e, k).id, ToolAt(e, k).name, ToolAt(e, k).arguments),
                        InOrder(Seen)[k])
  <2> DEFINE i == InOrder(Seen)[k]
             index == e.nextBlock + k - 1
  <2>1. i \in Seen /\ ToolAt(e, k) = encoder.tools[i] /\ i \in Indexes /\ i \in DOMAIN encoder.tools
    BY <1>1 DEF ToolAt, Seen
  <2>2. encoder.tools[i] \in BufferedTool
    BY <1>2, <2>1 DEF EncoderOK
  <2>3. /\ encoder.tools[i].arguments \in Seq(Data)
        /\ encoder.tools[i].id \in Seq(Ids) /\ encoder.tools[i].name \in Seq(Names)
    BY <2>2, SeqMonotonic DEF BufferedTool, Data
  <2>4. index \in Nat /\ (index = 0 => said.text = <<>>)
    <3>1. n > 0 /\ e.nextBlock = Lead
      BY <1>1, <1>14
    <3> QED
      BY <1>14, <3>1
  <2>5. Filled(log, index) = <<>>
    BY <1>5, <2>4
  <2>6. Filled(sent, index) = <<>> \o ToolAt(e, k).arguments
    BY <1>7, <1>12, <2>5
  <2>7. Filled(sent, index) = ToolAt(e, k).arguments
    BY <1>11, <2>1, <2>3, <2>6
  <2>8. encoder.tools[i].arguments = said.arguments[i]
    BY <2>1 DEF StreamInv, Heard
  <2>9. Announced(encoder.tools[i], parser.tools[i])
    BY <2>1 DEF MessageInv, Told
  <2>10. /\ Begins(encoder.tools[i].id, parser.tools[i].id)
         /\ Begins(encoder.tools[i].name, parser.tools[i].name)
    <3> DEFINE id == encoder.tools[i].id
               name == encoder.tools[i].name
               p == parser.tools[i]
    <3>1. /\ id \in Seq(Ids) /\ Started(id, p.id, Ids)
          /\ name \in Seq(Names) /\ Started(name, p.name, Names)
      BY <2>3, <2>9 DEF Announced
    <3> HIDE DEF id, name, p
    <3>2. Begins(id, p.id) /\ Begins(name, p.name)
      BY <3>1, StartedBegins
    <3> QED
      BY <3>2 DEF id, name, p
  <2> HIDE DEF i
  <2>12. IsTool(Block(encoder.tools[i].id, encoder.tools[i].name, encoder.tools[i].arguments), i)
    BY <2>8, <2>9, <2>10 DEF IsTool, Block, Announced
  <2> QED
    BY <2>1, <2>7, <2>12 DEF i
<1>18. /\ Assembled.reason = parser.reason
       /\ Assembled.usage.input = Estimate /\ Assembled.usage.output = Counted
       /\ Assembled.content
            = [k \in 1..Len(starts) |->
                 Block(starts[k].id, starts[k].data, Filled(sent, starts[k].index))]
  <2>1. d.data[1] = parser.reason /\ d.tokens = Counted
    <3>1. /\ parser.usage = said.usage /\ (said.usage = {} => e.usage.output = 0)
          /\ said.usage = {} \/ \E u \in Usages : said.usage = {u}
      BY <1>2 DEF MessageInv, Told, SaidType, Optional
    <3>2. ValueOr(parser.usage, e.usage).output = Counted
      <4>1. CASE said.usage = {}
        <5>1. ValueOr({}, e.usage) = e.usage /\ ValueOr({}, Uncounted) = Uncounted
          BY ValueOrIs
        <5> HIDE DEF e
        <5> QED
          BY <3>1, <4>1, <5>1 DEF Counted, Uncounted
      <4>2. ASSUME NEW u \in Usages, said.usage = {u}
            PROVE  ValueOr(parser.usage, e.usage).output = Counted
        <5>1. ValueOr({u}, e.usage) = u /\ ValueOr({u}, Uncounted) = u
          BY ValueOrIs
        <5> QED
          BY <3>1, <4>2, <5>1 DEF Counted
      <4> QED
        BY <3>1, <4>1, <4>2
    <3> QED
      BY <3>2 DEF d, Event
  <2>2. OfType(sent, "message_delta") = <<d>>
    <3>1. d \in Events
      <4>1. <<parser.reason>> \in Seq(Data) /\ <<>> \in Seq(Ids)
        BY <1>3 DEF Data
      <4>2. ValueOr(parser.usage, e.usage).output \in Nat
        BY <1>2, <1>3, OutputType
      <4> QED
        BY <4>1, <4>2 DEF d, Event, Events, Data
    <3>2. <<d>> \in Seq(Events)
      BY <3>1
    <3> QED
      BY <1>5, <1>6, <1>11, <1>12, <3>2
  <2> DEFINE summary == OfType(sent, "message_delta")[1]
             opening == OfType(sent, "message_start")[1]
  <2>3. summary = d
    BY <2>2
  <2>4. opening.tokens = Estimate
    <3>1. sent \in Seq(Events) /\ Len(sent) > 0 /\ sent[1] = Opening
      BY NothingAfter DEF MessageInv, Opened, StreamInv, Shape
    <3>2. Opening.type = "message_start" /\ Opening.tokens = Estimate
      BY DEF Opening, Event
    <3>3. OfType(sent, sent[1].type)[1] = sent[1]
      BY <3>1, FirstOfType
    <3> QED
      BY <3>1, <3>2, <3>3
  <2> HIDE DEF starts
  <2>5. Assembled = [content |-> [k \in 1..Len(starts) |->
                                    Block(starts[k].id, starts[k].data,
                                          Filled(sent, starts[k].index))],
                     reason  |-> summary.data[1],
                     usage   |-> [input |-> opening.tokens, output |-> summary.tokens]]
    BY DEF Assembled, starts
  <2> HIDE DEF summary, opening
  <2> QED
    BY <2>1, <2>3, <2>4, <2>5
<1>19. parser.reason = StopReason[said.reason]
  <2>1. said.reason # None
    BY <1>1 DEF StopReason, None
  <2> QED
    BY <2>1 DEF MessageInv, Told
<1> HIDE DEF starts, e, n
<1>20. \A k \in 1..Lead + n :
         Assembled.content[k]
           = Block(starts[k].id, starts[k].data, Filled(sent, starts[k].index))
  BY <1>15, <1>18
<1>21. Assembled.content = [k \in 1..Lead + n |-> Assembled.content[k]]
  <2> DEFINE a == Assembled.content
  <2>1. a = [k \in 1..Lead + n |-> Block(starts[k].id, starts[k].data, Filled(sent, starts[k].index))]
    BY <1>15, <1>18
  <2> HIDE DEF a, Lead
  <2>2. a = [k \in 1..Lead + n |-> a[k]]
    BY <2>1
  <2> QED
    BY <2>2 DEF a
<1>22. Lead = 1 => Assembled.content[1] = Block(<<>>, <<>>, said.text)
  <2>1. Lead = 1 => 1 \in 1..Lead + n
    BY <1>1
  <2> QED
    BY <1>9, <1>15, <1>16, <1>20, <2>1
<1>23. ASSUME NEW k \in 1..n
       PROVE  IsTool(Assembled.content[Lead + k], InOrder(Seen)[k])
  <2>1. Lead + k \in 1..Lead + n
    BY <1>1, <1>14
  <2>2. /\ ts[k].index = e.nextBlock + k - 1
        /\ ts[k].id = ToolAt(e, k).id /\ ts[k].data = ToolAt(e, k).name
    <3> DEFINE index == e.nextBlock + k - 1
               tool == ToolAt(e, k)
    <3>1. ts[k] = ToolOpens(tool, index)
      BY <1>8
    <3> HIDE DEF index, tool
    <3> QED
      BY <3>1 DEF ToolOpens, index, tool
  <2>3. Assembled.content[Lead + k]
          = Block(ToolAt(e, k).id, ToolAt(e, k).name, ToolAt(e, k).arguments)
    BY <1>15, <1>17, <1>20, <2>1, <2>2
  <2> QED
    BY <1>17, <2>3
<1> QED
  BY <1>18, <1>19, <1>21, <1>22, <1>23 DEF n

\* What convert_response makes of an answer that says the same.
LEMMA ConvertedMessage ==
    ASSUME StreamInv, Completed, NEW answer \in Answers
    PROVE  /\ Convertible(answer)
           /\ ConvertResponse(answer).reason = StopReason[said.reason]
           /\ ConvertResponse(answer).usage.output = Counted
           /\ ConvertResponse(answer).content
                = [k \in 1..Lead + Cardinality(Seen) |-> ConvertResponse(answer).content[k]]
           /\ Lead = 1 => ConvertResponse(answer).content[1] = Block(<<>>, <<>>, said.text)
           /\ \A k \in 1..Cardinality(Seen) :
                ConvertResponse(answer).content[Lead + k]
                  = Block(parser.tools[InOrder(Seen)[k]].id, parser.tools[InOrder(Seen)[k]].name,
                          said.arguments[InOrder(Seen)[k]])
<1> DEFINE n == Cardinality(Seen)
           order == InOrder(Seen)
           tools == [k \in 1..n |-> [id        |-> parser.tools[order[k]].id,
                                     name      |-> parser.tools[order[k]].name,
                                     arguments |-> said.arguments[order[k]]]]
           B == [id : Seq(Ids), name : Seq(Names), data : Seq(Data)]
           calls == [k \in 1..n |-> ToolUse(tools[k])]
           call(i) == Block(parser.tools[i].id, parser.tools[i].name, said.arguments[i])
           first == Block(<<>>, <<>>, said.text)
           lead == IF said.text = <<>> THEN <<>> ELSE <<first>>
           choice == answer.choices[1]
<1>1. /\ n \in Nat /\ (Seen # {} <=> n > 0)
      /\ \A k \in 1..n : order[k] \in Seen
      /\ \A i \in Seen : /\ said.arguments[i] \in ValidJson
                         /\ said.arguments[i] \in Seq(Data)
                         /\ parser.tools[i].id \in Seq(Ids)
                         /\ parser.tools[i].name \in Seq(Names)
      /\ said.reason \in DOMAIN StopReason
      /\ said.text \in Seq(Data)
  <2>1. \A i \in Seen : parser.tools[i] \in StreamedTool
    BY DEF StreamInv, Shape, ParserType, Seen
  <2>2. \A i \in Seen : parser.tools[i].id \in Seq(Ids) /\ parser.tools[i].name \in Seq(Names)
    BY <2>1 DEF StreamedTool
  <2>3. said.text \in Seq(Data)
    BY SeqMonotonic DEF StreamInv, Shape, SaidType, Data
  <2>4. Seq(Pieces) \subseteq Seq(Data)
    BY SeqMonotonic DEF Data
  <2> QED
    BY CompletedTools, <2>2, <2>3, <2>4
<1>2. PICK content \in IF said.text = <<>> THEN {{}, {<<>>}} ELSE {{said.text}} :
        answer = [choices |-> << [content |-> content, refusal |-> {}, tools |-> tools,
                                  reason |-> {said.reason}] >>,
                  usage   |-> said.usage]
  <2>1. Len(order) = n
    BY <1>1 DEF InOrder
  <2>2. [k \in 1..Len(order) |-> [id        |-> parser.tools[order[k]].id,
                                  name      |-> parser.tools[order[k]].name,
                                  arguments |-> said.arguments[order[k]]]] = tools
    BY <2>1
  <2> HIDE DEF order, tools
  <2> QED
    BY <2>2 DEF Answers, order
<1>3. /\ answer.choices # <<>>
      /\ choice.content = content /\ choice.refusal = {}
      /\ choice.tools = tools /\ choice.reason = {said.reason}
      /\ answer.usage = said.usage
  <2> HIDE DEF tools
  <2> QED
    BY <1>2
<1>4. /\ Len(tools) = n
      /\ \A k \in 1..n : /\ tools[k].id = parser.tools[order[k]].id
                         /\ tools[k].name = parser.tools[order[k]].name
                         /\ tools[k].arguments = said.arguments[order[k]]
  BY <1>1
<1> HIDE DEF order, tools
<1>5. Convertible(answer)
  BY <1>1, <1>3, <1>4 DEF Convertible
<1>6. ValueOr(choice.content, ValueOr(choice.refusal, <<>>)) = said.text
  <2>1. ValueOr(choice.refusal, <<>>) = <<>>
    BY <1>3, ValueOrIs
  <2>2. choice.content = {said.text} \/ (choice.content = {} /\ said.text = <<>>)
    BY <1>3
  <2> HIDE DEF choice
  <2> QED
    BY <2>1, <2>2, ValueOrIs
<1>7. StopReason[ValueOr(choice.reason, "stop")] = StopReason[said.reason]
  <2>1. ValueOr(choice.reason, "stop") = said.reason
    BY <1>3, ValueOrIs
  <2> QED
    BY <2>1
<1>8. ValueOr(answer.usage, Uncounted).output = Counted
  BY <1>3 DEF Counted
<1>9. /\ ConvertResponse(answer).content = ResponseContent(said.text, tools)
      /\ ConvertResponse(answer).reason = StopReason[said.reason]
      /\ ConvertResponse(answer).usage.output = Counted
  BY <1>3, <1>6, <1>7, <1>8 DEF ConvertResponse
<1>10. /\ \A k \in 1..n : calls[k] = call(order[k])
       /\ calls \in Seq(B) /\ Len(calls) = n /\ first \in B
  <2>1. \A k \in 1..n : calls[k] = call(order[k])
    BY <1>4 DEF ToolUse
  <2>2. \A k \in 1..n : calls[k] \in B
    <3> TAKE k \in 1..n
    <3>1. order[k] \in Seen /\ calls[k] = call(order[k])
      BY <1>1, <2>1
    <3>2. /\ parser.tools[order[k]].id \in Seq(Ids)
          /\ parser.tools[order[k]].name \in Seq(Names) /\ said.arguments[order[k]] \in Seq(Data)
      BY <1>1, <3>1
    <3> HIDE DEF calls
    <3> QED
      BY <3>1, <3>2 DEF Block
  <2>3. calls \in Seq(B) /\ Len(calls) = n
    <3>1. calls \in [1..n -> B]
      <4> HIDE DEF B
      <4> QED
        BY <2>2
    <3> HIDE DEF calls, B, n
    <3> QED
      BY <1>1, <3>1, SeqDef
  <2>4. first \in B
    BY <1>1, EmptySeq DEF Block
  <2> QED
    BY <2>1, <2>3, <2>4
<1>11. ResponseContent(said.text, tools)
         = IF lead \o calls = <<>> THEN << Block(<<>>, <<>>, <<>>) >> ELSE lead \o calls
  BY <1>4 DEF ResponseContent
<1> DEFINE answered == ResponseContent(said.text, tools)
<1> HIDE DEF B, calls, first
<1>12. <<first>> \in Seq(B) /\ Len(<<first>>) = 1 /\ <<first>>[1] = first /\ <<>> \in Seq(B)
  BY <1>10
<1>13. CASE Lead = 0
  <2>1. lead = <<>> /\ n # 0
    BY <1>1, <1>13 DEF Lead
  <2>2. lead \o calls = calls
    BY <1>10, <2>1, ConcatEmptySeq
  <2>3. calls # <<>>
    BY <1>10, <2>1, EmptySeq
  <2>4. answered = calls
    BY <1>11, <2>2, <2>3
  <2>5. /\ answered = [k \in 1..Lead + n |-> answered[k]]
        /\ \A k \in 1..n : answered[Lead + k] = calls[k]
    BY <1>1, <1>10, <1>13, <2>4
  <2>6. ConvertResponse(answer).content = answered
    BY <1>9
  <2> HIDE DEF answered, n
  <2>7. \A k \in 1..n : ConvertResponse(answer).content[Lead + k] = call(order[k])
    BY <1>10, <2>5, <2>6
  <2> QED
    BY <1>5, <1>9, <1>13, <2>5, <2>6, <2>7 DEF order, n
<1>14. CASE Lead = 1
  <2>1. answered = <<first>> \o calls
    <3>1. CASE said.text = <<>>
      <4>1. lead = <<>> /\ n = 0 /\ first = Block(<<>>, <<>>, <<>>)
        BY <1>1, <1>14, <3>1 DEF Lead, first
      <4>2. calls = <<>>
        BY <1>10, <4>1, EmptySeq
      <4>3. lead \o calls = <<>> /\ <<first>> \o calls = <<first>>
        BY <1>12, <4>1, <4>2, ConcatEmptySeq
      <4> QED
        BY <1>11, <4>1, <4>3
    <3>2. CASE said.text # <<>>
      <4>1. lead = <<first>> /\ lead \o calls # <<>>
        BY <1>10, <1>12, <3>2, ConcatEqualIffEmpty
      <4> QED
        BY <1>11, <4>1
    <3> QED
      BY <3>1, <3>2
  <2>2. /\ answered = [k \in 1..1 + n |-> answered[k]] /\ answered[1] = first
        /\ \A k \in 1..n : answered[1 + k] = calls[k]
    <3> DEFINE both == <<first>> \o calls
    <3>1. /\ Len(both) = 1 + n /\ both[1] = first
          /\ \A k \in 1..n : both[1 + k] = calls[k]
      BY <1>10, LedBy
    <3>2. both \in Seq(B)
      BY <1>10, <1>12, ConcatProperties
    <3> HIDE DEF both
    <3>3. both = [k \in 1..1 + n |-> both[k]]
      BY <3>1, <3>2
    <3> QED
      BY <2>1, <3>1, <3>3 DEF both
  <2>3. ConvertResponse(answer).content = answered
    BY <1>9
  <2> HIDE DEF answered, n
  <2>4. \A k \in 1..n : ConvertResponse(answer).content[Lead + k] = call(order[k])
    BY <1>10, <1>14, <2>2, <2>3
  <2> QED
    BY <1>5, <1>9, <1>14, <2>2, <2>3, <2>4 DEF first, order, n
<1> QED
  BY <1>13, <1>14 DEF Lead

\* A complete stream brings the content that the client would have been given
\* without one: the same blocks in the same order with all of their text and
\* arguments, the same reason and the same count of output tokens
\* (StreamEncoder::finish next to convert_response), however the provider cut
\* what it said into parts; of a tool's id and name it brings the beginning,
\* and all unless the provider said some of them after the call was announced.
THEOREM SameContentInvariant == Spec => []SameContent
<1>1. StreamInv /\ MessageInv => SameContent
  <2> SUFFICES ASSUME StreamInv, MessageInv, Completed, NEW answer \in Answers
               PROVE  LET converted == ConvertResponse(answer)
                      IN  /\ Convertible(answer)
                          /\ Assembled.reason = converted.reason
                          /\ Assembled.usage.output = converted.usage.output
                          /\ Assembled.usage.input = Estimate
                          /\ Len(Assembled.content) = Len(converted.content)
                          /\ \A k \in 1..Len(converted.content) :
                               /\ Assembled.content[k].data = converted.content[k].data
                               /\ Begins(Assembled.content[k].id, converted.content[k].id)
                               /\ Begins(Assembled.content[k].name, converted.content[k].name)
                          /\ ~said.late => Assembled.content = converted.content
    BY DEF SameContent
  <2> DEFINE a == Assembled
             c == ConvertResponse(answer)
             n == Cardinality(Seen)
             m == Lead
  <2>1. n \in Nat /\ m \in 0..1
    BY CompletedTools DEF Lead
  <2>2. /\ a.reason = StopReason[said.reason]
        /\ a.usage.input = Estimate /\ a.usage.output = Counted
        /\ a.content = [k \in 1..m + n |-> a.content[k]]
        /\ m = 1 => a.content[1] = Block(<<>>, <<>>, said.text)
        /\ \A k \in 1..n : IsTool(a.content[m + k], InOrder(Seen)[k])
    BY AssembledMessage
  <2>3. /\ Convertible(answer)
        /\ c.reason = StopReason[said.reason] /\ c.usage.output = Counted
        /\ c.content = [k \in 1..m + n |-> c.content[k]]
        /\ m = 1 => c.content[1] = Block(<<>>, <<>>, said.text)
        /\ \A k \in 1..n :
             c.content[m + k] = Block(parser.tools[InOrder(Seen)[k]].id,
                                      parser.tools[InOrder(Seen)[k]].name,
                                      said.arguments[InOrder(Seen)[k]])
    BY ConvertedMessage
  <2> HIDE DEF a, c, n, m
  <2>4. ASSUME NEW k \in 1..m + n
        PROVE  /\ a.content[k].data = c.content[k].data
               /\ Begins(a.content[k].id, c.content[k].id)
               /\ Begins(a.content[k].name, c.content[k].name)
               /\ ~said.late => a.content[k] = c.content[k]
    <3>1. CASE m = 1 /\ k = 1
      <4>1. Begins(<<>>, <<>>)
        <5>1. <<>> \in Seq({}) /\ <<>> \o <<>> = <<>>
          BY EmptySeq, ConcatEmptySeq
        <5>2. IsPrefix(<<>>, <<>>)
          BY <5>1, PrefixOfConcat
        <5> QED
          BY <5>2 DEF Begins
      <4> QED
        BY <2>2, <2>3, <3>1, <4>1 DEF Block
    <3>2. CASE ~(m = 1 /\ k = 1)
      <4>1. PICK j \in 1..n : k = m + j
        <5>1. k - m \in 1..n /\ k = m + (k - m)
          BY <2>1, <3>2
        <5> QED
          BY <5>1
      <4> DEFINE i == InOrder(Seen)[j]
                 p == parser.tools[i]
      <4>2. /\ IsTool(a.content[k], i)
            /\ c.content[k] = Block(p.id, p.name, said.arguments[i])
        BY <2>2, <2>3, <4>1
      <4> HIDE DEF i
      <4> QED
        BY <4>2 DEF IsTool, Block
    <3> QED
      BY <3>1, <3>2
  <2>5. /\ Len(a.content) = m + n /\ Len(c.content) = m + n
        /\ ~said.late => a.content = c.content
    <3> DEFINE f == a.content
               g == c.content
               l == m + n
    <3>1. l \in Nat /\ f = [k \in 1..l |-> f[k]] /\ g = [k \in 1..l |-> g[k]]
      BY <2>1, <2>2, <2>3
    <3>2. ~said.late => \A k \in 1..l : f[k] = g[k]
      BY <2>4
    <3> HIDE DEF f, g, l
    <3>3. Len(f) = l /\ Len(g) = l /\ (~said.late => f = g)
      BY <3>1, <3>2
    <3> QED
      BY <3>3 DEF f, g, l
  <2> QED
    BY <2>2, <2>3, <2>4, <2>5 DEF a, c
<1> QED
  BY <1>1, StreamInvariant, MessageInvariant, PTL
=============================================================================
