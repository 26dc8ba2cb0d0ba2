------------------------- MODULE StreamTranslation -------------------------
(***************************************************************************)
(* One streamed message on its way through the proxy: what the provider    *)
(* says is parsed (parse_sse in src/src/provider.rs), encoded for the      *)
(* client (StreamEncoder in src/src/anthropic.rs) and yielded one event at *)
(* a time by the body of the response (src/src/server.rs), while the       *)
(* provider may fall silent or break off and the client may go away.       *)
(*                                                                         *)
(* A chunk of the provider is taken part by part, in the order the parser  *)
(* visits the parts.  Text, ids, names and arguments are sequences of      *)
(* fragments; that a sequence of fragments is JSON is membership in        *)
(* ValidJson.  What may be missing is a set with one element or none.      *)
(***************************************************************************)
EXTENDS Integers, Sequences, FiniteSets, SequencesExt

CONSTANTS
    Indexes,     \* the indexes of the provider's tool calls
    Texts,       \* fragments of text
    Ids,         \* fragments of the ids of tool calls
    Names,       \* fragments of tool names
    Pieces,      \* fragments of tool arguments
    ValidJson,   \* the sequences of such fragments that are JSON
    Reasons,     \* the finish reasons that the provider gives
    Usages,      \* the counts of tokens that the provider gives
    Estimate,    \* the proxy's own count of the request's tokens
    MaxParts     \* bound: how many parts the provider says

\* map_stop_reason: the finish reasons of a provider that the proxy knows.
StopReason ==
    [stop |-> "end_turn", length |-> "max_tokens", content_filter |-> "refusal",
     tool_calls |-> "tool_use", function_call |-> "tool_use"]

StopReasons == {StopReason[reason] : reason \in DOMAIN StopReason}

Usage == [input : Nat, output : Nat]

ASSUME StreamAssumption ==
    /\ Reasons \subseteq DOMAIN StopReason
    /\ Indexes \subseteq Nat
    /\ ValidJson \subseteq Seq(Pieces)
    /\ Usages \subseteq Usage
    /\ Estimate \in Nat
    /\ MaxParts \in Nat

VARIABLES
    pc,       \* "reading", "finished", "closed" or "gone"
    parser,   \* the parser's tools and the last reason and usage it met
    encoder,  \* the StreamEncoder
    pending,  \* encoded events not yet yielded
    sent,     \* the events the client was sent
    said      \* history: what the provider has said, in how many parts, and
              \* whether it said more of an id or a name after the announcement

vars == <<pc, parser, encoder, pending, sent, said>>
-----------------------------------------------------------------------------
NoTool == [id |-> <<>>, name |-> <<>>, arguments |-> <<>>, started |-> FALSE, seen |-> FALSE]

\* seen is membership in the parser's HashMap.
StreamedTool == [id : Seq(Ids), name : Seq(Names), arguments : Seq(Pieces),
                 started : BOOLEAN, seen : BOOLEAN]

BufferedTool == [id : Seq(Ids), name : Seq(Names), arguments : Seq(Pieces)]

None == "none"

\* What may be missing, and its value if there is one.
Optional(S) == {{}} \union {{x} : x \in S}

ValueOr(S, default) == IF S = {} THEN default ELSE CHOOSE x \in S : TRUE

\* data is the text, the tool's name, its arguments or the stop reason.
Event(type, index, data, tokens) ==
    [type |-> type, index |-> index, id |-> <<>>, data |-> data, tokens |-> tokens]

Bare(type, index) == Event(type, index, <<>>, 0)

Events == [type : {"message_start", "content_block_start", "content_block_delta",
                   "content_block_stop", "message_delta", "message_stop", "error"},
           index : Nat,
           id : Seq(Ids),
           data : Seq(Texts \union Names \union Pieces \union StopReasons),
           tokens : Nat]

Init ==
    /\ pc = "reading"
    /\ parser = [tools |-> [i \in Indexes |-> NoTool], reason |-> None, usage |-> {}]
    /\ encoder = [nextBlock |-> 0, textBlock |-> -1, tools |-> <<>>,
                  usage |-> [input |-> Estimate, output |-> 0]]
    /\ pending = <<Event("message_start", 0, <<>>, Estimate)>>
    /\ sent = <<>>
    /\ said = [parts |-> 0, text |-> <<>>, arguments |-> [i \in Indexes |-> <<>>],
               reason |-> None, usage |-> {}, late |-> FALSE]

\* The body asks for the next event only when the last one's encoding has
\* been yielded.
Listening == pc = "reading" /\ pending = <<>>

Say == Listening /\ said.parts < MaxParts
-----------------------------------------------------------------------------
(* The encoder, for the text and at the end.                               *)

EncodeText(e, t) ==
    IF e.textBlock # -1 THEN << Event("content_block_delta", e.textBlock, <<t>>, 0) >>
    ELSE << Bare("content_block_start", e.nextBlock),
            Event("content_block_delta", e.nextBlock, <<t>>, 0) >>

\* The elements of S from the least to the greatest.
InOrder(S) ==
    [k \in 1..Cardinality(S) |-> CHOOSE i \in S : Cardinality({j \in S : j < i}) = k - 1]

\* The start of a tool's block.
ToolOpens(tool, block) ==
    [type |-> "content_block_start", index |-> block, id |-> tool.id, data |-> tool.name,
     tokens |-> 0]

\* Mutant: the numbering of the tools forgets the block of the text.
ToolBlocksFromZero(e) ==
    FlattenSeq([k \in 1..Cardinality(DOMAIN e.tools) |->
        LET tool == e.tools[InOrder(DOMAIN e.tools)[k]]
        IN  << ToolOpens(tool, k - 1),
               Event("content_block_delta", k - 1, tool.arguments, 0),
               Bare("content_block_stop", k - 1) >>])

ToolBlock(tool, block) ==
    << ToolOpens(tool, block),
       Event("content_block_delta", block, tool.arguments, 0),
       Bare("content_block_stop", block) >>

\* The tools, in the order of their indexes.
ToolBlocks(e) ==
    FlattenSeq([k \in 1..Cardinality(DOMAIN e.tools) |->
        ToolBlock(e.tools[InOrder(DOMAIN e.tools)[k]], e.nextBlock + k - 1)])

\* The block of the text is closed; a message of nothing gets an empty one.
TextEnd(e) ==
    IF e.textBlock # -1 THEN << Bare("content_block_stop", e.textBlock) >>
    ELSE IF DOMAIN e.tools = {}
    THEN << Bare("content_block_start", e.nextBlock), Bare("content_block_stop", e.nextBlock) >>
    ELSE <<>>

\* Only the count of output tokens is put into the summary.
EncodeFinished(e, reason, usage) ==
    TextEnd(e) \o ToolBlocks(e)
      \o << Event("message_delta", 0, <<reason>>, ValueOr(usage, e.usage).output),
            Bare("message_stop", 0) >>
-----------------------------------------------------------------------------
(* The provider speaks.                                                    *)

\* Mutant: the encoder does not remember the block it opened for the text.
SayTextForgetful(t) ==
    /\ Say
    /\ pending' = EncodeText(encoder, t)
    /\ encoder' = [encoder EXCEPT !.nextBlock = @ + 1]
    /\ said' = [said EXCEPT !.parts = @ + 1, !.text = Append(@, t)]
    /\ UNCHANGED <<pc, parser, sent>>

SayText(t) ==
    /\ Say
    /\ pending' = EncodeText(encoder, t)
    /\ encoder' = IF encoder.textBlock # -1 THEN encoder
                  ELSE [encoder EXCEPT !.textBlock = encoder.nextBlock, !.nextBlock = @ + 1]
    /\ said' = [said EXCEPT !.parts = @ + 1, !.text = Append(@, t)]
    /\ UNCHANGED <<pc, parser, sent>>

\* What the parser makes of one fragment of a tool call.
Grown(tool, id, name, arguments) ==
    [id |-> tool.id \o id, name |-> tool.name \o name, arguments |-> tool.arguments \o arguments,
     started |-> tool.started \/ (tool.id \o id # <<>> /\ tool.name \o name # <<>>),
     seen |-> TRUE]

\* Mutant: arguments that came before the id and the name are not passed on.
ForwardedLate(tool, grown, arguments) ==
    IF ~grown.started THEN <<>> ELSE arguments

\* What it passes on to the encoder: at the start also what was held back.
Forwarded(tool, grown, arguments) ==
    IF ~grown.started THEN <<>>
    ELSE IF tool.started THEN arguments ELSE tool.arguments \o arguments

\* After the start nothing passes on what comes of the id and the name.
SayTool(i, id, name, arguments) ==
    LET tool == parser.tools[i]
        grown == Grown(tool, id, name, arguments)
        delta == Forwarded(tool, grown, arguments)
    IN  /\ Say
        /\ parser' = [parser EXCEPT !.tools[i] = grown]
        /\ encoder' =
             IF ~grown.started THEN encoder
             ELSE IF ~tool.started  \* ToolStart inserts, ToolDelta appends
             THEN [encoder EXCEPT !.tools =
                     [j \in {i} \union DOMAIN @ |->
                        IF j = i THEN [id |-> grown.id, name |-> grown.name, arguments |-> delta]
                        ELSE @[j]]]
             ELSE [encoder EXCEPT !.tools[i].arguments = @ \o delta]
        /\ said' = [said EXCEPT !.parts = @ + 1, !.arguments[i] = @ \o arguments,
                                !.late = @ \/ (tool.started /\ (id # <<>> \/ name # <<>>))]
        /\ UNCHANGED <<pc, pending, sent>>

SayUsage(u) ==
    /\ Say
    /\ parser' = [parser EXCEPT !.usage = {u}]
    /\ encoder' = [encoder EXCEPT !.usage = u]
    /\ said' = [said EXCEPT !.parts = @ + 1, !.usage = {u}]
    /\ UNCHANGED <<pc, pending, sent>>

SayReason(reason) ==
    /\ Say
    /\ parser' = [parser EXCEPT !.reason = StopReason[reason]]
    /\ said' = [said EXCEPT !.parts = @ + 1, !.reason = reason]
    /\ UNCHANGED <<pc, encoder, pending, sent>>
-----------------------------------------------------------------------------
(* The end of the stream.                                                  *)

Fail ==
    /\ pc' = "finished"
    /\ pending' = <<Bare("error", 0)>>
    /\ UNCHANGED <<parser, encoder, sent, said>>

\* Mutant: the arguments are taken to be complete.
ToolsUnchecked(tools) == \A i \in Indexes : tools[i].seen => tools[i].started

\* validate_streamed_tools
ToolsValid(tools) ==
    \A i \in Indexes : tools[i].seen => tools[i].started /\ tools[i].arguments \in ValidJson

\* [DONE], or the end of the bytes: the same checks either way.  The encoder
\* is not used again, so what encoding the end does to it is left out.
UpstreamEnds ==
    /\ Listening
    /\ \/ /\ ToolsValid(parser.tools) /\ parser.reason # None
          /\ pc' = "finished"
          /\ pending' = EncodeFinished(encoder, parser.reason, parser.usage)
          /\ UNCHANGED <<parser, encoder, sent, said>>
       \/ ~(ToolsValid(parser.tools) /\ parser.reason # None) /\ Fail

\* The connection is lost, or the provider says something unintelligible:
\* no UTF-8, no JSON, a call without index, a finish reason unknown.
UpstreamBreaks == Listening /\ Fail

\* Mutant: the timer gives up without a word to the client.
IdleTimeoutSilent == Listening /\ FALSE

\* stream_idle_timeout
IdleTimeout == Listening /\ Fail
-----------------------------------------------------------------------------
(* The client.                                                             *)

Yield ==
    /\ pc \in {"reading", "finished"}
    /\ pending # <<>>
    /\ sent' = Append(sent, Head(pending))
    /\ pending' = Tail(pending)
    /\ UNCHANGED <<pc, parser, encoder, said>>

\* After its last event the body ends.
Close ==
    /\ pc = "finished"
    /\ pending = <<>>
    /\ pc' = "closed"
    /\ UNCHANGED <<parser, encoder, pending, sent, said>>

\* The body is dropped, between any two events or while it waits.
ClientLeaves ==
    /\ pc \in {"reading", "finished"}
    /\ pc' = "gone"
    /\ UNCHANGED <<parser, encoder, pending, sent, said>>

Short(S) == {<<>>} \union {<<s>> : s \in S}

Next ==
    \/ \E t \in Texts : SayText(t)
    \/ \E i \in Indexes, id \in Short(Ids), name \in Short(Names),
         arguments \in Short(Pieces) : SayTool(i, id, name, arguments)
    \/ \E u \in Usages : SayUsage(u)
    \/ \E reason \in Reasons : SayReason(reason)
    \/ UpstreamEnds
    \/ UpstreamBreaks
    \/ IdleTimeout
    \/ Yield
    \/ Close
    \/ ClientLeaves

Spec == Init /\ [][Next]_vars

\* A client that stays reads on, and the idle timer runs whenever the body
\* waits for the provider, which need not say anything.
Fairness == WF_vars(Yield) /\ WF_vars(Close) /\ WF_vars(IdleTimeout)

FairSpec == Spec /\ Fairness
-----------------------------------------------------------------------------
(* Properties                                                              *)

\* The state has the shape the code gives it, and the encoder holds just the
\* tools that the parser has announced.
TypeOK ==
    /\ pc \in {"reading", "finished", "closed", "gone"}
    /\ parser.tools \in [Indexes -> StreamedTool]
    /\ parser.reason \in StopReasons \union {None}
    /\ parser.usage \in Optional(Usages)
    /\ encoder.nextBlock \in 0..1 /\ encoder.textBlock \in {-1, 0}
    /\ DOMAIN encoder.tools = {i \in Indexes : parser.tools[i].started}
    /\ \A i \in DOMAIN encoder.tools : encoder.tools[i] \in BufferedTool
    /\ encoder.usage \in Usage
    /\ pending \in Seq(Events) /\ sent \in Seq(Events)

Client == INSTANCE AnthropicStream WITH log <- sent

\* What reaches the client is a well-formed Anthropic stream up to wherever it
\* was cut: blocks never overlap or skip an index, an error is the last word,
\* and a message that failed is never also reported as complete.
ObeysProtocol == Client!StreamSpec

Completed == \E k \in 1..Len(sent) : sent[k].type = "message_stop"

\* A message is reported as complete only if the provider gave a reason to
\* stop and every tool call it began was whole: a truncated stream is an
\* error, however much of it looked fine (provider.rs test rejects_truncated_stream).
CompleteOnlyIfWhole ==
    Completed => /\ said.reason # None
                 /\ \A i \in Indexes : parser.tools[i].seen =>
                      parser.tools[i].started /\ said.arguments[i] \in ValidJson

\* What events bring of text and tool arguments, put together.
Carried(events) ==
    FlattenSeq([k \in 1..Len(events) |->
        IF events[k].type = "content_block_delta" THEN events[k].data ELSE <<>>])

\* The tools the provider has begun to call, and their arguments from all its
\* fragments.
Seen == {i \in Indexes : parser.tools[i].seen}

SaidArguments ==
    FlattenSeq([k \in 1..Cardinality(Seen) |-> said.arguments[InOrder(Seen)[k]]])

\* A complete message holds everything the provider said and nothing else: all
\* text, in order and in one block, then the arguments of each tool call, put
\* together from its fragments wherever they came, in the order of the indexes:
\* also what came before the call had an id and a name to be announced with.
NothingLost == Completed => Carried(sent) = said.text \o SaidArguments

\* A client that stays is told how the message ended, even by a provider that
\* never says another word: with the message, or with an error.
EveryStreamEnds ==
    <>(\/ pc = "gone"
       \/ pc = "closed" /\ sent[Len(sent)].type \in {"message_stop", "error"})
=============================================================================
