------------------------- MODULE ResponseConversion -------------------------
(***************************************************************************)
(* The answer to a request that does not ask for a stream                  *)
(* (convert_response in src/src/provider.rs, response_content in           *)
(* src/src/anthropic.rs), next to the stream that says the same: how far   *)
(* a client that asks either way is given the same message.                *)
(*                                                                         *)
(* A block of text has no id and no name.  The id of the message is left   *)
(* out: it is the provider's in an answer and the proxy's own in a stream. *)
(***************************************************************************)
EXTENDS StreamTranslation

Block(id, name, data) == [id |-> id, name |-> name, data |-> data]

ToolUse(tool) == Block(tool.id, tool.name, tool.arguments)

\* Mutant: text beside tool calls is left out.
ResponseContentEither(text, tools) ==
    IF tools # <<>> THEN [k \in 1..Len(tools) |-> ToolUse(tools[k])]
    ELSE << Block(<<>>, <<>>, text) >>

\* response_content: no empty block of text, unless it is the only one.
ResponseContent(text, tools) ==
    LET blocks == (IF text = <<>> THEN <<>> ELSE << Block(<<>>, <<>>, text) >>)
                    \o [k \in 1..Len(tools) |-> ToolUse(tools[k])]
    IN  IF blocks = <<>> THEN << Block(<<>>, <<>>, <<>>) >> ELSE blocks

Uncounted == [input |-> 0, output |-> 0]

\* What convert_response does not refuse: an answer with a choice, whose
\* tool arguments are JSON and whose finish reason is known or left out.
Convertible(response) ==
    /\ response.choices # <<>>
    /\ \A k \in 1..Len(response.choices[1].tools) :
         response.choices[1].tools[k].arguments \in ValidJson
    /\ response.choices[1].reason \subseteq DOMAIN StopReason

\* The first choice; a refusal stands in for content that is not there.
ConvertResponse(response) ==
    LET choice == response.choices[1]
        text == ValueOr(choice.content, ValueOr(choice.refusal, <<>>))
    IN  [content |-> ResponseContent(text, choice.tools),
         reason  |-> StopReason[ValueOr(choice.reason, "stop")],
         usage   |-> ValueOr(response.usage, Uncounted)]
-----------------------------------------------------------------------------
(* The two forms of one message.                                           *)

\* The answers that say what the provider has said in the stream so far: the
\* calls in the order of their indexes, with all that the parser has got of
\* their ids and names; content may be empty or left out.
Answers ==
    LET order == InOrder(Seen)
        tools == [k \in 1..Len(order) |-> [id        |-> parser.tools[order[k]].id,
                                           name      |-> parser.tools[order[k]].name,
                                           arguments |-> said.arguments[order[k]]]]
    IN  {[choices |-> << [content |-> content, refusal |-> {}, tools |-> tools,
                          reason |-> {said.reason}] >>,
          usage   |-> said.usage] :
           content \in IF said.text = <<>> THEN {{}, {<<>>}} ELSE {{said.text}}}

OfType(events, type) ==
    FlattenSeq([k \in 1..Len(events) |->
        IF events[k].type = type THEN <<events[k]>> ELSE <<>>])

\* What a client finds in the block with this index.
Filled(events, index) ==
    FlattenSeq([k \in 1..Len(events) |->
        IF events[k].type = "content_block_delta" /\ events[k].index = index
        THEN events[k].data ELSE <<>>])

\* What a client makes of the events it was sent: the input tokens are in
\* message_start, the output tokens in message_delta.
Assembled ==
    LET starts  == OfType(sent, "content_block_start")
        summary == OfType(sent, "message_delta")[1]
    IN  [content |-> [k \in 1..Len(starts) |->
                        Block(starts[k].id, starts[k].data, Filled(sent, starts[k].index))],
         reason  |-> summary.data[1],
         usage   |-> [input  |-> OfType(sent, "message_start")[1].tokens,
                      output |-> summary.tokens]]

\* s is the whole of t, or t without its end, but never without all of it.
Begins(s, t) == IsPrefix(s, t) /\ (s = <<>>) = (t = <<>>)

\* A client that asks for a stream is given the content that it would have been
\* given without: the same blocks in the same order with all their text and
\* arguments, the last reason to stop and the last count of output tokens that
\* the provider gave, whatever came after them.  Two things differ.  Of the id
\* and the name of a tool the stream lacks what the provider said after the
\* call was announced (provider.rs:619-623); where it said nothing so late, the
\* blocks are the very same.  And the input tokens are the proxy's estimate
\* (anthropic.rs:476), never the provider's count (anthropic.rs:576), which the
\* answer has (provider.rs:545).
SameContent ==
    Completed => \A answer \in Answers :
        LET converted == ConvertResponse(answer)
        IN  /\ Convertible(answer)
            /\ Assembled.reason = converted.reason
            /\ Assembled.usage.output = converted.usage.output
            /\ Assembled.usage.input = Estimate
            /\ Len(Assembled.content) = Len(converted.content)
            /\ \A k \in 1..Len(converted.content) :
                 /\ Assembled.content[k].data = converted.content[k].data
                 /\ Begins(Assembled.content[k].id, converted.content[k].id)
                 /\ Begins(Assembled.content[k].name, converted.content[k].name)
            /\ ~said.late => Assembled.content = converted.content
=============================================================================
