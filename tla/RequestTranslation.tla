------------------------- MODULE RequestTranslation -------------------------
(***************************************************************************)
(* A request on its way to a provider: a client composes a conversation,   *)
(* the proxy validates it (normalize in src/src/anthropic.rs), bends it to *)
(* what a provider can do (adapt_request in src/src/provider.rs) and puts  *)
(* it in the provider's terms (convert_messages, build_request).           *)
(*                                                                         *)
(* Every block of content carries a tag, its place in the conversation, in *)
(* place of its payload.  Whatever else makes the JSON of a request or of  *)
(* a block unacceptable is its flaw: "none", "unknown" for a field that    *)
(* only strict validation refuses, "broken" for anything always refused.   *)
(***************************************************************************)
EXTENDS Integers, Sequences, FiniteSets, SequencesExt

CONSTANTS
    Blocks,        \* the blocks a client may write, without their tags
    Options,       \* the rest of a request: hints, tools, choice, thinking, flaw
    Capabilities,  \* the capability profiles a provider may have
    Strict,        \* server.loose_input_validation is off
    MaxBlocks      \* bound: blocks in a conversation

Roles == {"user", "assistant", "system"}

\* What a target may lack and a fallback flag may give up: a max_tokens above
\* the target's limit, the samplers, the stop sequences.
Hints == {"max_tokens", "temperature", "top_p", "stop"}

\* id is the call a tool_use makes or a tool_result answers.
BlockShape == [type : {"text", "image", "tool_use", "tool_result"}, id : STRING,
               structured : BOOLEAN, flaw : {"none", "unknown", "broken"}]

ChoiceShape == [kind : {"absent", "auto", "any", "none", "tool", "undefined"}, parallel : BOOLEAN]

ASSUME TranslationAssumption ==
    /\ Blocks \subseteq BlockShape
    /\ \A block \in Blocks : block.structured => block.type = "tool_result"
    /\ Options \subseteq [hints : SUBSET Hints, tools : {"none", "some", "bad"},
                          choice : ChoiceShape, thinking : BOOLEAN,
                          flaw : {"none", "unknown", "broken"}]
    /\ Capabilities \subseteq [supports : SUBSET Hints, fallback : SUBSET Hints,
                               vision : BOOLEAN, tools : BOOLEAN,
                               parallel : BOOLEAN, serialize : BOOLEAN, stringify : BOOLEAN]
    /\ Strict \in BOOLEAN /\ MaxBlocks \in Nat

\* There is no request yet, or no target.
None == <<>>

VARIABLES
    stage,     \* "writing", "accepted", "adapted", "sent", or how it was refused
    messages,  \* the conversation: each message has a role and blocks
    options,   \* the rest of the request, once accepted
    target,    \* the capabilities of the provider it is adapted to
    sent       \* the messages of the provider's request

vars == <<stage, messages, options, target, sent>>

Refusals == {"invalid", "incapable", "unsendable"}

Flat(msgs) ==
    FlattenSeq([k \in 1..Len(msgs) |->
        [i \in 1..Len(msgs[k].blocks) |-> [role |-> msgs[k].role, block |-> msgs[k].blocks[i]]]])

Init ==
    /\ stage = "writing"
    /\ messages = <<>>
    /\ options = None
    /\ target = None
    /\ sent = <<>>

\* The client adds a block to its last message or begins another.
Write(role, block) ==
    LET tagged == [type |-> block.type, id |-> block.id, structured |-> block.structured,
                   flaw |-> block.flaw, tag |-> Len(Flat(messages)) + 1]
    IN  /\ stage = "writing"
        /\ Len(Flat(messages)) < MaxBlocks
        /\ \/ messages' = Append(messages, [role |-> role, blocks |-> <<tagged>>])
           \/ /\ messages # <<>> /\ Last(messages).role = role
              /\ messages' = [messages EXCEPT ![Len(messages)].blocks = Append(@, tagged)]
        /\ UNCHANGED <<stage, options, target, sent>>
-----------------------------------------------------------------------------
(* Validation.                                                             *)

Flawless(flaw) == flaw = "none" \/ (flaw = "unknown" /\ ~Strict)

\* Mutant: a call may be answered again.
RememberedForgets(past, entry) ==
    LET b == entry.block
    IN  IF b.type = "tool_use"
        THEN [past EXCEPT !.calls = @ \union {b.id},
                !.valid = @ /\ entry.role = "assistant" /\ b.id # "" /\ b.id \notin past.calls]
        ELSE IF b.type = "tool_result"
        THEN [past EXCEPT !.valid = @ /\ entry.role = "user" /\ b.id \in past.calls]
        ELSE past

\* Mutant: anybody may call a tool.
RememberedAnyCaller(past, entry) ==
    LET b == entry.block
    IN  IF b.type = "tool_use"
        THEN [past EXCEPT !.calls = @ \union {b.id},
                !.valid = @ /\ b.id # "" /\ b.id \notin past.calls]
        ELSE IF b.type = "tool_result"
        THEN [past EXCEPT !.results = @ \union {b.id},
                !.valid = @ /\ entry.role = "user" /\ b.id \in past.calls
                            /\ b.id \notin past.results]
        ELSE past

\* What one block adds to the ids called and answered so far, and whether it may.
Remembered(past, entry) ==
    LET b == entry.block
    IN  IF b.type = "tool_use"
        THEN [past EXCEPT !.calls = @ \union {b.id},
                !.valid = @ /\ entry.role = "assistant" /\ b.id # "" /\ b.id \notin past.calls]
        ELSE IF b.type = "tool_result"
        THEN [past EXCEPT !.results = @ \union {b.id},
                !.valid = @ /\ entry.role = "user" /\ b.id \in past.calls
                            /\ b.id \notin past.results]
        ELSE past

\* One pass over all blocks.
Pass(flat) ==
    LET pass[n \in 0..Len(flat)] ==
            IF n = 0 THEN [calls |-> {}, results |-> {}, valid |-> TRUE]
            ELSE Remembered(pass[n - 1], flat[n])
    IN  pass[Len(flat)]

\* validate_tool_history
ToolHistoryValid(msgs) == Pass(Flat(msgs)).valid

ChoiceValid(choice, tools) ==
    /\ choice.kind # "undefined"
    /\ choice.kind \in {"any", "tool"} => tools = "some"

\* normalize.  thinking is read and not looked at.
Normalizes(msgs, opts) ==
    /\ msgs # <<>>
    /\ Flawless(opts.flaw)
    /\ \A k \in 1..Len(msgs) : \A i \in 1..Len(msgs[k].blocks) : Flawless(msgs[k].blocks[i].flaw)
    /\ ToolHistoryValid(msgs)
    /\ opts.tools # "bad"
    /\ ChoiceValid(opts.choice, opts.tools)

\* The client sends what it has written, with the rest of its request.
Normalize(opts) ==
    /\ stage = "writing"
    /\ \/ /\ Normalizes(messages, opts)
          /\ stage' = "accepted"
          /\ options' = opts
       \/ /\ ~Normalizes(messages, opts)
          /\ stage' = "invalid"
          /\ UNCHANGED options
    /\ UNCHANGED <<messages, target, sent>>
-----------------------------------------------------------------------------
(* Adaptation to a target.                                                 *)

\* The choices that leave several calls at once to the model.
MayCallInParallel(choice) == choice.kind \in {"auto", "any", "tool"} /\ choice.parallel

\* Mutant: what a target lacks is given up whether or not it may be.
AdaptableAlways(msgs, opts, cap) ==
    /\ opts.tools = "some" => cap.tools
    /\ MayCallInParallel(opts.choice) => cap.parallel \/ cap.serialize
    /\ \A entry \in Range(Flat(msgs)) :
         /\ entry.block.type = "image" => cap.vision
         /\ entry.block.type = "tool_result" /\ entry.block.structured => cap.stringify

Adaptable(msgs, opts, cap) ==
    /\ opts.hints \ cap.supports \subseteq cap.fallback
    /\ opts.tools = "some" => cap.tools
    /\ MayCallInParallel(opts.choice) => cap.parallel \/ cap.serialize
    /\ \A entry \in Range(Flat(msgs)) :
         /\ entry.block.type = "image" => cap.vision
         /\ entry.block.type = "tool_result" /\ entry.block.structured => cap.stringify

AdaptedOptions(opts, cap) ==
    [opts EXCEPT !.hints = @ \intersect cap.supports,
                 !.choice.parallel = @ /\ (MayCallInParallel(opts.choice) => cap.parallel)]

Stringified(b) == IF b.type = "tool_result" THEN [b EXCEPT !.structured = FALSE] ELSE b

AdaptedMessages(msgs) ==
    [k \in 1..Len(msgs) |-> [msgs[k] EXCEPT !.blocks =
        [i \in 1..Len(@) |-> Stringified(@[i])]]]

\* adapt_request works on a copy for each target; one copy is followed.
Adapt(cap) ==
    /\ stage = "accepted"
    /\ target' = cap
    /\ \/ /\ Adaptable(messages, options, cap)
          /\ stage' = "adapted"
          /\ messages' = AdaptedMessages(messages)
          /\ options' = AdaptedOptions(options, cap)
       \/ /\ ~Adaptable(messages, options, cap)
          /\ stage' = "incapable"
          /\ UNCHANGED <<messages, options>>
    /\ UNCHANGED sent
-----------------------------------------------------------------------------
(* Conversion.                                                             *)

OfType(blocks, types) ==
    FlattenSeq([i \in 1..Len(blocks) |->
        IF blocks[i].type \in types THEN << blocks[i] >> ELSE <<>>])

Tags(blocks) == [i \in 1..Len(blocks) |-> blocks[i].tag]

Ids(blocks) == [i \in 1..Len(blocks) |-> blocks[i].id]

Message(role, parts, calls, answers) ==
    [role |-> role, parts |-> parts, calls |-> calls, answers |-> answers]

\* Mutant: what a user says beside a tool's result is left out.
ConvertUserResults(m) ==
    LET results == OfType(m.blocks, {"tool_result"})
        content == OfType(m.blocks, {"text", "image"})
    IN  IF results # <<>>
        THEN [i \in 1..Len(results) |-> Message("tool", <<results[i].tag>>, <<>>, results[i].id)]
        ELSE <<Message(m.role, Tags(content), <<>>, "")>>

\* The tools' results first, each a message of its own, then the rest.
ConvertUser(m) ==
    LET results == OfType(m.blocks, {"tool_result"})
        content == OfType(m.blocks, {"text", "image"})
    IN  [i \in 1..Len(results) |-> Message("tool", <<results[i].tag>>, <<>>, results[i].id)]
          \o (IF content = <<>> THEN <<>> ELSE <<Message(m.role, Tags(content), <<>>, "")>>)

\* Mutant: an assistant's message without text is left out.
ConvertAssistantText(m) ==
    LET text == OfType(m.blocks, {"text"})
        calls == OfType(m.blocks, {"tool_use"})
    IN  IF text = <<>> THEN <<>>
        ELSE <<Message("assistant", Tags(text), Ids(calls), "")>>

ConvertAssistant(m) ==
    LET calls == OfType(m.blocks, {"tool_use"})
    IN  <<Message("assistant", Tags(OfType(m.blocks, {"text"})),
                  Ids(calls), "")>>

Convertible(m) ==
    IF m.role = "assistant"
    THEN \A b \in Range(m.blocks) : b.type \in {"text", "tool_use"}
    ELSE \A b \in Range(m.blocks) : b.type # "tool_use" /\ ~b.structured

ConvertMessages(msgs) ==
    FlattenSeq([k \in 1..Len(msgs) |->
        IF msgs[k].role = "assistant" THEN ConvertAssistant(msgs[k]) ELSE ConvertUser(msgs[k])])

\* build_request: only what is present is sent, so that a choice that is
\* absent leaves parallel calls at the provider's default.
Build ==
    /\ stage = "adapted"
    /\ \/ /\ \A m \in Range(messages) : Convertible(m)
          /\ stage' = "sent"
          /\ sent' = ConvertMessages(messages)
       \/ /\ \E m \in Range(messages) : ~Convertible(m)
          /\ stage' = "unsendable"
          /\ UNCHANGED sent
    /\ UNCHANGED <<messages, options, target>>

Next ==
    \/ \E role \in Roles, block \in Blocks : Write(role, block)
    \/ \E opts \in Options : Normalize(opts)
    \/ \E cap \in Capabilities : Adapt(cap)
    \/ Build

Spec == Init /\ [][Next]_vars
-----------------------------------------------------------------------------
(* Properties                                                              *)

Tagged == [type : {"text", "image", "tool_use", "tool_result"}, id : STRING,
           structured : BOOLEAN, flaw : {"none", "unknown", "broken"}, tag : 1..MaxBlocks]

\* The state has the shape the code gives it, and a request that is sent has
\* something to say.
TypeOK ==
    /\ stage \in {"writing", "accepted", "adapted", "sent"} \union Refusals
    /\ messages \in Seq([role : Roles, blocks : Seq(Tagged)])
    /\ options = None <=> stage \in {"writing", "invalid"}
    /\ target \in Capabilities \union {None}
    /\ \A k \in 1..Len(sent) : sent[k].role \in Roles \union {"tool"}
    /\ stage = "sent" <=> sent # <<>>

Entry(k) == Flat(messages)[k]

Places(type) == {k \in 1..Len(Flat(messages)) : Entry(k).block.type = type}

\* The one pass of validate_tool_history finds out what it is meant to: calls
\* are the assistant's and have different ids, and every result is the user's
\* and the only one that answers a call made before it.
HistoryAsDefined ==
    LET flat == Flat(messages)
        Of(type) == {k \in 1..Len(flat) : flat[k].block.type = type}
    IN  stage = "writing" => (ToolHistoryValid(messages) <=>
        /\ \A k \in Of("tool_use") :
             /\ flat[k].role = "assistant" /\ flat[k].block.id # ""
             /\ \A j \in Of("tool_use") : flat[j].block.id = flat[k].block.id => j = k
        /\ \A k \in Of("tool_result") :
             /\ flat[k].role = "user"
             /\ \E j \in Of("tool_use") : j < k /\ flat[j].block.id = flat[k].block.id
             /\ \A j \in Of("tool_result") : flat[j].block.id = flat[k].block.id => j = k)

\* In what the provider is sent, every tool message answers a call of an
\* earlier assistant message, once, although the results of a message are
\* moved before the rest of it.
ResultsFollowCalls ==
    \A k \in 1..Len(sent) : sent[k].role = "tool" =>
        /\ \E j \in 1..(k - 1) : sent[k].answers \in Range(sent[j].calls)
        /\ \A j \in 1..Len(sent) : sent[j].role = "tool" /\ sent[j].answers = sent[k].answers => j = k

SentParts(roles) ==
    FlattenSeq([k \in 1..Len(sent) |-> IF sent[k].role \in roles THEN sent[k].parts ELSE <<>>])

Written == [k \in 1..Len(Flat(messages)) |-> Entry(k).block]

SentCalls == FlattenSeq([k \in 1..Len(sent) |-> sent[k].calls])

\* The provider is sent the whole conversation: all text and images in the
\* order they were written, all results and all calls in theirs.
NothingLeftOut ==
    stage = "sent" =>
        /\ SentParts(Roles) = Tags(OfType(Written, {"text", "image"}))
        /\ SentParts({"tool"}) = Tags(OfType(Written, {"tool_result"}))
        /\ SentCalls = Ids(OfType(Written, {"tool_use"}))

\* README.md:11 "Validation and capability failures return 400": a request
\* that was accepted and adapted can be sent, but for an image an assistant
\* is said to have shown, which only the conversion refuses.
UnsendableOnlyImages ==
    stage = "unsendable" =>
        \E k \in Places("image") : Entry(k).role = "assistant"

\* A target is asked for nothing that it does not support, and the request
\* loses nothing on the way there that the target's profile does not allow to
\* give up.
TargetRespected ==
    [][stage' = "adapted" =>
        /\ options'.hints \subseteq target'.supports
        /\ options.hints \ options'.hints \subseteq target'.fallback \ target'.supports
        /\ options.tools = "some" => target'.tools
        /\ Places("image") # {} => target'.vision
        /\ MayCallInParallel(options'.choice) => target'.parallel
        /\ options'.choice # options.choice => target'.serialize
        /\ messages' # messages => target'.stringify]_vars

\* README.md:5 "`routing` selects only targets whose declared capabilities
\* preserve the request": a target without parallel tools is sent a request
\* with tools only if it says that calls are not to be made in parallel.
ParallelToolsDeclared ==
    stage = "sent" /\ options.tools = "some" /\ ~target.parallel =>
        options.choice.kind = "none" \/ (options.choice.kind # "absent" /\ ~options.choice.parallel)

\* anthropic.rs:665, the test rejects_silent_semantic_loss: a request that
\* asks for thinking is refused.
ThinkingRefused == stage = "accepted" => ~options.thinking
=============================================================================
