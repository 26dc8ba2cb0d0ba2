--------------------------- MODULE MCTranslation ---------------------------
(* Small instances of RequestTranslation: conversations with two calls, the *)
(* combinations of options that matter, and the profiles that the          *)
(* documentation tells apart, each with one thing missing.                 *)
EXTENDS RequestTranslation

Block(type, id, structured, flaw) ==
    [type |-> type, id |-> id, structured |-> structured, flaw |-> flaw]

MCConversation ==
    {Block(type, "", FALSE, "none") : type \in {"text", "image"}}
        \union {Block("tool_use", id, FALSE, "none") : id \in {"c1", "c2"}}
        \union {Block("tool_result", "c1", TRUE, "none"), Block("tool_result", "c2", FALSE, "none")}

MCFlaws == {Block("text", "", FALSE, flaw) : flaw \in {"none", "unknown", "broken"}}

Option(hints, tools, choice, parallel, thinking, flaw) ==
    [hints |-> hints, tools |-> tools, choice |-> [kind |-> choice, parallel |-> parallel],
     thinking |-> thinking, flaw |-> flaw]

MCOptions ==
    {Option({"max_tokens", "temperature"}, "none", "absent", TRUE, FALSE, "none")}
    \union {Option({}, "some", choice, TRUE, FALSE, "none") : choice \in {"absent", "auto", "none"}}
    \union {Option({"stop"}, "some", "tool", FALSE, FALSE, "none"),
            Option({}, "none", "any", TRUE, FALSE, "none"),
            Option({}, "none", "absent", TRUE, FALSE, "unknown")}

MCAllOptions ==
    {Option({}, tools, choice, parallel, thinking, flaw) :
        tools \in {"none", "some", "bad"}, parallel \in BOOLEAN, thinking \in BOOLEAN,
        choice \in {"absent", "auto", "any", "none", "tool", "undefined"},
        flaw \in {"none", "unknown", "broken"}}

Profile ==
    [supports |-> Hints, fallback |-> {}, vision |-> TRUE, tools |-> TRUE, parallel |-> TRUE,
     serialize |-> FALSE, stringify |-> TRUE]

MCCapabilities ==
    {Profile, [Profile EXCEPT !.vision = FALSE], [Profile EXCEPT !.tools = FALSE],
     [Profile EXCEPT !.stringify = FALSE], [Profile EXCEPT !.parallel = FALSE],
     [Profile EXCEPT !.parallel = FALSE, !.serialize = TRUE],
     [Profile EXCEPT !.supports = {"temperature"}],
     [Profile EXCEPT !.supports = {"temperature"}, !.fallback = {"max_tokens", "top_p"}],
     [Profile EXCEPT !.supports = {}, !.fallback = Hints]}
=============================================================================
