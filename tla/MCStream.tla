------------------------------ MODULE MCStream ------------------------------
(* A small instance of StreamTranslation: two tool calls whose arguments   *)
(* come in two fragments each, around text of two different fragments.     *)
EXTENDS ResponseConversion

MCIndexes == {0, 1}
MCTexts == {"hel", "lo"}
MCIds == {"call"}
MCNames == {"lookup"}
MCPieces == {"{", "}"}
MCValidJson == {<<"{", "}">>}
MCReasons == {"stop", "tool_calls"}
MCUsages == {[input |-> 5, output |-> 7], [input |-> 5, output |-> 9]}
=============================================================================
