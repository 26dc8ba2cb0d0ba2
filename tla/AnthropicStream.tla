-------------------------- MODULE AnthropicStream --------------------------
(***************************************************************************)
(* What a client of the proxy may rely on about the server-sent events of  *)
(* one streamed message, whoever produces them: the message starts, blocks *)
(* follow one another with consecutive indexes, each is opened, filled and *)
(* closed, the message is summed up and stops; or it is cut short, by an   *)
(* error event at any point before the summary, or by silence.             *)
(***************************************************************************)
EXTENDS Integers, Sequences, FiniteSets, SequencesExt

VARIABLE log  \* the events the client has been sent: a type and an index each

Count(type) == Cardinality({i \in 1..Len(log) : log[i].type = type})

Said(type) == Count(type) > 0

Blocks == Count("content_block_start")

BlockOpen == Blocks > Count("content_block_stop")

Over == Said("message_stop") \/ Said("error")

\* Whether e may come next.
Allowed(e) ==
    \/ e.type = "message_start" /\ log = <<>>
    \/ /\ Said("message_start") /\ ~Over /\ ~Said("message_delta")
       /\ \/ e.type = "content_block_start" /\ ~BlockOpen /\ e.index = Blocks
          \/ /\ e.type \in {"content_block_delta", "content_block_stop"}
             /\ BlockOpen /\ e.index = Blocks - 1
          \/ e.type = "message_delta" /\ ~BlockOpen /\ Blocks > 0
          \/ e.type = "error"
    \/ e.type = "message_stop" /\ Said("message_delta") /\ ~Over

StreamInit == log = <<>>

StreamNext ==
    /\ Len(log') = Len(log) + 1
    /\ IsPrefix(log, log')
    /\ Allowed(Last(log'))

StreamSpec == StreamInit /\ [][StreamNext]_log
=============================================================================
