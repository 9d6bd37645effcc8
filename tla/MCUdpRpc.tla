------------------------------ MODULE MCUdpRpc ------------------------------
(***************************************************************************)
(* UdpRpc for TLC.  The payloads are those of the service; PromptChunks    *)
(* and ReplyChunks say how many fragments a prompt and a reply take.       *)
(***************************************************************************)
EXTENDS UdpRpc, TLC

CONSTANTS
    c1, c2, s,      \* processes
    PromptChunks,   \* PromptChunks[c]: fragments of a prompt of client c
    ReplyChunks     \* fragments of a reply

MCEndpoint == Client \cup {Server}
MCMsgId    == 1 .. Turns + 1
MCText     ==
    Prompts \cup {ReplyTo(p) : p \in Prompts} \cup {GarbledReply, ShutdownText}

ChunksOf(text) ==
    CASE text = ShutdownText        -> 1
      [] text.role = "assistant"    -> ReplyChunks
      [] text.role = "user"         -> PromptChunks[text.client]

\* The largest payload of that many chunks.
MCSize == [text \in MCText |-> ChunksOf(text) * MaxChunk]

OneEach   == [c \in Client |-> 1]
TwoEach   == [c \in Client |-> 2]
TwoThree  == (c1 :> 2) @@ (c2 :> 3)
=============================================================================
