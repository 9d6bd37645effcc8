-------------------------------- MODULE Chat --------------------------------
(***************************************************************************)
(* What a transport owes one client and the language model behind the      *)
(* server, as long as nothing it waits for times out: the client asks,     *)
(* the model is shown the prompt and adds its reply to the conversation,   *)
(* the client is given that reply, and only then asks again.  The UDP      *)
(* service and the shared-memory sessions implement it.                    *)
(***************************************************************************)
EXTENDS Naturals, Sequences

CONSTANTS PromptOf(_), ReplyOf(_)    \* the texts of a turn

VARIABLES
    turn,       \* turns begun
    history,    \* the conversation the model has seen
    outcome     \* what the client was given, turn by turn

chatVars == <<turn, history, outcome>>

Init == turn = 0 /\ history = <<>> /\ outcome = <<>>

Ask ==
    /\ Len(outcome) = turn
    /\ turn' = turn + 1
    /\ UNCHANGED <<history, outcome>>

Show ==
    /\ Len(history) + 2 = 2 * turn
    /\ history' = Append(history, PromptOf(turn))
    /\ UNCHANGED <<turn, outcome>>

Reply ==
    /\ Len(history) + 1 = 2 * turn
    /\ history' = Append(history, ReplyOf(turn))
    /\ UNCHANGED <<turn, outcome>>

Give ==
    /\ Len(history) = 2 * turn
    /\ Len(outcome) + 1 = turn
    /\ outcome' = Append(outcome, ReplyOf(turn))
    /\ UNCHANGED <<turn, history>>

Next == Ask \/ Show \/ Reply \/ Give

Spec == Init /\ [][Next]_chatVars
=============================================================================
