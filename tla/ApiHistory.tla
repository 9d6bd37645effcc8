----------------------------- MODULE ApiHistory -----------------------------
(***************************************************************************)
(* The HTTP clients that keep their own conversation (OllamaClient,        *)
(* ClaudeAPIClient, GroqClient and GeminiClient of memllm_benchmark.py),   *)
(* run turn by turn through _send_with_retry, which repeats a send that    *)
(* was answered by HTTP 429 and repairs the client's history first.        *)
(*                                                                         *)
(* A text is the turn it belongs to: a prompt in an entry of the user, a   *)
(* reply in one of the assistant (Gemini: of the model).  The delays       *)
(* change nothing that is modelled.  Bound: Turns.                         *)
(***************************************************************************)
EXTENDS Integers, Sequences, SequencesExt

CONSTANTS
    Api,      \* the clients, of which a behaviour runs one
    Turns

APIs == {"ollama", "claude", "groq", "gemini"}

ASSUME ApiHistoryAssumption ==
    /\ Api \subseteq APIs
    /\ Turns \in Nat \ {0}

MaxAttempts == 3    \* MAX_RETRIES

VARIABLES
    api,      \* the client
    turn,     \* turns begun
    attempt,  \* sends of this turn
    pc,       \* where _send_with_retry is
    history,  \* the client's history
    request,  \* the messages of the last request
    result    \* result[t]: how turn t ended

vars == <<api, turn, attempt, pc, history, request, result>>

-----------------------------------------------------------------------------
(* Histories *)

AssistantRole == IF api = "gemini" THEN "model" ELSE "assistant"

\* An entry says one text, or several that were merged.
Entry == [role : {"user", "assistant", "model"}, says : Seq(1 .. Turns)]

Prompt(t) == [role |-> "user", says |-> <<t>>]
Reply(t)  == [role |-> AssistantRole, says |-> <<t>>]

MergeInto(clean, m) ==
    IF clean # <<>> /\ Last(clean).role = m.role
    THEN [clean EXCEPT ![Len(clean)].says = @ \o m.says]
    ELSE Append(clean, m)

\* ClaudeAPIClient sends consecutive entries of one role as one message.
Merged(h) ==
    LET clean[n \in 0 .. Len(h)] ==
            IF n = 0 THEN <<>> ELSE MergeInto(clean[n - 1], h[n])
    IN  clean[Len(h)]

\* Mutant: the history is sent as it is.
MessagesUnmerged(h) == h

Messages(h) == IF api = "claude" THEN Merged(h) ELSE h

\* Mutant: the history is left as it is.
KeepFailed(h) == h

\* What _send_with_retry removes after a 429: the failed prompt, and then, in
\* a history whose entries have "parts", the last entry once more.
WithoutFailed(h) ==
    LET once == IF h # <<>> /\ Last(h).role = "user" THEN Front(h) ELSE h
    IN  IF api = "gemini" /\ once # <<>> THEN Front(once) ELSE once

-----------------------------------------------------------------------------
StartTurn ==
    /\ pc = "idle"
    /\ turn < Turns
    /\ turn' = turn + 1
    /\ attempt' = 1
    /\ pc' = "sending"
    /\ UNCHANGED <<api, history, request, result>>

\* send, up to the request.
Post ==
    /\ pc = "sending"
    /\ history' = Append(history, Prompt(turn))
    /\ request' = Messages(history')
    /\ pc' = "waiting"
    /\ UNCHANGED <<api, turn, attempt, result>>

EndTurn(how) ==
    /\ result' = Append(result, how)
    /\ pc' = "idle"
    /\ UNCHANGED <<api, turn, attempt, request>>

Answered ==
    /\ pc = "waiting"
    /\ history' = Append(history, Reply(turn))
    /\ EndTurn("answered")

\* Any other error: a timeout, a refused request, an unexpected answer.
Failed ==
    /\ pc = "waiting"
    /\ EndTurn("failed")
    /\ UNCHANGED history

\* Mutant: one attempt too many.
OneMoreAttempt == attempt <= MaxAttempts

AttemptsLeft == attempt < MaxAttempts

\* HTTP 429, which OllamaClient's send words otherwise: wait, repair the
\* history, and send again or return the error.
RateLimited ==
    /\ pc = "waiting"
    /\ api # "ollama"
    /\ history' = WithoutFailed(history)
    /\ IF AttemptsLeft
       THEN /\ attempt' = attempt + 1
            /\ pc' = "sending"
            /\ UNCHANGED <<api, turn, request, result>>
       ELSE EndTurn("limited")

Finished == pc = "idle" /\ turn = Turns /\ UNCHANGED vars

Init ==
    /\ api \in Api
    /\ turn = 0
    /\ attempt = 0
    /\ pc = "idle"
    /\ history = <<>>
    /\ request = <<>>
    /\ result = <<>>

Next ==
    \/ StartTurn
    \/ Post
    \/ Answered
    \/ Failed
    \/ RateLimited
    \/ Finished

Spec == Init /\ [][Next]_vars

-----------------------------------------------------------------------------
(* Properties *)

\* The type invariant.
TypeOK ==
    /\ api \in Api
    /\ turn \in 0 .. Turns
    /\ attempt \in 0 .. MaxAttempts
    /\ pc \in {"idle", "sending", "waiting"}
    /\ history \in Seq(Entry)
    /\ request \in Seq(Entry)
    /\ result \in Seq({"answered", "failed", "limited"})
    /\ Len(result) = (IF pc = "idle" THEN turn ELSE turn - 1)

\* What a request should show of an earlier turn.
ShownOf(t) ==
    CASE result[t] = "answered" -> <<Prompt(t), Reply(t)>>
      [] result[t] = "failed"   -> <<Prompt(t)>>
      [] result[t] = "limited"  -> <<>>

\* The texts of a message, and of a sequence of them, one by one.
TextsOf(m) == [j \in DOMAIN m.says |-> [m EXCEPT !.says = <<m.says[j]>>]]

Texts(messages) ==
    FlattenSeq([i \in DOMAIN messages |-> TextsOf(messages[i])])

\* What a request should show of the turns up to n.
Shown(n) == FlattenSeq([t \in 1 .. n |-> ShownOf(t)])

\* Every request shows the conversation: each earlier turn in order, without
\* a trace of those that were rate-limited to the end, and the prompt of this
\* turn once, however often it was sent before.  For Claude the comment that
\* opens send says otherwise, "Keep only this turn's message -- avoids sending
\* assistant turns with stale content": the code below it appends the prompt to
\* the history and sends all of it, merged.  This is about the code.
ConversationShown ==
    pc = "waiting" =>
        Texts(request) = Shown(turn - 1) \o <<Prompt(turn)>>

\* "Anthropic API requires alternating user/assistant roles": the messages
\* sent alternate, although failed turns leave prompts without replies.
RolesAlternate ==
    api = "claude" =>
        \A i \in 1 .. Len(request) :
            request[i].role = IF i % 2 = 1 THEN "user" ELSE "assistant"

\* A retry removes "the failed user turn from history" and nothing else: a
\* reply the client was given stays in its history.
RepliesKept ==
    \A t \in 1 .. Len(result) :
        result[t] = "answered" => Contains(history, Reply(t))
=============================================================================
