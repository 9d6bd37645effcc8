------------------------------ MODULE HttpChat ------------------------------
(***************************************************************************)
(* The HTTP baseline: HttpMockClient.send (memllm_benchmark.py,            *)
(* memllm_wifi_client.py) against make_http_handler of                     *)
(* memllm_mock_server.py.  ThreadingHTTPServer runs each request in a      *)
(* thread of its own; the threads share one history, and generate() runs   *)
(* under a lock.                                                           *)
(*                                                                         *)
(* A request is the client and the turn it belongs to.  A client's 90 s    *)
(* may end whenever it waits: it gives up its connection and goes on,      *)
(* while the handler of the request stays.  Bound: Turns per client.       *)
(***************************************************************************)
EXTENDS Integers, Sequences

CONSTANTS
    Client,
    Turns,
    BackendFails,   \* TRUE: generate() may raise (vllm_backend.py)
    None

ASSUME HttpChatAssumption ==
    /\ Turns \in Nat \ {0}
    /\ BackendFails \in BOOLEAN
    /\ None \notin Client \X (1 .. Turns)

Request == Client \X (1 .. Turns)

VARIABLES
    pc,        \* pc[c]: whether client c waits for an answer
    turn,      \* turn[c]: turns begun
    outcome,   \* outcome[c]: what send returned, turn by turn
    handler,   \* handler[r]: where the thread that handles r is
    lock,      \* the handler that holds the lock
    history    \* the history the handlers share

clientVars == <<pc, turn, outcome>>
vars       == <<clientVars, handler, lock, history>>

PromptOf(r) == [role |-> "user", request |-> r]
ReplyTo(r)  == [role |-> "assistant", request |-> r]
Error       == None

-----------------------------------------------------------------------------
(* The handlers *)

\* Mutant: no `with lock`.
EnterUnlocked(r) ==
    /\ handler[r] = "waiting"
    /\ lock' = r
    /\ handler' = [handler EXCEPT ![r] = "generating"]
    /\ history' = Append(history, PromptOf(r))
    /\ UNCHANGED clientVars

\* The lock, and generate() adds the prompt to the history.
Enter(r) ==
    /\ handler[r] = "waiting"
    /\ lock = None
    /\ lock' = r
    /\ handler' = [handler EXCEPT ![r] = "generating"]
    /\ history' = Append(history, PromptOf(r))
    /\ UNCHANGED clientVars

\* generate() adds its reply; the lock is given back and the reply is sent.
Leave(r) ==
    /\ handler[r] = "generating"
    /\ history' = Append(history, ReplyTo(r))
    /\ lock' = None
    /\ handler' = [handler EXCEPT ![r] = "replied"]
    /\ UNCHANGED clientVars

\* Mutant: the lock is acquired and released by hand.
RaiseLocked(r) ==
    /\ BackendFails
    /\ handler[r] = "generating"
    /\ handler' = [handler EXCEPT ![r] = "closed"]
    /\ UNCHANGED <<clientVars, lock, history>>

\* generate() raises: `with` gives the lock back, and the server closes the
\* connection.  The prompt stays in the history.
Raise(r) ==
    /\ BackendFails
    /\ handler[r] = "generating"
    /\ lock' = None
    /\ handler' = [handler EXCEPT ![r] = "closed"]
    /\ UNCHANGED <<clientVars, history>>

-----------------------------------------------------------------------------
(* The clients *)

Current(c) == <<c, turn[c]>>

Post(c) ==
    /\ pc[c] = "idle"
    /\ turn[c] < Turns
    /\ turn' = [turn EXCEPT ![c] = @ + 1]
    /\ handler' = [handler EXCEPT ![<<c, turn[c] + 1>>] = "waiting"]
    /\ pc' = [pc EXCEPT ![c] = "waiting"]
    /\ UNCHANGED <<outcome, lock, history>>

Return(c, what) ==
    /\ pc[c] = "waiting"
    /\ outcome' = [outcome EXCEPT ![c] = Append(@, what)]
    /\ pc' = [pc EXCEPT ![c] = "idle"]
    /\ UNCHANGED <<turn, handler, lock, history>>

Answered(c) ==
    /\ pc[c] = "waiting"
    /\ handler[Current(c)] = "replied"
    /\ Return(c, ReplyTo(Current(c)))

\* Mutant: a call that failed is reported like one that was answered.
FailsQuietly(c) == pc[c] = "waiting" /\ Return(c, ReplyTo(Current(c)))

\* A timeout, or a connection closed without an answer.
Fails(c) == pc[c] = "waiting" /\ Return(c, Error)

-----------------------------------------------------------------------------
\* The clients have ended; the server sleeps on.
Finished ==
    /\ \A c \in Client : pc[c] = "idle" /\ turn[c] = Turns
    /\ UNCHANGED vars

Init ==
    /\ pc = [c \in Client |-> "idle"]
    /\ turn = [c \in Client |-> 0]
    /\ outcome = [c \in Client |-> <<>>]
    /\ handler = [r \in Request |-> "none"]
    /\ lock = None
    /\ history = <<>>

HandlerStep(r) == Enter(r) \/ Leave(r) \/ Raise(r)

ClientStep(c) == Post(c) \/ Answered(c) \/ Fails(c)

Next ==
    \/ \E c \in Client : ClientStep(c)
    \/ \E r \in Request : HandlerStep(r)
    \/ Finished

(***************************************************************************)
(* Fairness.  Threads run on, urlopen has a timeout, and generate() ends.  *)
(* A thread that waits for the lock gets it if it stays free: the lock is  *)
(* not first-come-first-served, but requests are finitely many.            *)
(***************************************************************************)
Spec ==
    /\ Init /\ [][Next]_vars
    /\ \A c \in Client : WF_vars(ClientStep(c))
    /\ \A r \in Request : WF_vars(HandlerStep(r))

-----------------------------------------------------------------------------
(* Properties *)

\* The type invariant.
TypeOK ==
    /\ pc \in [Client -> {"idle", "waiting"}]
    /\ turn \in [Client -> 0 .. Turns]
    /\ outcome \in [Client -> Seq([role : {"assistant"}, request : Request]
                                    \cup {Error})]
    /\ handler \in
          [Request -> {"none", "waiting", "generating", "replied", "closed"}]
    /\ lock \in Request \cup {None}
    /\ \A r \in Request : lock = r <=> handler[r] = "generating"
    /\ history \in Seq([role : {"user", "assistant"}, request : Request])

\* The shared history stays a conversation, however many handlers run: a reply
\* follows its own prompt at once, and a prompt without one is the last or
\* belongs to a handler that failed.
PairsAdjacent ==
    \A i \in 1 .. Len(history) :
        LET e == history[i]
        IN  IF e.role = "assistant"
            THEN i > 1 /\ history[i - 1] = PromptOf(e.request)
            ELSE \/ i = Len(history)
                 \/ history[i + 1] = ReplyTo(e.request)
                 \/ handler[e.request] = "closed"

\* A handler whose client has given up runs on, and may come after those of
\* the client's later turns.  Otherwise the backend is shown a client's
\* prompts in the order of its turns: one that is out of order has failed.
OutOfOrderMeansFailed ==
    \A i, j \in 1 .. Len(history) :
        LET r == history[i].request
            q == history[j].request
        IN  i < j /\ r[1] = q[1] /\ r[2] > q[2]
              => outcome[q[1]][q[2]] = Error

\* Every request is dealt with although generate() may raise while the lock
\* is held, and every client gets through its turns.
HandlersEnd ==
    \A r \in Request : <>(handler[r] \in {"replied", "closed"})
=============================================================================
