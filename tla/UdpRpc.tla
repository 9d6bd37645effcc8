------------------------------- MODULE UdpRpc -------------------------------
(***************************************************************************)
(* The UDP chat service built on ErpcEndpoint: UdpRpcClient.send driven    *)
(* turn by turn (memllm_benchmark.py, memllm_wifi_client.py), and the      *)
(* serve_udp loop of memllm_mock_server.py in front of a language-model    *)
(* backend that is slow and may raise.                                     *)
(*                                                                         *)
(* Time.  With Timely = FALSE every timeout may expire whenever its call   *)
(* is in progress: a process can be descheduled and the network can be     *)
(* slow.  With Timely = TRUE every timeout is longer than what it waits    *)
(* for: it expires only when nothing else can happen (Settled).  The one   *)
(* exception is SlowBackend: generate() may take longer than any number of *)
(* retransmission rounds, as 6 to 14 s does against a budget of about 3 s. *)
(*                                                                         *)
(* Bounds: each client runs Turns turns; MaxRetries, MaxLoss and the       *)
(* payload sizes come from ErpcEndpoint.                                   *)
(***************************************************************************)
EXTENDS ErpcEndpoint

CONSTANTS
    Client,         \* UdpRpcClient processes
    Server,         \* the thread running serve_udp
    Turns,          \* prompts each client sends
    Timely,         \* TRUE: timeouts are longer than what they wait for
    SlowBackend,    \* TRUE: except for the retransmission timeout
    BackendFails    \* TRUE: generate() may raise (vllm_backend.py)

\* The payloads of the service.
Prompt(c, t)   == [role |-> "user", client |-> c, turn |-> t]
ReplyTo(p)     == [p EXCEPT !.role = "assistant"]
GarbledReply   == [role |-> "assistant", client |-> Server, turn |-> 0]
ShutdownText   == [role |-> "shutdown", client |-> Server, turn |-> 0]
Prompts        == {Prompt(c, t) : c \in Client, t \in 1 .. Turns}

ASSUME UdpRpcAssumption ==
    /\ Server \notin Client
    /\ Endpoint = Client \cup {Server}
    /\ Turns \in Nat \ {0}
    /\ 1 .. Turns + 1 \subseteq MsgId
    /\ Prompts \cup {ReplyTo(p) : p \in Prompts}
          \cup {GarbledReply, ShutdownText} \subseteq Text
    /\ {Timely, SlowBackend, BackendFails} \subseteq BOOLEAN

VARIABLES
    pc,       \* pc[c]: which call of client c is in progress
    turn,     \* turn[c]: msg_ids drawn from itertools.count(1)
    outcome,  \* outcome[c][t]: what send returned for turn t
    spc,      \* where the server's loop is
    req,      \* the request being served
    history   \* the server's conversation history

appVars == <<pc, turn, outcome, spc, req, history>>
vars    == <<endpointVars, appVars>>

-----------------------------------------------------------------------------
(* When the loops poll, and what the timeouts wait for *)

InRecv(e) ==
    \/ e \in Client /\ pc[e] = "receiving"
    \/ e = Server /\ spc = "receiving"

\* send_message polls until its message is acknowledged; recv_message polls
\* while nothing is ready.
Polling(e) ==
    /\ e \notin failed
    /\ IF sending[e] # None THEN Pending(e) # None
                            ELSE InRecv(e) /\ ready[e] = <<>>

\* e can take a step that waits for no timeout.
Active(e) ==
    /\ e \notin failed
    /\ \/ Polling(e) /\ \E d \in net : d.dst = e
       \/ sending[e] # None /\ Pending(e) = None
       \/ InRecv(e) /\ ready[e] # <<>>
       \/ e \in Client /\ pc[e] = "idle"

Settled == \A e \in Endpoint : ~Active(e)

Generating == spc = "generating"

\* The retransmission timeout, 20 ms growing to about 180 ms.
RtoExpires ==
    Timely => Settled /\ (Generating => SlowBackend)

\* The hard deadline of send_message: in time, a send has given up before.
HardDeadlineExpires == ~Timely

\* The 90 s of the client's recv_message and the 600 s of the server's.
RecvExpires ==
    Timely => Settled /\ ~Generating /\ \A e \in Endpoint : sending[e] = None

-----------------------------------------------------------------------------
(* The client *)

\* send: a fresh msg_id, and the call of send_message.
StartTurn(c) ==
    /\ pc[c] = "idle"
    /\ turn[c] < Turns
    /\ Send([src |-> c, dst |-> Server, id |-> turn[c] + 1,
             flags |-> "REQUEST", text |-> Prompt(c, turn[c] + 1)])
    /\ turn' = [turn EXCEPT ![c] = @ + 1]
    /\ pc' = [pc EXCEPT ![c] = "sending"]
    /\ UNCHANGED <<outcome, spc, req, history>>

\* Both main functions end here: the process exits and polls no more.
Leave(c) ==
    /\ pc[c] = "idle"
    /\ turn[c] = Turns
    /\ pc' = [pc EXCEPT ![c] = "done"]
    /\ UNCHANGED <<endpointVars, turn, outcome, spc, req, history>>

\* shutdown, which a caller may put there.
StartShutdown(c) ==
    /\ pc[c] = "idle"
    /\ turn[c] = Turns
    /\ Send([src |-> c, dst |-> Server, id |-> turn[c] + 1,
             flags |-> "REQUEST", text |-> ShutdownText])
    /\ pc' = [pc EXCEPT ![c] = "closing"]
    /\ UNCHANGED <<turn, outcome, spc, req, history>>

\* Mutant: send is over once its message is acknowledged.
ClientSentOnly(c) ==
    /\ SendReturns(c)
    /\ pc' = [pc EXCEPT ![c] = "done"]
    /\ UNCHANGED <<turn, outcome, spc, req, history>>

\* send_message returned; send goes on to recv_message, shutdown is over.
ClientSent(c) ==
    /\ SendReturns(c)
    /\ pc' = [pc EXCEPT ![c] = IF @ = "closing" THEN "done" ELSE "receiving"]
    /\ UNCHANGED <<turn, outcome, spc, req, history>>

Returned(c, body) == outcome' = [outcome EXCEPT ![c] = Append(@, body)]

\* What send returns in place of a reply after a timeout.
Error == {}

\* Mutant: TimeoutError is swallowed and the call neither ends nor starts over.
ClientSendHangs(c) ==
    /\ sending[c] # None
    /\ UNCHANGED vars

\* Mutant: TimeoutError is swallowed, and the client is left in its call.
ClientSendLeft(c) ==
    /\ \/ RtoExpires /\ GiveUp(c)
       \/ HardDeadlineExpires /\ SendDeadline(c)
    /\ UNCHANGED appVars

\* send_message raised: send returns an error, shutdown ignores it.
ClientSendFails(c) ==
    /\ \/ RtoExpires /\ GiveUp(c)
       \/ HardDeadlineExpires /\ SendDeadline(c)
    /\ pc' = [pc EXCEPT ![c] = IF @ = "closing" THEN "done" ELSE "idle"]
    /\ IF pc[c] = "closing" THEN UNCHANGED outcome ELSE Returned(c, Error)
    /\ UNCHANGED <<turn, spc, req, history>>

\* recv_message returned a message: its payload is the reply, whichever
\* msg_id it bears.
ClientReceives(c) ==
    /\ pc[c] = "receiving"
    /\ Recv(c)
    /\ Returned(c, NextReceived(c).body)
    /\ pc' = [pc EXCEPT ![c] = "idle"]
    /\ UNCHANGED <<turn, spc, req, history>>

ClientRecvTimeout(c) ==
    /\ pc[c] = "receiving"
    /\ c \notin failed
    /\ RecvExpires
    /\ Returned(c, Error)
    /\ pc' = [pc EXCEPT ![c] = "idle"]
    /\ UNCHANGED <<endpointVars, turn, spc, req, history>>

-----------------------------------------------------------------------------
(* The server *)

\* recv_message returned: anything but a request is skipped, __SHUTDOWN__
\* ends the loop, and generate() starts by appending the prompt to history.
ServerReceives ==
    /\ spc = "receiving"
    /\ Recv(Server)
    /\ LET r == NextReceived(Server)
       IN  IF r.flags # "REQUEST" THEN UNCHANGED <<spc, req, history>>
           ELSE IF r.body = Whole(ShutdownText)
           THEN spc' = "stopped" /\ UNCHANGED <<req, history>>
           ELSE /\ spc' = "generating"
                /\ req' = r
                /\ history' = Append(history, r.body)
    /\ UNCHANGED <<pc, turn, outcome>>

ReplyText(body) ==
    IF \E p \in Prompts : body = Whole(p)
    THEN ReplyTo(CHOOSE p \in Prompts : body = Whole(p))
    ELSE GarbledReply

\* generate() appends its reply and returns it; the server sends it under the
\* msg_id of the request.  Nothing was polled while it ran.
GenerateReturns ==
    /\ Generating
    /\ LET text == ReplyText(req.body)
       IN  /\ history' = Append(history, Whole(text))
           /\ Send([src |-> Server, dst |-> req.src, id |-> req.id,
                    flags |-> "RESPONSE", text |-> text])
    /\ spc' = "replying"
    /\ UNCHANGED <<pc, turn, outcome, req>>

\* generate() raised: nothing catches it and the thread ends, the prompt
\* being left in history.
GenerateRaises ==
    /\ BackendFails
    /\ Generating
    /\ spc' = "dead"
    /\ UNCHANGED <<endpointVars, pc, turn, outcome, req, history>>

\* Mutant: TimeoutError is not caught.
ServerSentOrDies ==
    /\ \/ SendReturns(Server) /\ spc' = "receiving"
       \/ RtoExpires /\ GiveUp(Server) /\ spc' = "dead"
       \/ HardDeadlineExpires /\ SendDeadline(Server) /\ spc' = "dead"
    /\ UNCHANGED <<pc, turn, outcome, req, history>>

\* send_message returned or raised TimeoutError, which is caught.
ServerSent ==
    /\ \/ SendReturns(Server)
       \/ RtoExpires /\ GiveUp(Server)
       \/ HardDeadlineExpires /\ SendDeadline(Server)
    /\ spc' = "receiving"
    /\ UNCHANGED <<pc, turn, outcome, req, history>>

ServerIdleTimeout ==
    /\ spc = "receiving"
    /\ Server \notin failed
    /\ RecvExpires
    /\ spc' = "stopped"
    /\ UNCHANGED <<endpointVars, pc, turn, outcome, req, history>>

-----------------------------------------------------------------------------
(* Steps common to both, and the network *)

PollOne(e) ==
    /\ Polling(e)
    /\ \E d \in net : Poll(e, d)
    /\ UNCHANGED appVars

RoundAgain(e) ==
    /\ RtoExpires
    /\ Retransmit(e)
    /\ UNCHANGED appVars

\* An uncaught KeyError ends the process.
Crash(e) ==
    /\ InRecv(e)
    /\ RecvKeyError(e)
    /\ UNCHANGED appVars

LoseOne ==
    /\ \E d \in net : Lose(d)
    /\ UNCHANGED appVars

ClientStep(c) ==
    \/ StartTurn(c)
    \/ Leave(c)
    \/ StartShutdown(c)
    \/ ClientSent(c)
    \/ ClientSendFails(c)
    \/ ClientReceives(c)
    \/ ClientRecvTimeout(c)

ServerStep ==
    \/ ServerReceives
    \/ GenerateReturns
    \/ GenerateRaises
    \/ ServerSent
    \/ ServerIdleTimeout

\* Every client is through with its turns and the server waits or has ended.
Finished ==
    /\ \A c \in Client : pc[c] = "done" \/ c \in failed
    /\ spc \in {"stopped", "dead"} \/ Server \in failed
    /\ UNCHANGED vars

UdpInit ==
    /\ Init
    /\ pc = [c \in Client |-> "idle"]
    /\ turn = [c \in Client |-> 0]
    /\ outcome = [c \in Client |-> <<>>]
    /\ spc = "receiving"
    /\ req = None
    /\ history = <<>>

UdpNext ==
    \/ \E c \in Client : ClientStep(c)
    \/ ServerStep
    \/ \E e \in Endpoint : PollOne(e) \/ RoundAgain(e) \/ Crash(e)
    \/ LoseOne
    \/ Finished

(***************************************************************************)
(* Fairness.  Each pass of the loops of send_message and recv_message      *)
(* polls once and tests every deadline, so neither arriving datagrams nor  *)
(* expired timeouts are ignored for ever; the code between two calls runs  *)
(* on, and generate() returns or raises (a sleep, or an HTTP request with  *)
(* a 60 s timeout).  Nothing is assumed of Lose.                           *)
(***************************************************************************)
TimerStep(e) ==
    \/ RoundAgain(e)
    \/ e \in Client /\ (ClientSendFails(e) \/ ClientRecvTimeout(e))
    \/ e = Server /\ ServerSent

RunStep(e) ==
    \/ Crash(e)
    \/ e \in Client /\ (StartTurn(e) \/ Leave(e) \/ StartShutdown(e)
                          \/ ClientSent(e) \/ ClientReceives(e))
    \/ e = Server /\ (ServerReceives \/ GenerateReturns \/ GenerateRaises
                        \/ ServerIdleTimeout)

Fairness ==
    \A e \in Endpoint :
        /\ WF_vars(PollOne(e))
        /\ WF_vars(TimerStep(e))
        /\ WF_vars(RunStep(e))

UdpSpec     == UdpInit /\ [][UdpNext]_vars
FairUdpSpec == UdpSpec /\ Fairness

-----------------------------------------------------------------------------
(* Properties *)

\* The type invariant of the composition.
UdpTypeOK ==
    /\ TypeOK
    /\ pc \in [Client -> {"idle", "sending", "receiving", "closing", "done"}]
    /\ turn \in [Client -> 0 .. Turns]
    /\ outcome \in [Client -> Seq(SUBSET Part)]
    /\ spc \in {"receiving", "generating", "replying", "stopped", "dead"}
    /\ req \in Received \cup {None}
    /\ history \in Seq(SUBSET Part)
    /\ \A c \in Client :
          pc[c] \in {"sending", "closing"} <=> sending[c] # None
    /\ spc = "replying" <=> sending[Server] # None

\* The backend sees no prompt twice, whatever is retransmitted or repeated.
ServedOnce ==
    \A p \in Prompts :
        Cardinality({i \in 1 .. Len(history) : history[i] = Whole(p)}) <= 1

\* A client waits for a reply only to a prompt the server has in full: its
\* send_message does not return on an acknowledgement of anything less.
WaitingMeansDelivered ==
    \A c \in Client :
        pc[c] = "receiving" =>
            \/ turn[c] \in Range(ready[Server])
            \/ Whole(Prompt(c, turn[c])) \in Range(history)

\* What send returns is an error or a reply the server generated for a prompt
\* this client sent, complete; and it is returned for one turn only.
RepliesGenuine ==
    \A c \in Client : \A i \in 1 .. Len(outcome[c]) :
        outcome[c][i] # Error =>
            /\ outcome[c][i] \in Range(history)
            /\ \E t \in 1 .. i : outcome[c][i] = Whole(ReplyTo(Prompt(c, t)))
            /\ \A j \in 1 .. Len(outcome[c]) :
                  outcome[c][j] = outcome[c][i] => j = i

\* Each turn ends with the reply to its own prompt, or with an error, whatever
\* turns failed before it.
ReplyMatchesRequest ==
    \A c \in Client : \A t \in 1 .. Len(outcome[c]) :
        outcome[c][t] \in {Error, Whole(ReplyTo(Prompt(c, t)))}

Conversation(c) ==
    INSTANCE Chat WITH
        PromptOf <- LAMBDA t : Whole(Prompt(c, t)),
        ReplyOf  <- LAMBDA t : Whole(ReplyTo(Prompt(c, t))),
        turn     <- turn[c],
        outcome  <- outcome[c]

\* In time, the service is a chat: no turn fails, each is given the reply to
\* its own prompt, and the backend sees the conversation the client held, in
\* turn order and without repetition.
ImplementsChat ==
    /\ \A c \in Client : Conversation(c)!Init
    /\ [][\A c \in Client :
              [Conversation(c)!Next]_(Conversation(c)!chatVars)]_vars

\* Whatever the network, the server and other clients do, every client gets
\* through its turns: no loop of send_message or recv_message goes on for ever.
ClientsFinish == \A c \in Client : <>(pc[c] = "done")

\* With losses the retries make up for, every prompt is answered in its turn.
EveryTurnAnswered ==
    \A c \in Client : \A t \in 1 .. Turns :
        <>(/\ t <= Len(outcome[c])
           /\ outcome[c][t] = Whole(ReplyTo(Prompt(c, t))))

\* Whatever the sessions of other clients do to the server, no datagram makes
\* a client's recv_message raise KeyError.
ClientsSurvive == failed \cap Client = {}

\* A response that cannot be delivered does not take the server down.
ServerGoesOn == spc = "replying" ~> spc = "receiving"

\* A lost fragment costs one retransmission: with no ACK lost, no more
\* fragments are sent again than were lost.
LossCostsOneRetransmission ==
    lost["ack"] = 0 =>
        \A e \in Endpoint : retransmits[e] <= lost["data"]
=============================================================================
