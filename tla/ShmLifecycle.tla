---------------------------- MODULE ShmLifecycle ----------------------------
(***************************************************************************)
(* The life of a shared-memory session on either platform: how a client    *)
(* creates the region, how the handshake attaches a server to it, and what *)
(* the next client and the next server find when a process has crashed at  *)
(* any point of that, or has given up waiting.                             *)
(*                                                                         *)
(* On Windows the region is found by name: it exists as long as a process  *)
(* maps it, and whoever opens the name shares it.  On Linux each client    *)
(* has a region of its own, which the server gets as a file descriptor.    *)
(*                                                                         *)
(* The rings are coarser than in ShmSession, which has them one access at  *)
(* a time for one client and one server: a descriptor carries its text,    *)
(* and a dequeue reads and releases it in one step.  What a crash can cut  *)
(* in two is kept: a descriptor is written, then published.  Rings are     *)
(* never full here.  Every timeout may expire whenever its call waits.     *)
(*                                                                         *)
(* The pool is left out: the text of a descriptor is the one it was        *)
(* written for.  Whether its bytes are still in the pool when it is read   *)
(* is another question, which ShmSession is about: they may not be once    *)
(* two processes have allocated at the same time, or after init_control    *)
(* has started the pool over.                                              *)
(*                                                                         *)
(* Bounds: a process runs once; a new one is a restart.  Clients run one   *)
(* after the other, each with Turns prompts.                               *)
(***************************************************************************)
EXTENDS Naturals, Sequences, FiniteSets, Functions

CONSTANTS
    Client,      \* processes running memllm_benchmark.py
    Server,      \* processes running a server
    Platforms,   \* subset of {"windows", "linux"}
    Turns,       \* prompts of a client
    None

Process == Client \cup Server
Nobody  == "nobody"

ASSUME LifecycleAssumption ==
    /\ Client \cap Server = {}
    /\ Platforms \subseteq {"windows", "linux"}
    /\ Turns \in Nat \ {0}
    /\ None \notin Process

VARIABLES
    platform,
    mapped,      \* mapped[p]: the region p maps, named after its creator
    mem,         \* mem[r]: the control block and the rings of a region
    \* The client.
    pc,
    field,       \* field[c]: what init_control clears next
    hello,       \* hello[c]: sends made on its connection
    ack,         \* clients to whom OK was sent
    turn, outcome,
    \* The server.
    spc,
    backlog,     \* backlog[s]: connections not yet accepted, oldest first
    peer,        \* peer[s]: the client whose connection s accepted
    cursor,      \* cursor[s]: the tail or head its call read on entry
    request,     \* request[s]: the prompt being served
    history,     \* history[s]: the prompts its model was shown
    \* History; no step of the code reads these.
    welcome,     \* welcome[c]: servers that took up the region c had set up
    mixed        \* a server was attached for another client than the user

Linux == platform = "linux"

regionVars  == <<mapped, mem>>
clientVars  == <<pc, field, hello, turn, outcome>>
serverVars  == <<spc, backlog, peer, cursor, request, history>>
historyVars == <<welcome, mixed>>
vars        == <<platform, regionVars, clientVars, ack, serverVars, historyVars>>

-----------------------------------------------------------------------------
(* Regions *)

Prompt(c, t) == <<c, t>>
Shutdown == <<Nobody, 0>>

\* The cells init_control clears that a peer may be using, in its order.
Fields == <<"reqHead", "reqTail", "respHead", "respTail", "ready">>

\* A region of the paging file or of a memfd is born zeroed.
Zeroed ==
    [reqHead |-> 0, reqTail |-> 0, respHead |-> 0, respTail |-> 0,
     ready |-> 0, req |-> <<>>, resp |-> <<>>]

\* Mutant: server_ready is not cleared.
ClearedButReady(m, f) == IF f = "ready" THEN m ELSE [m EXCEPT ![f] = 0]

Cleared(m, f) == [m EXCEPT ![f] = 0]

Empty == <<Nobody, 1>>

\* Slot i of a ring; one that was never written describes an empty text.
At(ring, i) == IF i \in DOMAIN ring THEN ring[i] ELSE Empty

\* Mutant: the slot after it.
WrittenNext(ring, i, x) ==
    [j \in DOMAIN ring \cup {i + 1} |-> IF j = i + 1 THEN x ELSE ring[j]]

Written(ring, i, x) ==
    [j \in DOMAIN ring \cup {i} |-> IF j = i THEN x ELSE ring[j]]

\* The region that bears the name on Windows, if any process maps it.
Named == {mapped[p] : p \in Process} \ {None}

\* Mutant: p creates a region whoever has the name.
OpenAnew(p) ==
    /\ mapped' = [mapped EXCEPT ![p] = p]
    /\ mem' = [mem EXCEPT ![p] = Zeroed]

\* p opens the name, and creates the region if nobody has it.
OpenName(p) ==
    IF Named = {}
    THEN /\ mapped' = [mapped EXCEPT ![p] = p]
         /\ mem' = [mem EXCEPT ![p] = Zeroed]
    ELSE /\ mapped' = [mapped EXCEPT ![p] = CHOOSE r \in Named : TRUE]
         /\ UNCHANGED mem

Ended(p) ==
    IF p \in Client THEN pc[p] \in {"done", "dead"}
                    ELSE spc[p] \in {"stopped", "dead"}

\* Past accept, and so attached to a region or about to be.
Bound(s) == peer[s] # None /\ ~Ended(s)

-----------------------------------------------------------------------------
(* The client: create the region, and the handshake *)

Open(c) ==
    /\ pc[c] = "off"
    /\ \A d \in Client : pc[d] = "off" \/ Ended(d)
    /\ IF Linux
       THEN /\ mapped' = [mapped EXCEPT ![c] = c]
            /\ mem' = [mem EXCEPT ![c] = Zeroed]
       ELSE OpenName(c)
    /\ mixed' = (mixed \/ \E s \in Server : Bound(s))
    /\ pc' = [pc EXCEPT ![c] = "init"]
    /\ UNCHANGED <<platform, field, hello, turn, outcome, ack, serverVars,
                   welcome>>

\* init_control, one store at a time.  The slots are not cleared.
InitControl(c) ==
    /\ pc[c] = "init"
    /\ mem' = [mem EXCEPT ![mapped[c]] = Cleared(@, Fields[field[c]])]
    /\ field' = [field EXCEPT ![c] = IF @ < Len(Fields) THEN @ + 1 ELSE @]
    /\ pc' = [pc EXCEPT ![c] =
                 IF field[c] = Len(Fields) THEN "connecting" ELSE @]
    /\ UNCHANGED <<platform, mapped, hello, turn, outcome, ack, serverVars,
                   historyVars>>

Connect(c, s) ==
    /\ pc[c] = "connecting"
    /\ spc[s] = "listening"
    /\ backlog' = [backlog EXCEPT ![s] = Append(@, c)]
    /\ pc' = [pc EXCEPT ![c] = "greeting"]
    /\ UNCHANGED <<platform, regionVars, field, hello, turn, outcome, ack, spc,
                   peer, cursor, request, history, historyVars>>

ClientGoes(c, to) ==
    /\ pc' = [pc EXCEPT ![c] = to]
    /\ UNCHANGED <<platform, field, hello, turn, outcome, ack, serverVars,
                   historyVars>>

ClientRaises(c) ==
    /\ mapped' = [mapped EXCEPT ![c] = None]
    /\ UNCHANGED mem
    /\ ClientGoes(c, "dead")

\* Forty attempts found nobody listening.
ConnectFails(c) ==
    /\ pc[c] = "connecting"
    /\ \A s \in Server : spc[s] # "listening"
    /\ ClientRaises(c)

\* The header; and on Linux a second message with the descriptors.
Hellos == IF Linux THEN 2 ELSE 1

Greet(c) ==
    /\ pc[c] = "greeting"
    /\ hello' = [hello EXCEPT ![c] = @ + 1]
    /\ pc' = [pc EXCEPT ![c] = IF hello[c] + 1 = Hellos THEN "greeted" ELSE @]
    /\ UNCHANGED <<platform, regionVars, field, turn, outcome, ack, serverVars,
                   historyVars>>

\* The other end of c's connection is open.
Connected(c) ==
    \E s \in Server :
        \/ spc[s] = "listening" /\ c \in Range(backlog[s])
        \/ peer[s] = c /\ spc[s] \in {"accepted", "answering"}

\* The acknowledgement ends the handshake on Linux; on Windows whatever recv
\* returns is ignored, and the client goes on to poll server_ready.
Acknowledged(c) ==
    /\ pc[c] = "greeted"
    /\ c \in ack \/ (~Linux /\ ~Connected(c))
    /\ ClientGoes(c, IF Linux THEN "idle" ELSE "waiting")
    /\ UNCHANGED regionVars

\* A connection reset: send or recv raises, or the Linux client does because
\* the acknowledgement is not OK.
ConnectionReset(c) ==
    /\ pc[c] \in {"greeting", "greeted"}
    /\ ~Connected(c) /\ c \notin ack
    /\ ClientRaises(c)

SeeReady(c) ==
    /\ pc[c] = "waiting"
    /\ mem[mapped[c]].ready = 1
    /\ ClientGoes(c, "idle")
    /\ UNCHANGED regionVars

\* 120 s: "Server never became ready (model load timeout?)"
ReadyTimeout(c) ==
    /\ pc[c] = "waiting"
    /\ ClientRaises(c)

-----------------------------------------------------------------------------
(* The client: its turns *)

NextText(c) == IF turn[c] < Turns THEN Prompt(c, turn[c] + 1) ELSE Shutdown

WriteRequest(c) ==
    /\ pc[c] = "idle"
    /\ LET r == mapped[c]
       IN  mem' = [mem EXCEPT ![r].req = Written(@, mem[r].reqHead, NextText(c))]
    /\ ClientGoes(c, "sending")
    /\ UNCHANGED mapped

PublishRequest(c) ==
    /\ pc[c] = "sending"
    /\ mem' = [mem EXCEPT ![mapped[c]].reqHead = @ + 1]
    /\ turn' = [turn EXCEPT ![c] = @ + 1]
    /\ pc' = [pc EXCEPT ![c] = IF turn[c] < Turns THEN "receiving" ELSE "closing"]
    /\ UNCHANGED <<platform, mapped, field, hello, outcome, ack, serverVars,
                   historyVars>>

\* send returned x.
Returned(c, x) ==
    /\ outcome' = [outcome EXCEPT ![c] = Append(@, x)]
    /\ pc' = [pc EXCEPT ![c] = "idle"]
    /\ UNCHANGED <<platform, mapped, field, hello, turn, ack, serverVars,
                   historyVars>>

ReceiveResponse(c) ==
    /\ pc[c] = "receiving"
    /\ LET r == mapped[c]
       IN  /\ mem[r].respHead > mem[r].respTail
           /\ Returned(c, At(mem[r].resp, mem[r].respTail))
           /\ mem' = [mem EXCEPT ![r].respTail = @ + 1]

ResponseTimeout(c) ==
    /\ pc[c] = "receiving"
    /\ Returned(c, None)
    /\ UNCHANGED mem

CloseClient(c) ==
    /\ pc[c] = "closing"
    /\ mapped' = [mapped EXCEPT ![c] = None]
    /\ ClientGoes(c, "done")
    /\ UNCHANGED mem

-----------------------------------------------------------------------------
(* The server: the handshake *)

ServerGoes(s, to) ==
    /\ spc' = [spc EXCEPT ![s] = to]
    /\ UNCHANGED <<platform, clientVars, backlog, peer, cursor, request,
                   history>>

ServerRaises(s) ==
    /\ mapped' = [mapped EXCEPT ![s] = None]
    /\ ServerGoes(s, "dead")
    /\ UNCHANGED <<mem, ack, historyVars>>

\* bind: the address is taken on Linux; SO_REUSEADDR lets two bind on Windows.
Listen(s) ==
    /\ spc[s] = "off"
    /\ IF Linux /\ \E t \in Server : spc[t] = "listening"
       THEN ServerRaises(s)
       ELSE /\ ServerGoes(s, "listening")
            /\ UNCHANGED <<regionVars, ack, historyVars>>

\* accept; closing the listening socket resets the other connections.
Accept(s) ==
    /\ spc[s] = "listening"
    /\ backlog[s] # <<>>
    /\ peer' = [peer EXCEPT ![s] = Head(backlog[s])]
    /\ backlog' = [backlog EXCEPT ![s] = <<>>]
    /\ spc' = [spc EXCEPT ![s] = "accepted"]
    /\ UNCHANGED <<platform, regionVars, clientVars, ack, cursor, request,
                   history, historyVars>>

Heard(s) == hello[peer[s]] = Hellos

\* Mutant: an empty header is no reason to stop receiving.
HelloAwaited(s) == FALSE

\* The connection ends before the header or the descriptors have come.
HelloMissing(s) ==
    /\ spc[s] = "accepted"
    /\ ~Heard(s) /\ Ended(peer[s])
    /\ ServerRaises(s)

SendOK(s, to) ==
    /\ ack' = ack \cup {peer[s]}
    /\ ServerGoes(s, to)
    /\ UNCHANGED <<regionVars, historyVars>>

\* Windows: OK goes out first, and the region is opened after it.
Answer(s) ==
    /\ ~Linux
    /\ spc[s] = "accepted" /\ Heard(s)
    /\ SendOK(s, "opening")

OpenRegion(s) ==
    /\ spc[s] = "opening"
    /\ OpenName(s)
    /\ mixed' = (mixed \/ Ended(peer[s]))
    /\ ServerGoes(s, "loading")
    /\ UNCHANGED <<ack, welcome>>

\* Linux: the descriptors come with the hello; the region is mapped first.
Attach(s) ==
    /\ Linux
    /\ spc[s] = "accepted" /\ Heard(s)
    /\ mapped' = [mapped EXCEPT ![s] = peer[s]]
    /\ welcome' = [welcome EXCEPT ![peer[s]] = @ \cup {s}]
    /\ ServerGoes(s, "answering")
    /\ UNCHANGED <<mem, ack, mixed>>

AnswerLinux(s) ==
    /\ spc[s] = "answering" /\ ~Ended(peer[s])
    /\ SendOK(s, "loading")

\* The client is gone when OK is sent: the send raises on Linux; on Windows
\* it does if the reset has come by then.
AnswerFails(s) ==
    /\ IF Linux THEN spc[s] = "answering" ELSE spc[s] = "accepted" /\ Heard(s)
    /\ Ended(peer[s])
    /\ ServerRaises(s)

-----------------------------------------------------------------------------
(* The server: load_model and serve *)

Serve(s) ==
    /\ spc[s] = "loading"
    /\ mem' = [mem EXCEPT ![mapped[s]].ready = 1]
    /\ welcome' = [c \in Client |->
                      welcome[c] \cup (IF mapped[c] = mapped[s] THEN {s} ELSE {})]
    /\ ServerGoes(s, "receiving")
    /\ UNCHANGED <<mapped, ack, mixed>>

AwaitRequest(s) ==
    /\ spc[s] = "receiving"
    /\ cursor' = [cursor EXCEPT ![s] = mem[mapped[s]].reqTail]
    /\ spc' = [spc EXCEPT ![s] = "polling"]
    /\ UNCHANGED <<platform, regionVars, clientVars, ack, backlog, peer, request,
                   history, historyVars>>

Stop(s) ==
    /\ mapped' = [mapped EXCEPT ![s] = None]
    /\ spc' = [spc EXCEPT ![s] = "stopped"]

\* Mutant: the tail is not written back.
NotReleased(m, t) == m

Released(m, t) == [m EXCEPT !.reqTail = t + 1]

\* The tail it read on entry is the one it reads at and writes back from.
\* __SHUTDOWN__ ends the loop; a prompt goes to the model.
TakeRequest(s) ==
    /\ spc[s] = "polling"
    /\ LET r == mapped[s]
           x == At(mem[r].req, cursor[s])
       IN  /\ mem[r].reqHead > cursor[s]
           /\ mem' = [mem EXCEPT ![r] = Released(@, cursor[s])]
           /\ IF x = Shutdown
              THEN Stop(s) /\ UNCHANGED <<request, history>>
              ELSE /\ spc' = [spc EXCEPT ![s] = "generating"]
                   /\ request' = [request EXCEPT ![s] = x]
                   /\ history' = [history EXCEPT ![s] = Append(@, x)]
                   /\ UNCHANGED mapped
    /\ UNCHANGED <<platform, clientVars, ack, backlog, peer, cursor,
                   historyVars>>

IdleTimeout(s) ==
    /\ spc[s] = "polling"
    /\ Stop(s)
    /\ UNCHANGED <<platform, mem, clientVars, ack, backlog, peer, cursor,
                   request, history, historyVars>>

\* The model has answered, and the response is written at the head ...
WriteResponse(s) ==
    /\ spc[s] = "generating"
    /\ LET r == mapped[s]
       IN  /\ cursor' = [cursor EXCEPT ![s] = mem[r].respHead]
           /\ mem' = [mem EXCEPT ![r].resp =
                         Written(@, mem[r].respHead, request[s])]
    /\ spc' = [spc EXCEPT ![s] = "replying"]
    /\ UNCHANGED <<platform, mapped, clientVars, ack, backlog, peer, request,
                   history, historyVars>>

\* ... and published from the same reading of it.
PublishResponse(s) ==
    /\ spc[s] = "replying"
    /\ mem' = [mem EXCEPT ![mapped[s]].respHead = cursor[s] + 1]
    /\ ServerGoes(s, "receiving")
    /\ UNCHANGED <<mapped, ack, historyVars>>

-----------------------------------------------------------------------------
\* A process may be killed at any point.
CrashClient(c) ==
    /\ pc[c] # "off" /\ ~Ended(c)
    /\ ClientRaises(c)

CrashServer(s) ==
    /\ spc[s] # "off" /\ ~Ended(s)
    /\ ServerRaises(s)

Init ==
    /\ platform \in Platforms
    /\ mapped = [p \in Process |-> None]
    /\ mem = [p \in Process |-> Zeroed]
    /\ pc = [c \in Client |-> "off"]
    /\ field = [c \in Client |-> 1]
    /\ hello = [c \in Client |-> 0]
    /\ ack = {}
    /\ turn = [c \in Client |-> 0]
    /\ outcome = [c \in Client |-> <<>>]
    /\ spc = [s \in Server |-> "off"]
    /\ backlog = [s \in Server |-> <<>>]
    /\ peer = [s \in Server |-> None]
    /\ cursor = [s \in Server |-> 0]
    /\ request = [s \in Server |-> None]
    /\ history = [s \in Server |-> <<>>]
    /\ welcome = [c \in Client |-> {}]
    /\ mixed = FALSE

Handshake(c) ==
    \/ Open(c) \/ InitControl(c) \/ ConnectFails(c)
    \/ \E s \in Server : Connect(c, s)
    \/ Greet(c) \/ Acknowledged(c) \/ ConnectionReset(c)
    \/ SeeReady(c) \/ ReadyTimeout(c)

Send(c) ==
    \/ WriteRequest(c) \/ PublishRequest(c)
    \/ ReceiveResponse(c) \/ ResponseTimeout(c)
    \/ CloseClient(c)

ServerHandshake(s) ==
    \/ Accept(s) \/ HelloMissing(s)
    \/ Answer(s) \/ OpenRegion(s)
    \/ Attach(s) \/ AnswerLinux(s) \/ AnswerFails(s)

ServeLoop(s) ==
    \/ Serve(s) \/ AwaitRequest(s) \/ TakeRequest(s) \/ IdleTimeout(s)
    \/ WriteResponse(s) \/ PublishResponse(s)

ClientStep(c) == Handshake(c) \/ Send(c)
ServerStep(s) == ServerHandshake(s) \/ ServeLoop(s)

Next ==
    \/ \E c \in Client : ClientStep(c) \/ CrashClient(c)
    \/ \E s \in Server : Listen(s) \/ ServerStep(s) \/ CrashServer(s)

\* The processes that are started run on: their loops see what has come, and
\* the clock.
Fairness ==
    /\ \A c \in Client : WF_vars(ClientStep(c))
    /\ \A s \in Server : WF_vars(ServerStep(s))

Spec == Init /\ [][Next]_vars /\ Fairness

-----------------------------------------------------------------------------
(* Properties *)

Past(c) == pc[c] \in {"idle", "sending", "receiving", "closing", "done"}

\* The type invariant.
LifecycleTypeOK ==
    /\ mapped \in [Process -> Process \cup {None}]
    /\ \A p \in Process : Ended(p) => mapped[p] = None
    /\ ~Linux => Cardinality(Named) <= 1
    /\ Linux => Named \subseteq Client
    /\ peer \in [Server -> Client \cup {None}]
    /\ \A c \in Client : Len(outcome[c]) <= Turns /\ turn[c] <= Turns + 1

\* A client that goes on from the handshake has a server: one that mapped the
\* region after this client had opened it (Linux), or reached its serve loop
\* in it (Windows), not a server_ready left by an earlier session.
HandshakeMeansServer ==
    \A c \in Client : Past(c) => welcome[c] # {}

\* On Linux, and on Windows as long as no server is attached for another
\* client than the one that uses the region, each server's model is shown the
\* descriptors of the client whose connection it accepted, in order and once,
\* and no client is given the descriptor of a reply to another's prompt.
OwnConversation ==
    Linux \/ ~mixed =>
        /\ \A s \in Server : \A i \in 1 .. Len(history[s]) :
              history[s][i] = Prompt(peer[s], i)
        /\ \A c \in Client : \A i \in 1 .. Len(outcome[c]) :
              outcome[c][i] # None => outcome[c][i][1] = c

\* Whatever was mixed up or cut short by a crash, a descriptor a client is given
\* was written for the reply to a prompt that some client sent and some server
\* took: never a slot that was written in part, or not at all, or for a request.
DescriptorsGenuine ==
    \A c \in Client : \A x \in Range(outcome[c]) \ {None} :
        /\ \E d \in Client : \E t \in 1 .. turn[d] : x = Prompt(d, t)
        /\ \E s \in Server : x \in Range(history[s])

\* Nobody is left behind: in the end every client that was started has ended,
\* and so has every server that accepted a connection, whoever crashed.
EveryoneEnds ==
    <>[](/\ \A c \in Client : pc[c] = "off" \/ Ended(c)
         /\ \A s \in Server : spc[s] \in {"off", "listening"} \/ Ended(s))
=============================================================================
