---------------------------- MODULE UdpRpcProofs ----------------------------
(***************************************************************************)
(* Proofs about UdpRpc, for any number of clients and turns, any payload   *)
(* sizes and any network, with timeouts at any moment, and a backend that  *)
(* may raise.                                                              *)
(*                                                                         *)
(* The steps of the service are steps of the transport (TransportStep), so *)
(* the invariants of ErpcEndpoint carry over.  They are about unique ids;  *)
(* ids of two clients collide at the server, but those from and to one     *)
(* client are unique (ServiceIds), which is what Genuine asks for.         *)
(*                                                                         *)
(* Turns < CompletedCap is a hypothesis of most theorems: the duplicate    *)
(* cache of the server must not forget an id of the session (with 4096     *)
(* ids, it holds those of every session the repository runs).  Two         *)
(* theorems are about one client at the server (OneClient): they are       *)
(* false for two.                                                          *)
(*                                                                         *)
(* The last part, The service in time, is about sessions in which nothing  *)
(* is late, and what they implement.                                       *)
(***************************************************************************)
EXTENDS UdpRpc, ErpcEndpointProofs

-----------------------------------------------------------------------------
(* The payloads of the service *)

LEMMA ServiceTexts ==
    /\ \A p \in Prompts : p \in Text /\ ReplyTo(p) \in Text
    /\ \A c \in Client, t \in 1 .. Turns : Prompt(c, t) \in Prompts
    /\ GarbledReply \in Text /\ ShutdownText \in Text
BY UdpRpcAssumption DEF Prompts

\* Prompts, replies and the shutdown message are told apart, and each prompt
\* by its client and turn.
LEMMA TextsDiffer ==
    /\ \A p \in Prompts : p # ShutdownText /\ ReplyTo(p) \notin Prompts
    /\ GarbledReply \notin Prompts
    /\ \A p, q \in Prompts : ReplyTo(p) = ReplyTo(q) => p = q
    /\ \A c, d \in Client, t, u \in 1 .. Turns :
          Prompt(c, t) = Prompt(d, u) => c = d /\ t = u
<1>1. \A p \in Prompts : p.role = "user" /\ p # ShutdownText
    BY DEF Prompts, Prompt, ShutdownText
<1>2. \A p \in Prompts : ReplyTo(p).role = "assistant"
    BY DEF Prompts, Prompt, ReplyTo
<1>3. GarbledReply.role = "assistant"
    BY DEF GarbledReply
<1>4. ASSUME NEW p \in Prompts, NEW q \in Prompts, ReplyTo(p) = ReplyTo(q)
      PROVE  p = q
    <2>1. PICK c \in Client, t \in 1 .. Turns : p = Prompt(c, t)
        BY DEF Prompts
    <2>2. PICK d \in Client, u \in 1 .. Turns : q = Prompt(d, u)
        BY DEF Prompts
    <2>3. /\ ReplyTo(p).client = c /\ ReplyTo(p).turn = t
          /\ ReplyTo(q).client = d /\ ReplyTo(q).turn = u
        BY <2>1, <2>2 DEF ReplyTo, Prompt
    <2> QED
        BY <1>4, <2>1, <2>2, <2>3
<1>5. ASSUME NEW c \in Client, NEW d \in Client,
             NEW t \in 1 .. Turns, NEW u \in 1 .. Turns,
             Prompt(c, t) = Prompt(d, u)
      PROVE  c = d /\ t = u
    BY <1>5 DEF Prompt
<1> QED
    BY <1>1, <1>2, <1>3, <1>4, <1>5

LEMMA WholeType ==
    ASSUME NEW t \in Text
    PROVE  /\ Whole(t) \in SUBSET Part
           /\ \E p \in Whole(t) : p.text = t
<1>1. Indices(t) \subseteq Nat /\ Indices(t) # {}
    BY IndicesType
<1>2. PICK i \in Indices(t) : TRUE
    BY <1>1
<1>3. [idx |-> i, text |-> t] \in Whole(t)
    BY DEF Whole
<1> QED
    BY <1>1, <1>3 DEF Whole, Part

LEMMA WholeInjective ==
    ASSUME NEW t \in Text, NEW u \in Text, Whole(t) = Whole(u)
    PROVE  t = u
<1>1. PICK p \in Whole(t) : p.text = t
    BY WholeType
<1>2. p.text = u
    BY <1>1 DEF Whole
<1> QED
    BY <1>1, <1>2

\* What the server sends is a reply, and to a whole prompt the reply to it.
LEMMA ReplyTextType ==
    ASSUME NEW body
    PROVE  /\ ReplyText(body) \in Text
           /\ ReplyText(body) \notin Prompts
           /\ \A p \in Prompts : body = Whole(p) => ReplyText(body) = ReplyTo(p)
<1> DEFINE chosen == CHOOSE p \in Prompts : body = Whole(p)
<1>1. CASE \E p \in Prompts : body = Whole(p)
    <2>1. chosen \in Prompts /\ body = Whole(chosen) /\ ReplyText(body) = ReplyTo(chosen)
        BY <1>1 DEF ReplyText
    <2>2. \A p \in Prompts : body = Whole(p) => p = chosen
        BY <2>1, ServiceTexts, WholeInjective
    <2> HIDE DEF chosen
    <2> QED
        BY <2>1, <2>2, ServiceTexts, TextsDiffer
<1>2. CASE ~\E p \in Prompts : body = Whole(p)
    BY <1>2, ServiceTexts, TextsDiffer DEF ReplyText
<1> QED
    BY <1>1, <1>2

-----------------------------------------------------------------------------
(* Types *)

AppTypes ==
    /\ pc \in [Client -> {"idle", "sending", "receiving", "closing", "done"}]
    /\ turn \in [Client -> 0 .. Turns]
    /\ outcome \in [Client -> Seq(SUBSET Part)]
    /\ spc \in {"receiving", "generating", "replying", "stopped", "dead"}
    /\ req \in Received \cup {None}
    /\ history \in Seq(SUBSET Part)
    /\ \A c \in Client :
          pc[c] \in {"sending", "closing"} <=> sending[c] # None
    /\ spc = "replying" <=> sending[Server] # None
    /\ spc = "generating" => req \in Received

UdpTypes == TypeInv /\ AppTypes

\* The requests of a client, and the server's response.
RequestOf(c, text) ==
    [src |-> c, dst |-> Server, id |-> turn[c] + 1, flags |-> "REQUEST",
     text |-> text]

Response ==
    [src |-> Server, dst |-> req.src, id |-> req.id, flags |-> "RESPONSE",
     text |-> ReplyText(req.body)]

LEMMA Processes ==
    /\ Server \in Endpoint /\ Server \notin Client
    /\ Client \subseteq Endpoint /\ Endpoint = Client \cup {Server}
    /\ Turns \in Nat \ {0} /\ 1 .. Turns + 1 \subseteq MsgId
BY UdpRpcAssumption

LEMMA RequestType ==
    ASSUME AppTypes, NEW c \in Client
    PROVE  /\ RequestOf(c, ShutdownText) \in Message
           /\ turn[c] < Turns => RequestOf(c, Prompt(c, turn[c] + 1)) \in Message
<1>1. turn[c] \in 0 .. Turns /\ turn[c] + 1 \in MsgId
    BY Processes DEF AppTypes
<1>2. turn[c] < Turns => Prompt(c, turn[c] + 1) \in Text
    BY <1>1, Processes, ServiceTexts
<1> QED
    BY <1>1, <1>2, Processes, ServiceTexts DEF RequestOf, Message, Flags

LEMMA ResponseType ==
    ASSUME AppTypes, Generating
    PROVE  Response \in Message
<1>1. req.src \in Endpoint /\ req.id \in MsgId
    BY DEF AppTypes, Generating, Received
<1> QED
    BY <1>1, Processes, ReplyTextType DEF Response, Message, Flags

\* Whatever a step does to the service, it is a step of the transport.
LEMMA TransportStep ==
    ASSUME UdpTypes, [UdpNext]_vars
    PROVE  [Next]_endpointVars
<1>1. ASSUME NEW c \in Client, ClientStep(c)
      PROVE  [Next]_endpointVars
    <2>1. CASE StartTurn(c)
        <3>1. Send(RequestOf(c, Prompt(c, turn[c] + 1))) /\ turn[c] < Turns
            BY <2>1 DEF StartTurn, RequestOf
        <3> QED
            BY <3>1, RequestType DEF UdpTypes, Next
    <2>2. CASE StartShutdown(c)
        <3>1. Send(RequestOf(c, ShutdownText))
            BY <2>2 DEF StartShutdown, RequestOf
        <3> QED
            BY <3>1, RequestType DEF UdpTypes, Next
    <2>3. CASE Leave(c) \/ ClientRecvTimeout(c)
        BY <2>3 DEF Leave, ClientRecvTimeout
    <2>4. CASE ClientSent(c) \/ ClientSendFails(c) \/ ClientReceives(c)
        BY <2>4, Processes
           DEF ClientSent, ClientSendFails, ClientReceives, Next, Step
    <2> QED
        BY <1>1, <2>1, <2>2, <2>3, <2>4 DEF ClientStep
<1>2. ASSUME ServerStep
      PROVE  [Next]_endpointVars
    <2>1. CASE GenerateReturns
        <3>1. Send(Response) /\ Generating
            BY <2>1 DEF GenerateReturns, Response
        <3> QED
            BY <3>1, ResponseType DEF UdpTypes, Next
    <2>2. CASE GenerateRaises \/ ServerIdleTimeout
        BY <2>2 DEF GenerateRaises, ServerIdleTimeout
    <2>3. CASE ServerReceives \/ ServerSent
        BY <2>3, Processes DEF ServerReceives, ServerSent, Next, Step
    <2> QED
        BY <1>2, <2>1, <2>2, <2>3 DEF ServerStep
<1>3. ASSUME NEW e \in Endpoint, PollOne(e) \/ RoundAgain(e) \/ Crash(e)
      PROVE  [Next]_endpointVars
    BY <1>3 DEF PollOne, RoundAgain, Crash, Next, Step
<1>4. CASE LoseOne
    BY <1>4 DEF LoseOne, Next
<1>5. CASE Finished \/ UNCHANGED vars
    BY <1>5 DEF Finished, vars
<1> QED
    BY <1>1, <1>2, <1>3, <1>4, <1>5 DEF UdpNext

LEMMA ReceivedType ==
    ASSUME TypeInv, NEW e \in Endpoint, Recv(e)
    PROVE  /\ NextReceived(e) \in Received
           /\ NextReceived(e).id = Head(ready[e])
           /\ NextReceived(e).id \in Range(ready[e])
           /\ inb[e][NextReceived(e).id] \in InMsg
           /\ NextReceived(e).src = inb[e][NextReceived(e).id].src
           /\ NextReceived(e).body \subseteq inb[e][NextReceived(e).id].parts
<1>1. PopReady(e) /\ CanAssemble(inb[e][Head(ready[e])]) /\ TypeOK
    BY DEF Recv, TypeInv
<1>2. /\ Head(ready[e]) \in MsgId
      /\ Head(ready[e]) \in Range(ready[e])
    BY <1>1, PopEffect
<1>3. inb[e][Head(ready[e])] \in InMsg
    BY <1>1, <1>2 DEF CanAssemble, TypeOK
<1> QED
    BY <1>2, <1>3 DEF NextReceived, ReceivedFrom, Received, InMsg

\* The steps that leave the service and its calls alone.
Quiet ==
    \/ \E e \in Endpoint : PollOne(e) \/ RoundAgain(e) \/ Crash(e)
    \/ LoseOne
    \/ Finished
    \/ UNCHANGED vars

LEMMA QuietFrame ==
    ASSUME Quiet
    PROVE  UNCHANGED <<sending, sent, acked, popped, pc, turn, outcome, spc,
                       req, history>>
<1>1. ASSUME NEW e \in Endpoint, PollOne(e)
      PROVE  UNCHANGED <<sending, sent, acked, popped, appVars>>
    BY <1>1 DEF PollOne, Poll, PollAck, PollDuplicate, PollPartial, PollComplete,
                senderVars, historyVars
<1>2. ASSUME NEW e \in Endpoint, RoundAgain(e)
      PROVE  UNCHANGED <<sending, sent, acked, popped, appVars>>
    BY <1>2 DEF RoundAgain, Retransmit, historyVars
<1>3. ASSUME NEW e \in Endpoint, Crash(e)
      PROVE  UNCHANGED <<sending, sent, acked, popped, appVars>>
    BY <1>3 DEF Crash, RecvKeyError, PopReady, senderVars
<1>4. CASE LoseOne
    BY <1>4 DEF LoseOne, Lose, senderVars, appVars
<1>5. CASE Finished \/ UNCHANGED vars
    BY <1>5 DEF Finished, vars, endpointVars, senderVars, historyVars, appVars
<1> QED
    BY <1>1, <1>2, <1>3, <1>4, <1>5 DEF Quiet, appVars

LEMMA Steps ==
    ASSUME [UdpNext]_vars
    PROVE  Quiet \/ ServerStep \/ \E c \in Client : ClientStep(c)
BY DEF UdpNext, Quiet

\* send_message ends, by returning or by a timeout.
SendEnds(e) == SendReturns(e) \/ GiveUp(e) \/ SendDeadline(e)

LEMMA SendEndsEffect ==
    ASSUME TypeOK, NEW e \in Endpoint, SendEnds(e)
    PROVE  /\ sending[e] # None /\ sending'[e] = None
           /\ \A f \in Endpoint : f # e => sending'[f] = sending[f]
           /\ UNCHANGED <<sent, popped, evicted, completed, failed>>
<1>1. /\ sending[e] # None /\ sending' = [sending EXCEPT ![e] = None]
      /\ UNCHANGED <<sent, popped, evicted, completed, failed>>
    BY DEF SendEnds, SendReturns, GiveUp, RoundDue, SendDeadline, receiverVars,
           historyVars
<1> QED
    BY <1>1 DEF TypeOK

LEMMA SendEffect ==
    ASSUME TypeOK, NEW m \in Message, Send(m)
    PROVE  /\ sending[m.src] = None /\ sending'[m.src] = m /\ m # None
           /\ \A f \in Endpoint : f # m.src => sending'[f] = sending[f]
           /\ sent' = sent \cup {m}
           /\ UNCHANGED <<popped, evicted, completed, failed>>
<1>1. m.src \in Endpoint /\ m # None
    BY EndpointAssumption DEF Message
<1> QED
    BY <1>1 DEF Send, TypeOK, receiverVars

LEMMA RecvEffect ==
    ASSUME TypeInv, NEW e \in Endpoint, Recv(e)
    PROVE  /\ UNCHANGED <<sending, sent, evicted, completed, failed>>
           /\ sending[e] = None
           /\ popped'[e] = Append(popped[e], NextReceived(e))
           /\ \A f \in Endpoint : f # e => popped'[f] = popped[f]
           /\ PoppedIds(e)' = PoppedIds(e) \cup {NextReceived(e).id}
           /\ \A f \in Endpoint : f # e => PoppedIds(f)' = PoppedIds(f)
<1> DEFINE r == NextReceived(e)
<1>1. /\ popped[e] \in Seq(Received) /\ r \in Received
      /\ popped' = [popped EXCEPT ![e] = Append(@, r)]
      /\ UNCHANGED <<sending, sent, evicted, completed, failed>>
      /\ sending[e] = None
    BY ReceivedType DEF TypeInv, TypeOK, Recv, PopReady, senderVars
<1>2. /\ popped'[e] = Append(popped[e], r)
      /\ \A f \in Endpoint : f # e => popped'[f] = popped[f]
    BY <1>1 DEF TypeInv, TypeOK
<1> HIDE DEF r
<1>3. /\ 1 .. Len(popped'[e]) = (1 .. Len(popped[e])) \cup {Len(popped[e]) + 1}
      /\ \A i \in 1 .. Len(popped[e]) : popped'[e][i] = popped[e][i]
      /\ popped'[e][Len(popped[e]) + 1] = r
    BY <1>1, <1>2, AppendIndices, LenProperties
<1>4. PoppedIds(e)' = PoppedIds(e) \cup {r.id}
    BY <1>3 DEF PoppedIds
<1>5. ASSUME NEW f \in Endpoint, f # e
      PROVE  PoppedIds(f)' = PoppedIds(f)
    BY <1>2, <1>5 DEF PoppedIds
<1> QED
    BY <1>1, <1>2, <1>4, <1>5 DEF r

LEMMA AppTypesClient ==
    ASSUME UdpTypes, NEW c \in Client, ClientStep(c)
    PROVE  AppTypes'
<1>1. /\ TypeOK /\ TypeInv /\ AppTypes /\ c \in Endpoint /\ Server \in Endpoint
      /\ c # Server /\ Client \subseteq Endpoint /\ Turns \in Nat
    BY Processes DEF UdpTypes, TypeInv
<1>2. Error \in SUBSET Part
    BY DEF Error
<1>3. \A body \in SUBSET Part :
         Returned(c, body) => outcome' \in [Client -> Seq(SUBSET Part)]
    <2>1. ASSUME NEW body \in SUBSET Part, Returned(c, body)
          PROVE  outcome' \in [Client -> Seq(SUBSET Part)]
        <3>1. Append(outcome[c], body) \in Seq(SUBSET Part)
            BY <1>1, AppendIndices DEF AppTypes
        <3> QED
            BY <1>1, <2>1, <3>1 DEF AppTypes, Returned
    <2> QED
        BY <2>1
<1>4. CASE StartTurn(c)
    <2>1. /\ Send(RequestOf(c, Prompt(c, turn[c] + 1)))
          /\ RequestOf(c, Prompt(c, turn[c] + 1)) \in Message
          /\ RequestOf(c, Prompt(c, turn[c] + 1)).src = c
        BY <1>1, <1>4, RequestType DEF StartTurn, RequestOf
    <2>2. /\ sending[c] = None /\ sending'[c] # None
          /\ \A f \in Endpoint : f # c => sending'[f] = sending[f]
        BY <1>1, <2>1, SendEffect
    <2>3. /\ pc' = [pc EXCEPT ![c] = "sending"]
          /\ turn' = [turn EXCEPT ![c] = @ + 1] /\ turn[c] < Turns
          /\ UNCHANGED <<outcome, spc, req, history>>
        BY <1>4 DEF StartTurn
    <2> QED
        BY <1>1, <2>2, <2>3 DEF AppTypes
<1>5. CASE StartShutdown(c)
    <2>1. /\ Send(RequestOf(c, ShutdownText))
          /\ RequestOf(c, ShutdownText) \in Message
          /\ RequestOf(c, ShutdownText).src = c
        BY <1>1, <1>5, RequestType DEF StartShutdown, RequestOf
    <2>2. /\ sending[c] = None /\ sending'[c] # None
          /\ \A f \in Endpoint : f # c => sending'[f] = sending[f]
        BY <1>1, <2>1, SendEffect
    <2>3. /\ pc' = [pc EXCEPT ![c] = "closing"]
          /\ UNCHANGED <<turn, outcome, spc, req, history>>
        BY <1>5 DEF StartShutdown
    <2> QED
        BY <1>1, <2>2, <2>3 DEF AppTypes
<1>6. CASE Leave(c)
    <2>1. /\ pc' = [pc EXCEPT ![c] = "done"] /\ pc[c] = "idle"
          /\ UNCHANGED <<sending, turn, outcome, spc, req, history>>
        BY <1>6 DEF Leave, endpointVars, senderVars
    <2> QED
        BY <1>1, <2>1 DEF AppTypes
<1>7. CASE ClientSent(c) \/ ClientSendFails(c)
    <2>1. SendEnds(c)
        BY <1>7 DEF ClientSent, ClientSendFails, SendEnds
    <2>2. /\ sending[c] # None /\ sending'[c] = None
          /\ \A f \in Endpoint : f # c => sending'[f] = sending[f]
        BY <1>1, <2>1, SendEndsEffect
    <2>3. /\ pc' \in [Client -> {"idle", "sending", "receiving", "closing", "done"}]
          /\ pc'[c] \in {"idle", "receiving", "done"}
          /\ \A d \in Client : d # c => pc'[d] = pc[d]
          /\ UNCHANGED <<turn, spc, req, history>>
        BY <1>1, <1>7 DEF ClientSent, ClientSendFails, AppTypes
    <2>4. outcome' \in [Client -> Seq(SUBSET Part)]
        BY <1>1, <1>2, <1>3, <1>7 DEF ClientSent, ClientSendFails, AppTypes
    <2> QED
        BY <1>1, <2>2, <2>3, <2>4 DEF AppTypes
<1>8. CASE ClientReceives(c) \/ ClientRecvTimeout(c)
    <2>1. sending' = sending
        BY <1>1, <1>8, RecvEffect
           DEF ClientReceives, ClientRecvTimeout, endpointVars, senderVars
    <2>2. /\ pc[c] = "receiving" /\ pc' = [pc EXCEPT ![c] = "idle"]
          /\ UNCHANGED <<turn, spc, req, history>>
        BY <1>8 DEF ClientReceives, ClientRecvTimeout
    <2>3. outcome' \in [Client -> Seq(SUBSET Part)]
        <3>1. CASE ClientReceives(c)
            <4>1. NextReceived(c).body \in SUBSET Part
                BY <1>1, <3>1, ReceivedType DEF ClientReceives, Received
            <4> QED
                BY <1>3, <3>1, <4>1 DEF ClientReceives
        <3>2. CASE ClientRecvTimeout(c)
            BY <1>2, <1>3, <3>2 DEF ClientRecvTimeout
        <3> QED
            BY <1>8, <3>1, <3>2
    <2> QED
        BY <1>1, <2>1, <2>2, <2>3 DEF AppTypes
<1> QED
    BY <1>4, <1>5, <1>6, <1>7, <1>8 DEF ClientStep

LEMMA AppTypesServer ==
    ASSUME UdpTypes, ServerStep
    PROVE  AppTypes'
<1>1. /\ TypeOK /\ TypeInv /\ AppTypes /\ Server \in Endpoint
      /\ Server \notin Client /\ Client \subseteq Endpoint
    BY Processes DEF UdpTypes, TypeInv
<1>2. ASSUME NEW body \in SUBSET Part, history' = Append(history, body)
      PROVE  history' \in Seq(SUBSET Part)
    BY <1>1, <1>2, AppendIndices DEF AppTypes
<1>3. CASE ServerReceives
    <2>1. Recv(Server) /\ UNCHANGED <<pc, turn, outcome>> /\ spc = "receiving"
        BY <1>3 DEF ServerReceives
    <2>2. sending' = sending /\ NextReceived(Server) \in Received
        BY <1>1, <2>1, RecvEffect, ReceivedType
    <2>3. NextReceived(Server).body \in SUBSET Part
        BY <2>2 DEF Received
    <2>4. \/ UNCHANGED <<req, history>> /\ spc' \in {spc, "stopped"}
          \/ /\ spc' = "generating" /\ req' = NextReceived(Server)
             /\ history' = Append(history, NextReceived(Server).body)
        BY <1>3 DEF ServerReceives
    <2> QED
        BY <1>1, <1>2, <2>1, <2>2, <2>3, <2>4 DEF AppTypes
<1>4. CASE GenerateReturns
    <2>1. /\ Send(Response) /\ Response \in Message /\ Response.src = Server
        BY <1>1, <1>4, ResponseType DEF GenerateReturns, Response
    <2>2. /\ sending'[Server] # None
          /\ \A f \in Endpoint : f # Server => sending'[f] = sending[f]
        BY <1>1, <2>1, SendEffect
    <2>3. /\ history' = Append(history, Whole(ReplyText(req.body)))
          /\ spc' = "replying" /\ UNCHANGED <<pc, turn, outcome, req>>
        BY <1>4 DEF GenerateReturns
    <2>4. history' \in Seq(SUBSET Part)
        BY <1>2, <2>3, ReplyTextType, WholeType
    <2> QED
        BY <1>1, <2>2, <2>3, <2>4 DEF AppTypes
<1>5. CASE ServerSent
    <2>1. SendEnds(Server) /\ spc' = "receiving"
        BY <1>5 DEF ServerSent, SendEnds
    <2>2. UNCHANGED <<pc, turn, outcome, req, history>>
        BY <1>5 DEF ServerSent
    <2>3. /\ sending'[Server] = None
          /\ \A f \in Endpoint : f # Server => sending'[f] = sending[f]
        BY <1>1, <2>1, SendEndsEffect
    <2> QED
        BY <1>1, <2>1, <2>2, <2>3 DEF AppTypes
<1>6. CASE GenerateRaises \/ ServerIdleTimeout
    <2>1. /\ sending' = sending /\ UNCHANGED <<pc, turn, outcome, req, history>>
          /\ spc \in {"generating", "receiving"} /\ spc' \in {"dead", "stopped"}
        BY <1>6 DEF GenerateRaises, ServerIdleTimeout, Generating, endpointVars,
                    senderVars
    <2> QED
        BY <1>1, <2>1 DEF AppTypes
<1> QED
    BY <1>3, <1>4, <1>5, <1>6 DEF ServerStep

LEMMA UdpTypesStep ==
    ASSUME UdpTypes, [UdpNext]_vars
    PROVE  UdpTypes'
<1>1. TypeInv'
    BY TransportStep, TypeStep DEF UdpTypes
<1>2. ASSUME Quiet
      PROVE  AppTypes'
    BY <1>2, QuietFrame DEF UdpTypes, AppTypes
<1> QED
    BY <1>1, <1>2, Steps, AppTypesClient, AppTypesServer DEF UdpTypes

LEMMA UdpTypesInit == UdpInit => UdpTypes
BY TypeInit, Processes, EmptySeq DEF UdpInit, Init, UdpTypes, AppTypes

\* The clients, the server and the transport keep their types, and a process
\* is inside send_message exactly when its program counter says so.
THEOREM UdpTypeCorrect == UdpSpec => []UdpTypeOK
<1>1. UdpTypes => UdpTypeOK
    BY DEF UdpTypes, TypeInv, AppTypes, UdpTypeOK
<1>2. UdpTypes /\ [UdpNext]_vars => UdpTypes'
    BY UdpTypesStep
<1> QED
    BY <1>1, <1>2, UdpTypesInit, PTL DEF UdpSpec

-----------------------------------------------------------------------------
(* Message ids.  A client draws them from its own counter and the server   *)
(* answers under the id of the request, so two clients' requests collide   *)
(* at the server.  But a client never uses an id twice, and as long as the *)
(* duplicate cache of the server holds the ids of a session, neither does  *)
(* the server.                                                             *)

ClientSends ==
    \A m \in sent : m.src \in Client =>
        /\ m.dst = Server /\ m.flags = "REQUEST"
        /\ \/ m.id \in 1 .. turn[m.src] /\ m.text = Prompt(m.src, m.id)
           \/ /\ m.id = Turns + 1 /\ m.text = ShutdownText
              /\ pc[m.src] \in {"closing", "done"}

ServerSends ==
    \A m \in sent : m.src = Server =>
        /\ m.dst \in Client /\ m.flags = "RESPONSE"
        /\ m.id \in PoppedIds(Server)
        /\ Generating => m.id # req.id

RequestServed ==
    Generating =>
        /\ req.id \in PoppedIds(Server)
        /\ req.src \in Client
        /\ req.body # Whole(ShutdownText)

\* No id was dropped: a session's ids fit in every cache.
NothingEvicted ==
    \A e \in Endpoint : completed[e] \subseteq 1 .. Turns + 1 /\ evicted[e] = {}

IdsInv ==
    /\ ClientSends /\ ServerSends /\ UniqueFrom(Server)
    /\ RequestServed
    /\ NothingEvicted

UdpInv == UdpTypes /\ DedupInv /\ Genuine /\ IdsInv

LEMMA PoppedDone ==
    ASSUME UdpInv, NEW e \in Endpoint
    PROVE  /\ PoppedIds(e) \subseteq Done(e) /\ Range(ready[e]) \subseteq Done(e)
           /\ Range(ready[e]) \cap PoppedIds(e) = {}
           /\ Done(e) = completed[e] /\ Done(e) \subseteq 1 .. Turns + 1
BY DEF UdpInv, IdsInv, NothingEvicted, DedupInv, QueueConsistent, Done

LEMMA SentFrom ==
    ASSUME UdpInv, NEW m \in sent
    PROVE  /\ m \in Message
           /\ \/ m.src \in Client /\ m.dst = Server
              \/ m.src = Server /\ m.dst \in Client
           /\ m.id \in 1 .. Turns + 1
<1>1. /\ TypeOK /\ ClientSends /\ ServerSends
      /\ turn \in [Client -> 0 .. Turns]
    BY DEF UdpInv, UdpTypes, TypeInv, AppTypes, IdsInv
<1>2. m \in Message /\ m.src \in Client \cup {Server}
    BY <1>1, SentTyped, Processes
<1>3. CASE m.src \in Client
    BY <1>1, <1>2, <1>3, Processes DEF ClientSends
<1>4. CASE m.src = Server
    BY <1>1, <1>2, <1>4, Processes, PoppedDone DEF ServerSends
<1> QED
    BY <1>2, <1>3, <1>4

\* What the ids of the service give the transport.
LEMMA ServiceIds ==
    ASSUME UdpInv, NEW c \in Client
    PROVE  UniqueFrom(c) /\ UniqueTo(c)
<1>1. /\ TypeOK /\ ClientSends /\ UniqueFrom(Server)
      /\ turn \in [Client -> 0 .. Turns] /\ Turns \in Nat
    BY Processes DEF UdpInv, UdpTypes, TypeInv, AppTypes, IdsInv
<1>2. ASSUME NEW m \in sent, NEW n \in sent, m.src = c, n.src = c, m.id = n.id
      PROVE  m = n
    <2>1. m \in Message /\ n \in Message
        BY SentFrom
    <2>2. /\ m.dst = n.dst /\ m.flags = n.flags
          /\ m.text = n.text
        BY <1>1, <1>2 DEF ClientSends
    <2> QED
        BY <1>2, <2>1, <2>2 DEF Message
<1>3. ASSUME NEW m \in sent, NEW n \in sent, m.dst = c, n.dst = c, m.id = n.id
      PROVE  m = n
    <2>1. m.src = Server /\ n.src = Server
        BY <1>3, SentFrom, Processes
    <2> QED
        BY <1>1, <1>3, <2>1 DEF UniqueFrom
<1> QED
    BY <1>2, <1>3 DEF UniqueFrom, UniqueTo

\* What recv_message of the server returns is new, and from a client.
LEMMA ServerReceivesNew ==
    ASSUME UdpInv, Recv(Server)
    PROVE  /\ NextReceived(Server).id \notin PoppedIds(Server)
           /\ NextReceived(Server).src \in Client
           /\ NextReceived(Server).id \in 1 .. Turns + 1
<1>1. /\ NextReceived(Server).id \in Range(ready[Server])
      /\ NextReceived(Server).id \in MsgId
      /\ inb[Server][NextReceived(Server).id] \in InMsg
      /\ NextReceived(Server).src = inb[Server][NextReceived(Server).id].src
    BY Processes, ReceivedType DEF UdpInv, UdpTypes, Received
<1>2. inb[Server][NextReceived(Server).id] # None
    BY <1>1, EndpointAssumption
<1>3. PICK m \in sent : m.dst = Server /\ m.src = NextReceived(Server).src
    BY <1>1, <1>2, Processes DEF UdpInv, Genuine, ReceiverInv, PartsSent
<1> QED
    BY <1>1, <1>3, PoppedDone, SentFrom, Processes

-----------------------------------------------------------------------------
(* The caches have room *)

LEMMA DistinctRoom ==
    ASSUME NEW S, NEW q \in Seq(S), Distinct(q), NEW n \in Nat \ {0},
           NEW x \in 1 .. n, Range(q) \subseteq (1 .. n) \ {x}
    PROVE  Len(q) < n
<1>1. /\ Len(q) \in Nat /\ DOMAIN q = 1 .. Len(q)
      /\ q \in [1 .. Len(q) -> Range(q)]
    BY LenProperties DEF Range
<1>2. q \in [1 .. Len(q) -> (1 .. n) \ {x}]
    BY <1>1
<1>3. q \in Injection(1 .. Len(q), (1 .. n) \ {x})
    BY <1>2 DEF Injection, IsInjective, Distinct
<1>4. /\ IsFiniteSet((1 .. n) \ {x})
      /\ Cardinality((1 .. n) \ {x}) = n - 1
    <2>1. IsFiniteSet(1 .. n) /\ Cardinality(1 .. n) = n
        BY FS_Interval
    <2> QED
        BY <2>1, FS_RemoveElement
<1>5. Cardinality(1 .. Len(q)) = Len(q)
    BY <1>1, FS_Interval
<1>6. Cardinality(1 .. Len(q)) <= Cardinality((1 .. n) \ {x})
    BY <1>3, <1>4, FS_Injection
<1> QED
    BY <1>1, <1>4, <1>5, <1>6

LEMMA CompleteKeepsAll ==
    ASSUME Turns < CompletedCap, UdpInv, NEW e \in Endpoint, NEW d \in net,
           PollComplete(e, d)
    PROVE  NothingEvicted'
<1> DEFINE q == completedOrder[e]
<1>1. /\ TypeOK /\ Genuine /\ CacheOf(e) /\ Arrives(e, d, "data")
      /\ d.id \notin completed[e] /\ Remember(e, d.id) /\ NothingEvicted
    BY DEF UdpInv, UdpTypes, TypeInv, DedupInv, PollComplete, IsDuplicate, IdsInv
<1>2. d.id \in 1 .. Turns + 1
    <2>1. PICK m \in sent : m.id = d.id
        BY <1>1, FragmentOrigin
    <2> QED
        BY <2>1, SentFrom
<1>3. /\ q \in Seq(MsgId) /\ Distinct(q)
      /\ Range(q) \subseteq (1 .. Turns + 1) \ {d.id}
      /\ Turns + 1 \in Nat \ {0} /\ CompletedCap \in Nat
    BY <1>1, Processes, EndpointAssumption DEF TypeOK, CacheOf, NothingEvicted
<1>4. Len(q) < Turns + 1 /\ Len(q) \in Nat
    BY <1>2, <1>3, DistinctRoom, LenProperties
<1>5. ~CacheFull(e)
    BY <1>3, <1>4, Processes DEF CacheFull
<1>6. /\ completed' = [completed EXCEPT ![e] = @ \cup {d.id}]
      /\ evicted' = [evicted EXCEPT ![e] = @]
    BY <1>1, <1>5 DEF Remember
<1> QED
    BY <1>1, <1>2, <1>6 DEF NothingEvicted, TypeOK

LEMMA NothingEvictedStep ==
    ASSUME Turns < CompletedCap, UdpInv, [Next]_endpointVars
    PROVE  NothingEvicted'
<1> DEFINE frame == UNCHANGED <<completed, evicted>>
<1>1. ASSUME frame
      PROVE  NothingEvicted'
    BY <1>1 DEF UdpInv, IdsInv, NothingEvicted
<1>2. ASSUME NEW m \in Message, Send(m)
      PROVE  frame
    BY <1>2 DEF Send, receiverVars
<1>3. ASSUME NEW e \in Endpoint,
             Retransmit(e) \/ GiveUp(e) \/ SendDeadline(e) \/ SendReturns(e)
      PROVE  frame
    BY <1>3 DEF Retransmit, GiveUp, SendDeadline, SendReturns, receiverVars,
                historyVars
<1>4. ASSUME NEW e \in Endpoint, NEW d \in net,
             PollAck(e, d) \/ PollDuplicate(e, d) \/ PollPartial(e, d)
      PROVE  frame
    BY <1>4 DEF PollAck, PollDuplicate, PollPartial, receiverVars, historyVars
<1>5. ASSUME NEW e \in Endpoint, Recv(e) \/ RecvKeyError(e)
      PROVE  frame
    BY <1>5 DEF Recv, RecvKeyError, PopReady
<1>6. ASSUME (\E d \in net : Lose(d)) \/ UNCHANGED endpointVars
      PROVE  frame
    BY <1>6 DEF Lose, endpointVars, receiverVars, historyVars
<1> HIDE DEF frame
<1> QED
    BY <1>1, <1>2, <1>3, <1>4, <1>5, <1>6, CompleteKeepsAll DEF Next, Step, Poll

-----------------------------------------------------------------------------
(* The ids are drawn as IdsInv says *)

SendInv == ClientSends /\ ServerSends /\ UniqueFrom(Server) /\ RequestServed

LEMMA SendInvQuiet ==
    ASSUME UdpInv, Quiet
    PROVE  SendInv'
<1>1. UNCHANGED <<sent, popped, pc, turn, spc, req>>
    BY QuietFrame
<1>2. PoppedIds(Server)' = PoppedIds(Server) /\ Generating' = Generating
    BY <1>1 DEF PoppedIds, Generating
<1> QED
    BY <1>1, <1>2
       DEF UdpInv, IdsInv, SendInv, ClientSends, ServerSends, UniqueFrom,
           RequestServed, Prompt, Whole, Indices, FragCount, ShutdownText

\* A client's call sends a message under an id it has not used.
LEMMA SendInvRequest ==
    ASSUME UdpInv, NEW c \in Client, StartTurn(c) \/ StartShutdown(c)
    PROVE  SendInv'
<1>1. /\ TypeOK /\ TypeInv /\ AppTypes /\ ClientSends /\ ServerSends
      /\ UniqueFrom(Server) /\ RequestServed
      /\ c # Server /\ Server \notin Client /\ Turns \in Nat
      /\ turn \in [Client -> 0 .. Turns]
    BY Processes DEF UdpInv, UdpTypes, TypeInv, AppTypes, IdsInv
<1>2. /\ pc[c] = "idle" /\ UNCHANGED <<outcome, spc, req, history>>
      /\ \A x \in Client : x # c => pc'[x] = pc[x] /\ turn'[x] = turn[x]
      /\ turn'[c] \in turn[c] .. Turns /\ turn'[c] \in Nat
    BY <1>1 DEF StartTurn, StartShutdown, AppTypes
<1>3. PICK m \in Message :
         /\ Send(m) /\ m.src = c /\ m.dst = Server /\ m.flags = "REQUEST"
         /\ \/ m.id \in 1 .. turn'[c] /\ m.text = Prompt(c, m.id)
            \/ m.id = Turns + 1 /\ m.text = ShutdownText /\ pc'[c] = "closing"
    <2>1. CASE StartTurn(c)
        <3>1. /\ Send(RequestOf(c, Prompt(c, turn[c] + 1))) /\ turn[c] < Turns
              /\ turn'[c] = turn[c] + 1
            BY <1>1, <2>1 DEF StartTurn, RequestOf
        <3>2. RequestOf(c, Prompt(c, turn[c] + 1)) \in Message
            BY <1>1, <3>1, RequestType
        <3> QED
            BY <1>1, <3>1, <3>2 DEF RequestOf
    <2>2. CASE StartShutdown(c)
        <3>1. /\ Send(RequestOf(c, ShutdownText)) /\ turn[c] = Turns
              /\ pc'[c] = "closing"
            BY <1>1, <2>2 DEF StartShutdown, RequestOf, AppTypes
        <3>2. RequestOf(c, ShutdownText) \in Message
            BY <1>1, RequestType
        <3> QED
            BY <1>1, <3>1, <3>2 DEF RequestOf
    <2> QED
        BY <2>1, <2>2
<1>4. sent' = sent \cup {m} /\ popped' = popped
    BY <1>1, <1>3, SendEffect
<1>5. PoppedIds(Server)' = PoppedIds(Server) /\ Generating' = Generating
    BY <1>2, <1>4 DEF PoppedIds, Generating
<1>6. ClientSends'
    <2> SUFFICES ASSUME NEW n \in sent', n.src \in Client
                 PROVE  /\ n.dst = Server /\ n.flags = "REQUEST"
                        /\ \/ n.id \in 1 .. turn'[n.src] /\ n.text = Prompt(n.src, n.id)
                           \/ /\ n.id = Turns + 1 /\ n.text = ShutdownText
                              /\ pc'[n.src] \in {"closing", "done"}
        BY DEF ClientSends, Prompt, ShutdownText
    <2>1. CASE n = m
        BY <1>3, <2>1
    <2>2. CASE n \in sent /\ n.src = c
        BY <1>1, <1>2, <2>2 DEF ClientSends
    <2>3. CASE n \in sent /\ n.src # c
        BY <1>1, <1>2, <2>3 DEF ClientSends
    <2> QED
        BY <1>4, <2>1, <2>2, <2>3
<1>7. ServerSends' /\ UniqueFrom(Server)'
    BY <1>1, <1>2, <1>3, <1>4, <1>5 DEF ServerSends, UniqueFrom
<1>8. RequestServed'
    BY <1>1, <1>2, <1>5 DEF RequestServed, Whole, Indices, FragCount, ShutdownText
<1> QED
    BY <1>6, <1>7, <1>8 DEF SendInv

\* The other steps of a client send nothing and lose nothing of the server's.
LEMMA SendInvClient ==
    ASSUME UdpInv, NEW c \in Client, ClientStep(c)
    PROVE  SendInv'
<1>1. CASE StartTurn(c) \/ StartShutdown(c)
    BY <1>1, SendInvRequest
<1>2. CASE ~(StartTurn(c) \/ StartShutdown(c))
    <2>1. /\ TypeOK /\ TypeInv /\ AppTypes /\ c \in Endpoint /\ c # Server
          /\ ClientSends /\ ServerSends /\ UniqueFrom(Server) /\ RequestServed
          /\ pc \in [Client -> {"idle", "sending", "receiving", "closing", "done"}]
        BY Processes DEF UdpInv, UdpTypes, TypeInv, AppTypes, IdsInv
    <2>2. /\ UNCHANGED <<turn, spc, req>>
          /\ \A x \in Client : pc[x] \in {"closing", "done"} => pc'[x] \in {"closing", "done"}
        <3>1. CASE ClientSent(c) \/ ClientSendFails(c)
            <4>1. SendEnds(c)
                BY <3>1 DEF ClientSent, ClientSendFails, SendEnds
            <4>2. pc[c] \in {"sending", "closing"}
                BY <2>1, <4>1, SendEndsEffect DEF AppTypes
            <4> QED
                BY <2>1, <3>1, <4>2 DEF ClientSent, ClientSendFails
        <3>2. CASE Leave(c) \/ ClientReceives(c) \/ ClientRecvTimeout(c)
            BY <2>1, <3>2 DEF Leave, ClientReceives, ClientRecvTimeout
        <3> QED
            BY <1>2, <3>1, <3>2 DEF ClientStep
    <2>3. sent' = sent /\ PoppedIds(Server)' = PoppedIds(Server)
        <3>1. CASE ClientSent(c) \/ ClientSendFails(c)
            <4>1. SendEnds(c)
                BY <3>1 DEF ClientSent, ClientSendFails, SendEnds
            <4> QED
                BY <2>1, <4>1, SendEndsEffect DEF PoppedIds
        <3>2. CASE ClientReceives(c)
            BY <2>1, <3>2, RecvEffect, Processes DEF ClientReceives
        <3>3. CASE Leave(c) \/ ClientRecvTimeout(c)
            BY <3>3 DEF Leave, ClientRecvTimeout, endpointVars, historyVars, PoppedIds
        <3> QED
            BY <1>2, <3>1, <3>2, <3>3 DEF ClientStep
    <2> QED
        BY <2>1, <2>2, <2>3
           DEF SendInv, ClientSends, ServerSends, UniqueFrom, RequestServed,
               Generating, Prompt, Whole, Indices, FragCount, ShutdownText
<1> QED
    BY <1>1, <1>2

\* The server sends under the id of a request it has just received, once.
LEMMA SendInvServer ==
    ASSUME UdpInv, ServerStep
    PROVE  SendInv'
<1>1. /\ TypeOK /\ TypeInv /\ AppTypes /\ Server \in Endpoint
      /\ Server \notin Client
      /\ ClientSends /\ ServerSends /\ UniqueFrom(Server) /\ RequestServed
    BY Processes DEF UdpInv, UdpTypes, TypeInv, IdsInv
<1>2. ASSUME UNCHANGED <<sent, pc, turn>>
      PROVE  ClientSends' /\ UniqueFrom(Server)'
    BY <1>1, <1>2 DEF ClientSends, UniqueFrom, Prompt, ShutdownText
<1>3. CASE ServerReceives
    <2> DEFINE r == NextReceived(Server)
    <2>1. Recv(Server) /\ UNCHANGED <<pc, turn>> /\ spc = "receiving"
        BY <1>3 DEF ServerReceives
    <2>2. /\ r.id \notin PoppedIds(Server) /\ r.src \in Client
        BY <2>1, ServerReceivesNew
    <2>3. sent' = sent /\ PoppedIds(Server)' = PoppedIds(Server) \cup {r.id}
        BY <1>1, <2>1, RecvEffect
    <2>4. \/ spc' # "generating"
          \/ req' = r /\ r.body # Whole(ShutdownText)
        BY <1>3, <2>1 DEF ServerReceives
    <2> HIDE DEF r
    <2>5. ServerSends'
        BY <1>1, <2>2, <2>3, <2>4 DEF ServerSends, Generating
    <2>6. RequestServed'
        BY <2>2, <2>3, <2>4
           DEF RequestServed, Generating, Whole, Indices, FragCount, ShutdownText
    <2> QED
        BY <1>2, <2>1, <2>3, <2>5, <2>6 DEF SendInv
<1>4. CASE GenerateReturns
    <2>1. /\ Send(Response) /\ Response \in Message /\ Response.src = Server
          /\ Response.dst = req.src /\ Response.id = req.id
          /\ Response.flags = "RESPONSE"
          /\ Generating /\ spc' # "generating"
        BY <1>1, <1>4, ResponseType DEF GenerateReturns, Response
    <2>2. sent' = sent \cup {Response} /\ PoppedIds(Server)' = PoppedIds(Server)
        BY <1>1, <2>1, SendEffect DEF PoppedIds
    <2>3. UNCHANGED <<pc, turn, req>>
        BY <1>4 DEF GenerateReturns
    <2> HIDE DEF Response
    <2>4. PICK m \in Message : m = Response
        BY <2>1
    <2>5. ClientSends'
        BY <1>1, <2>1, <2>2, <2>3, <2>4 DEF ClientSends, Prompt, ShutdownText
    <2>6. ServerSends'
        BY <1>1, <2>1, <2>2, <2>4 DEF ServerSends, RequestServed, Generating
    <2>7. UniqueFrom(Server)'
        BY <1>1, <2>1, <2>2, <2>4 DEF ServerSends, UniqueFrom
    <2> QED
        BY <2>1, <2>5, <2>6, <2>7 DEF SendInv, RequestServed, Generating
<1>5. CASE ServerSent \/ GenerateRaises \/ ServerIdleTimeout
    <2>1. UNCHANGED <<pc, turn>> /\ spc' # "generating"
        BY <1>5 DEF ServerSent, GenerateRaises, ServerIdleTimeout
    <2>2. UNCHANGED <<sent, popped>>
        <3>1. ServerSent => SendEnds(Server)
            BY DEF ServerSent, SendEnds
        <3> QED
            BY <1>1, <1>5, <3>1, SendEndsEffect
               DEF GenerateRaises, ServerIdleTimeout, endpointVars, historyVars
    <2>3. PoppedIds(Server)' = PoppedIds(Server)
        BY <2>2 DEF PoppedIds
    <2> QED
        BY <1>1, <1>2, <2>1, <2>2, <2>3
           DEF SendInv, ServerSends, RequestServed, Generating
<1> QED
    BY <1>3, <1>4, <1>5 DEF ServerStep

LEMMA UdpInvStep ==
    ASSUME Turns < CompletedCap, UdpInv, [UdpNext]_vars
    PROVE  UdpInv'
<1>1. UdpTypes /\ TypeInv /\ [Next]_endpointVars
    BY TransportStep DEF UdpInv, UdpTypes
<1>2. UdpTypes'
    BY <1>1, UdpTypesStep
<1>3. TypeInv' /\ DedupInv'
    BY <1>1, <1>2, DedupStep DEF UdpInv, UdpTypes
<1>4. Genuine'
    BY <1>1, <1>3, GenuineStep DEF UdpInv
<1>5. NothingEvicted'
    BY <1>1, NothingEvictedStep
<1>6. SendInv'
    BY Steps, SendInvQuiet, SendInvClient, SendInvServer
<1> QED
    BY <1>2, <1>3, <1>4, <1>5, <1>6 DEF UdpInv, IdsInv, SendInv

LEMMA UdpInvInit == UdpInit => UdpInv
<1> SUFFICES ASSUME UdpInit
             PROVE  UdpInv
    OBVIOUS
<1>1. Init /\ UdpTypes /\ DedupInv /\ Genuine
    BY UdpTypesInit, DedupInit, GenuineInit DEF UdpInit
<1>2. ClientSends /\ ServerSends /\ UniqueFrom(Server) /\ NothingEvicted
    BY <1>1 DEF Init, ClientSends, ServerSends, UniqueFrom, NothingEvicted
<1>3. RequestServed
    BY DEF UdpInit, RequestServed, Generating
<1> QED
    BY <1>1, <1>2, <1>3 DEF UdpInv, IdsInv

\* The inductive invariant of the service.
THEOREM UdpInvariant ==
    ASSUME Turns < CompletedCap
    PROVE  UdpSpec => []UdpInv
<1>1. UdpInv /\ [UdpNext]_vars => UdpInv'
    BY UdpInvStep
<1> QED
    BY <1>1, UdpInvInit, PTL DEF UdpSpec

\* recv_message raises KeyError at no client, however many share the server
\* and however their ids collide there, as long as the duplicate caches hold
\* the ids of a session.
THEOREM ClientsSafe ==
    ASSUME Turns < CompletedCap
    PROVE  UdpSpec => []ClientsSurvive
<1>1. ASSUME UdpInv, NEW c \in Client
      PROVE  c \notin failed
    BY <1>1, ServiceIds, Processes
       DEF UdpInv, IdsInv, NothingEvicted, Genuine, ReceiverInv, ReceiverGenuine
<1>2. UdpInv => ClientsSurvive
    BY <1>1 DEF ClientsSurvive
<1> QED
    BY <1>2, UdpInvariant, PTL

-----------------------------------------------------------------------------
(* What the backend is shown *)

\* A prompt in the history was returned under its turn's id, and is there once.
PromptsOnce ==
    \A i \in 1 .. Len(history) : \A c \in Client, t \in 1 .. Turns :
        history[i] = Whole(Prompt(c, t)) =>
            /\ t \in PoppedIds(Server)
            /\ \A j \in 1 .. Len(history) : history[j] = history[i] => j = i

\* The request recv_message of the server returned was shown to the backend.
RequestsShown ==
    \A i \in 1 .. Len(popped[Server]) :
        /\ popped[Server][i].flags = "REQUEST"
        /\ popped[Server][i].body # Whole(ShutdownText)
        => popped[Server][i].body \in Range(history)

HistoryInv == PromptsOnce /\ RequestsShown

\* A whole prompt arrives under the id of its turn only.
LEMMA PromptsId ==
    ASSUME UdpInv, Recv(Server), NEW c \in Client, NEW t \in 1 .. Turns,
           NextReceived(Server).body = Whole(Prompt(c, t))
    PROVE  NextReceived(Server).id = t
<1> DEFINE r == NextReceived(Server)
<1>1. /\ r.id \in MsgId /\ inb[Server][r.id] \in InMsg
      /\ r.body \subseteq inb[Server][r.id].parts
    BY Processes, ReceivedType DEF UdpInv, UdpTypes, Received
<1>2. Prompt(c, t) \in Text /\ Prompt(c, t) # ShutdownText
    BY ServiceTexts, TextsDiffer
<1>3. PICK p \in Whole(Prompt(c, t)) : p.text = Prompt(c, t)
    BY <1>2, WholeType
<1>4. PICK m \in sent : m.dst = Server /\ m.id = r.id /\ p \in Whole(m.text)
    BY <1>1, <1>3, Processes, EndpointAssumption
       DEF UdpInv, Genuine, ReceiverInv, PartsSent
<1>5. m.text = Prompt(c, t)
    BY <1>3, <1>4 DEF Whole
<1>6. m.src \in Client
    BY <1>4, SentFrom, Processes
<1>7. m.id \in 1 .. turn[m.src] /\ m.text = Prompt(m.src, m.id)
    BY <1>2, <1>5, <1>6 DEF UdpInv, IdsInv, ClientSends
<1>8. turn[m.src] \in 0 .. Turns
    BY <1>6 DEF UdpInv, UdpTypes, AppTypes
<1>9. m.id \in 1 .. Turns
    BY <1>7, <1>8, Processes
<1> HIDE DEF r
<1>10. Prompt(c, t) = Prompt(m.src, m.id)
    BY <1>5, <1>7
<1>11. m.id = t
    BY <1>6, <1>9, <1>10, TextsDiffer
<1> QED
    BY <1>4, <1>11 DEF r

LEMMA HistorySteps ==
    ASSUME UdpInv, [UdpNext]_vars
    PROVE  \/ ServerReceives
           \/ GenerateReturns
           \/ history' = history /\ popped'[Server] = popped[Server]
<1>1. TypeOK /\ TypeInv /\ Server \in Endpoint /\ Server \notin Client
    BY Processes DEF UdpInv, UdpTypes, TypeInv
<1>2. ASSUME NEW c \in Client, ClientStep(c)
      PROVE  history' = history /\ popped'[Server] = popped[Server]
    <2>1. CASE StartTurn(c) \/ StartShutdown(c)
        BY <2>1 DEF StartTurn, StartShutdown, Send
    <2>2. CASE ClientSent(c) \/ ClientSendFails(c)
        <3>1. SendEnds(c)
            BY <2>2 DEF ClientSent, ClientSendFails, SendEnds
        <3> QED
            BY <1>1, <2>2, <3>1, SendEndsEffect, Processes
               DEF ClientSent, ClientSendFails
    <2>3. CASE ClientReceives(c)
        BY <1>1, <2>3, RecvEffect, Processes DEF ClientReceives
    <2>4. CASE Leave(c) \/ ClientRecvTimeout(c)
        BY <2>4 DEF Leave, ClientRecvTimeout, endpointVars, historyVars
    <2> QED
        BY <1>2, <2>1, <2>2, <2>3, <2>4 DEF ClientStep
<1>3. CASE ServerSent
    <2>1. SendEnds(Server)
        BY <1>3 DEF ServerSent, SendEnds
    <2> QED
        BY <1>1, <1>3, <2>1, SendEndsEffect DEF ServerSent
<1>4. CASE GenerateRaises \/ ServerIdleTimeout
    BY <1>4 DEF GenerateRaises, ServerIdleTimeout, endpointVars, historyVars
<1> QED
    BY <1>2, <1>3, <1>4, Steps, QuietFrame DEF ServerStep

\* A step on the history only ever appends to it.
LEMMA HistoryGrows ==
    ASSUME UdpInv, [UdpNext]_vars
    PROVE  /\ history \in Seq(SUBSET Part)
           /\ \/ history' = history
              \/ \E body \in SUBSET Part : history' = Append(history, body)
           /\ Range(history) \subseteq Range(history')
<1>1. TypeInv /\ history \in Seq(SUBSET Part)
    BY DEF UdpInv, UdpTypes, AppTypes
<1>2. CASE ServerReceives
    <2>1. NextReceived(Server).body \in SUBSET Part
        BY <1>1, <1>2, ReceivedType, Processes DEF ServerReceives, Received
    <2>2. history' = history \/ history' = Append(history, NextReceived(Server).body)
        BY <1>2 DEF ServerReceives
    <2>3. Range(Append(history, NextReceived(Server).body))
             = Range(history) \cup {NextReceived(Server).body}
        BY <1>1, <2>1, AppendRange
    <2>4. Range(history) \subseteq Range(history')
        BY <2>2, <2>3
    <2> QED
        BY <1>1, <2>1, <2>2, <2>4
<1>3. CASE GenerateReturns
    <2>1. Whole(ReplyText(req.body)) \in SUBSET Part
        BY ReplyTextType, WholeType
    <2>2. history' = Append(history, Whole(ReplyText(req.body)))
        BY <1>3 DEF GenerateReturns
    <2> QED
        BY <1>1, <2>1, <2>2, AppendRange
<1> QED
    BY <1>1, <1>2, <1>3, HistorySteps

\* Appending to the history a body that is a prompt only if it is new.
LEMMA PromptsOnceKept ==
    ASSUME history \in Seq(SUBSET Part), PromptsOnce,
           PoppedIds(Server) \subseteq PoppedIds(Server)',
           NEW body \in SUBSET Part, history' = Append(history, body),
           \A c \in Client, t \in 1 .. Turns : body = Whole(Prompt(c, t)) =>
               t \in PoppedIds(Server)' /\ t \notin PoppedIds(Server)
    PROVE  PromptsOnce'
<1> DEFINE n == Len(history)
<1>1. /\ n \in Nat /\ 1 .. Len(history') = (1 .. n) \cup {n + 1}
      /\ \A i \in 1 .. n : history'[i] = history[i]
      /\ history'[n + 1] = body
    BY AppendIndices, AppendProperties
<1>2. ASSUME NEW i \in 1 .. Len(history'), NEW c \in Client, NEW t \in 1 .. Turns,
             history'[i] = Whole(Prompt(c, t))
      PROVE  /\ t \in PoppedIds(Server)'
             /\ \A j \in 1 .. Len(history') : history'[j] = history'[i] => j = i
    <2>1. CASE i \in 1 .. n
        <3>1. t \in PoppedIds(Server) /\ body # Whole(Prompt(c, t))
            BY <1>1, <1>2, <2>1 DEF PromptsOnce
        <3> QED
            BY <1>1, <1>2, <2>1, <3>1 DEF PromptsOnce
    <2>2. CASE i = n + 1
        <3>1. t \in PoppedIds(Server)' /\ t \notin PoppedIds(Server)
            BY <1>1, <1>2, <2>2
        <3>2. \A j \in 1 .. n : history[j] # Whole(Prompt(c, t))
            BY <3>1 DEF PromptsOnce
        <3> QED
            BY <1>1, <1>2, <2>2, <3>1, <3>2
    <2> QED
        BY <1>1, <2>1, <2>2
<1>3. \A c \in Client, t \in 1 .. Turns : Whole(Prompt(c, t))' = Whole(Prompt(c, t))
    BY DEF Whole, Indices, FragCount, Prompt
<1> QED
    BY <1>2, <1>3 DEF PromptsOnce

LEMMA HistoryInvStep ==
    ASSUME UdpInv, HistoryInv, [UdpNext]_vars
    PROVE  HistoryInv'
<1>1. /\ TypeInv /\ Server \in Endpoint
      /\ history \in Seq(SUBSET Part) /\ Range(history) \subseteq Range(history')
    BY Processes, HistoryGrows DEF UdpInv, UdpTypes
<1>2. CASE ServerReceives
    <2> DEFINE r == NextReceived(Server)
    <2>1. Recv(Server)
        BY <1>2 DEF ServerReceives
    <2>2. /\ PoppedIds(Server)' = PoppedIds(Server) \cup {r.id}
          /\ popped'[Server] = Append(popped[Server], r)
          /\ r \in Received /\ r.body \in SUBSET Part
          /\ popped[Server] \in Seq(Received)
        BY <1>1, <2>1, RecvEffect, ReceivedType DEF TypeInv, TypeOK, Received
    <2>3. /\ r.id \notin PoppedIds(Server)
          /\ \A c \in Client, t \in 1 .. Turns :
                r.body = Whole(Prompt(c, t)) => r.id = t
        BY <2>1, ServerReceivesNew, PromptsId
    <2>4. \/ history' = history /\ (r.flags # "REQUEST" \/ r.body = Whole(ShutdownText))
          \/ history' = Append(history, r.body)
        BY <1>2 DEF ServerReceives
    <2> HIDE DEF r
    <2>5. PromptsOnce'
        <3>1. CASE history' = history
            BY <2>2, <3>1
               DEF HistoryInv, PromptsOnce, Whole, Indices, FragCount, Prompt
        <3>2. CASE history' = Append(history, r.body)
            BY <1>1, <2>2, <2>3, <3>2, PromptsOnceKept DEF HistoryInv
        <3> QED
            BY <2>4, <3>1, <3>2
    <2>6. RequestsShown'
        <3> DEFINE p == popped[Server]
                   pp == popped'[Server]
        <3>1. /\ 1 .. Len(pp) = (1 .. Len(p)) \cup {Len(p) + 1}
              /\ \A i \in 1 .. Len(p) : pp[i] = p[i]
              /\ pp[Len(p) + 1] = r
            BY <2>2, AppendIndices, AppendProperties
        <3>2. r.flags = "REQUEST" /\ r.body # Whole(ShutdownText)
                 => r.body \in Range(history')
            <4>1. Range(Append(history, r.body)) = Range(history) \cup {r.body}
                BY <1>1, <2>2, AppendRange
            <4> QED
                BY <2>4, <4>1
        <3>3. ASSUME NEW i \in 1 .. Len(pp), pp[i].flags = "REQUEST",
                     pp[i].body # Whole(ShutdownText)
              PROVE  pp[i].body \in Range(history')
            BY <1>1, <3>1, <3>2, <3>3 DEF HistoryInv, RequestsShown
        <3> QED
            BY <3>3 DEF RequestsShown, Whole, Indices, FragCount, ShutdownText
    <2> QED
        BY <2>5, <2>6 DEF HistoryInv
<1>3. CASE GenerateReturns
    <2>1. popped' = popped /\ history' = Append(history, Whole(ReplyText(req.body)))
        BY <1>3 DEF GenerateReturns, Send
    <2>2. Whole(ReplyText(req.body)) \in SUBSET Part
        BY ReplyTextType, WholeType
    <2>3. \A c \in Client, t \in 1 .. Turns :
             Whole(ReplyText(req.body)) # Whole(Prompt(c, t))
        BY ReplyTextType, ServiceTexts, WholeInjective
    <2>4. PromptsOnce'
        <3>1. PoppedIds(Server)' = PoppedIds(Server)
            BY <2>1 DEF PoppedIds
        <3> QED
            BY <1>1, <2>1, <2>2, <2>3, <3>1, PromptsOnceKept DEF HistoryInv
    <2>5. RequestsShown'
        BY <1>1, <2>1
           DEF HistoryInv, RequestsShown, Whole, Indices, FragCount, ShutdownText
    <2> QED
        BY <2>4, <2>5 DEF HistoryInv
<1>4. CASE history' = history /\ popped'[Server] = popped[Server]
    BY <1>4 DEF HistoryInv, PromptsOnce, RequestsShown, PoppedIds, Whole, Indices,
                FragCount, Prompt, ShutdownText
<1> QED
    BY <1>2, <1>3, <1>4, HistorySteps

LEMMA HistoryInvInit == UdpInit => HistoryInv
<1> SUFFICES ASSUME UdpInit
             PROVE  HistoryInv
    OBVIOUS
<1>1. history = <<>> /\ popped[Server] = <<>>
    BY Processes DEF UdpInit, Init
<1>2. 1 .. Len(history) = {} /\ 1 .. Len(popped[Server]) = {}
    BY <1>1
<1> QED
    BY <1>2 DEF HistoryInv, PromptsOnce, RequestsShown

LEMMA HistoryInvariant ==
    ASSUME Turns < CompletedCap
    PROVE  UdpSpec => []HistoryInv
<1>1. UdpInv /\ HistoryInv /\ [UdpNext]_vars => HistoryInv'
    BY HistoryInvStep
<1> QED
    BY <1>1, HistoryInvInit, UdpInvariant, PTL DEF UdpSpec

\* The backend is shown no prompt twice, whatever is lost, retransmitted or
\* repeated and whoever else uses the server, as long as the duplicate cache
\* holds the ids of a session.
THEOREM PromptsServedOnce ==
    ASSUME Turns < CompletedCap
    PROVE  UdpSpec => []ServedOnce
<1>1. ASSUME HistoryInv, NEW p \in Prompts
      PROVE  Cardinality({i \in 1 .. Len(history) : history[i] = Whole(p)}) <= 1
    <2> DEFINE shown == {i \in 1 .. Len(history) : history[i] = Whole(p)}
    <2>1. PICK c \in Client, t \in 1 .. Turns : p = Prompt(c, t)
        BY DEF Prompts
    <2>2. \A i, j \in shown : i = j
        BY <1>1, <2>1 DEF HistoryInv, PromptsOnce
    <2>3. shown = {} \/ \E i : shown = {i}
        BY <2>2
    <2> HIDE DEF shown
    <2>4. Cardinality(shown) \in {0, 1}
        BY <2>3, FS_EmptySet, FS_Singleton
    <2> QED
        BY <2>4 DEF shown
<1>2. HistoryInv => ServedOnce
    BY <1>1 DEF ServedOnce
<1> QED
    BY <1>2, HistoryInvariant, PTL

-----------------------------------------------------------------------------
(* The calls of the clients *)

\* What a step of a client does to its calls.
LEMMA ClientMoves ==
    ASSUME UdpInv, NEW c \in Client, ClientStep(c)
    PROVE  \/ /\ pc[c] = "idle" /\ pc'[c] = "sending" /\ turn'[c] = turn[c] + 1
              /\ sending'[c].id = turn'[c] /\ sending'[c].dst = Server
              /\ UNCHANGED <<outcome, popped>>
           \/ /\ pc[c] \in {"idle", "closing"} /\ pc'[c] \in {"closing", "done"}
              /\ UNCHANGED <<turn, outcome, popped>>
           \/ /\ pc[c] = "sending" /\ pc'[c] = "receiving" /\ SendReturns(c)
              /\ UNCHANGED <<turn, outcome, popped>>
           \/ /\ pc[c] \in {"sending", "receiving"} /\ pc'[c] = "idle"
              /\ outcome'[c] = Append(outcome[c], Error)
              /\ UNCHANGED <<turn, popped>>
           \/ /\ pc[c] = "receiving" /\ pc'[c] = "idle" /\ Recv(c)
              /\ outcome'[c] = Append(outcome[c], NextReceived(c).body)
              /\ turn' = turn
<1>1. /\ TypeOK /\ AppTypes /\ c \in Endpoint /\ Turns \in Nat
      /\ pc \in [Client -> {"idle", "sending", "receiving", "closing", "done"}]
      /\ turn \in [Client -> 0 .. Turns]
      /\ outcome \in [Client -> Seq(SUBSET Part)]
    BY Processes DEF UdpInv, UdpTypes, TypeInv, AppTypes
<1>2. CASE StartTurn(c)
    <2>1. /\ Send(RequestOf(c, Prompt(c, turn[c] + 1))) /\ turn[c] < Turns
          /\ turn'[c] = turn[c] + 1
        BY <1>1, <1>2 DEF StartTurn, RequestOf
    <2>2. RequestOf(c, Prompt(c, turn[c] + 1)) \in Message
        BY <1>1, <2>1, RequestType
    <2>3. sending'[c] = RequestOf(c, Prompt(c, turn[c] + 1)) /\ popped' = popped
        BY <1>1, <2>1, <2>2, SendEffect DEF RequestOf
    <2>4. sending'[c].id = turn'[c] /\ sending'[c].dst = Server
        BY <2>1, <2>3 DEF RequestOf
    <2> QED
        BY <1>1, <1>2, <2>1, <2>3, <2>4 DEF StartTurn
<1>3. CASE StartShutdown(c)
    <2>1. popped' = popped
        BY <1>3 DEF StartShutdown, Send
    <2> QED
        BY <1>1, <1>3, <2>1 DEF StartShutdown
<1>4. CASE Leave(c)
    BY <1>1, <1>4 DEF Leave, endpointVars, historyVars
<1>5. CASE ClientSent(c) \/ ClientSendFails(c)
    <2>1. SendEnds(c)
        BY <1>5 DEF ClientSent, ClientSendFails, SendEnds
    <2>2. popped' = popped /\ pc[c] \in {"sending", "closing"}
        BY <1>1, <2>1, SendEndsEffect DEF AppTypes
    <2> QED
        BY <1>1, <1>5, <2>2 DEF ClientSent, ClientSendFails, Returned
<1>6. CASE ClientReceives(c)
    BY <1>1, <1>6 DEF ClientReceives, Returned
<1>7. CASE ClientRecvTimeout(c)
    BY <1>1, <1>7 DEF ClientRecvTimeout, Returned, endpointVars, historyVars
<1> QED
    BY <1>2, <1>3, <1>4, <1>5, <1>6, <1>7 DEF ClientStep

\* A step of anybody else leaves the calls of a client alone.
LEMMA OthersMove ==
    ASSUME UdpInv, [UdpNext]_vars, NEW c \in Client, ~ClientStep(c)
    PROVE  /\ pc'[c] = pc[c] /\ turn'[c] = turn[c] /\ outcome'[c] = outcome[c]
           /\ sending'[c] = sending[c] /\ popped'[c] = popped[c]
<1>1. /\ TypeOK /\ TypeInv /\ AppTypes /\ c \in Endpoint /\ Server \in Endpoint
      /\ c # Server /\ Client \subseteq Endpoint
      /\ DOMAIN pc = Client /\ DOMAIN turn = Client /\ DOMAIN outcome = Client
    BY Processes DEF UdpInv, UdpTypes, TypeInv, AppTypes
<1>2. CASE ServerStep
    <2>1. UNCHANGED <<pc, turn, outcome>>
        BY <1>2 DEF ServerStep, ServerReceives, GenerateReturns, GenerateRaises,
                    ServerSent, ServerIdleTimeout
    <2>2. CASE ServerReceives
        BY <1>1, <2>1, <2>2, RecvEffect DEF ServerReceives
    <2>3. CASE GenerateReturns
        <3>1. Send(Response) /\ Response \in Message /\ Response.src = Server
            BY <1>1, <2>3, ResponseType DEF GenerateReturns, Response
        <3> QED
            BY <1>1, <2>1, <3>1, SendEffect
    <2>4. CASE ServerSent
        <3>1. SendEnds(Server)
            BY <2>4 DEF ServerSent, SendEnds
        <3> QED
            BY <1>1, <2>1, <3>1, SendEndsEffect
    <2>5. CASE GenerateRaises \/ ServerIdleTimeout
        BY <2>1, <2>5 DEF GenerateRaises, ServerIdleTimeout, endpointVars,
                          senderVars, historyVars
    <2> QED
        BY <1>2, <2>2, <2>3, <2>4, <2>5 DEF ServerStep
<1>3. ASSUME NEW d \in Client, d # c, ClientStep(d)
      PROVE  /\ pc'[c] = pc[c] /\ turn'[c] = turn[c] /\ outcome'[c] = outcome[c]
             /\ sending'[c] = sending[c] /\ popped'[c] = popped[c]
    <2>1. d \in Endpoint
        BY <1>1
    <2>2. CASE StartTurn(d)
        <3>1. /\ Send(RequestOf(d, Prompt(d, turn[d] + 1)))
              /\ RequestOf(d, Prompt(d, turn[d] + 1)) \in Message
              /\ RequestOf(d, Prompt(d, turn[d] + 1)).src = d
            BY <1>1, <2>2, RequestType DEF StartTurn, RequestOf
        <3>2. sending'[c] = sending[c] /\ popped' = popped
            BY <1>1, <1>3, <3>1, SendEffect
        <3> QED
            BY <1>1, <1>3, <2>2, <3>2 DEF StartTurn
    <2>3. CASE StartShutdown(d)
        <3>1. /\ Send(RequestOf(d, ShutdownText))
              /\ RequestOf(d, ShutdownText) \in Message
              /\ RequestOf(d, ShutdownText).src = d
            BY <1>1, <2>3, RequestType DEF StartShutdown, RequestOf
        <3>2. sending'[c] = sending[c] /\ popped' = popped
            BY <1>1, <1>3, <3>1, SendEffect
        <3> QED
            BY <1>1, <1>3, <2>3, <3>2 DEF StartShutdown
    <2>4. CASE Leave(d)
        BY <1>1, <1>3, <2>4 DEF Leave, endpointVars, senderVars, historyVars
    <2>5. CASE ClientSent(d) \/ ClientSendFails(d)
        <3>1. SendEnds(d)
            BY <2>5 DEF ClientSent, ClientSendFails, SendEnds
        <3>2. sending'[c] = sending[c] /\ popped' = popped
            BY <1>1, <1>3, <2>1, <3>1, SendEndsEffect
        <3> QED
            BY <1>1, <1>3, <2>5, <3>2 DEF ClientSent, ClientSendFails, Returned
    <2>6. CASE ClientReceives(d)
        <3>1. sending' = sending /\ popped'[c] = popped[c]
            BY <1>1, <1>3, <2>1, <2>6, RecvEffect DEF ClientReceives
        <3> QED
            BY <1>1, <1>3, <2>6, <3>1 DEF ClientReceives, Returned
    <2>7. CASE ClientRecvTimeout(d)
        BY <1>1, <1>3, <2>7
           DEF ClientRecvTimeout, Returned, endpointVars, senderVars, historyVars
    <2> QED
        BY <1>3, <2>2, <2>3, <2>4, <2>5, <2>6, <2>7 DEF ClientStep
<1>4. CASE Quiet
    BY <1>4, QuietFrame
<1> QED
    BY <1>2, <1>3, <1>4, Steps

LEMMA TurnsGrow ==
    ASSUME UdpInv, [UdpNext]_vars, NEW c \in Client
    PROVE  turn[c] \in Nat /\ turn'[c] \in Nat /\ turn[c] <= turn'[c]
<1>1. turn \in [Client -> 0 .. Turns] /\ Turns \in Nat
    BY Processes DEF UdpInv, UdpTypes, AppTypes
<1>2. turn'[c] \in {turn[c], turn[c] + 1}
    BY ClientMoves, OthersMove
<1> QED
    BY <1>1, <1>2

\* A client in a turn has sent its request, and waits for the reply only when
\* the server has completed the request.  Each turn has one outcome.
WaitInv(c) ==
    /\ pc[c] = "sending" => sending[c].id = turn[c] /\ sending[c].dst = Server
    /\ pc[c] = "receiving" => turn[c] \in Done(Server)
    /\ turn[c] = Len(outcome[c])
                   + (IF pc[c] \in {"sending", "receiving"} THEN 1 ELSE 0)

LEMMA DoneGrows ==
    ASSUME UdpInv, [UdpNext]_vars
    PROVE  Done(Server) \subseteq Done(Server)'
<1>1. TypeInv /\ DedupInv /\ [Next]_endpointVars
    BY TransportStep DEF UdpInv, UdpTypes
<1> QED
    BY <1>1, GrowthStep, Processes DEF Growth

LEMMA WaitInvStep ==
    ASSUME UdpInv, NEW c \in Client, WaitInv(c), [UdpNext]_vars
    PROVE  WaitInv(c)'
<1>1. /\ Done(Server) \subseteq Done(Server)' /\ c \in Endpoint
      /\ outcome[c] \in Seq(SUBSET Part) /\ turn[c] \in Nat
      /\ Len(outcome[c]) \in Nat
    BY DoneGrows, TurnsGrow, Processes, LenProperties DEF UdpInv, UdpTypes, AppTypes
<1>2. CASE ~ClientStep(c)
    BY <1>1, <1>2, OthersMove DEF WaitInv
<1>3. CASE ClientStep(c)
    <2>1. CASE pc[c] = "sending" /\ pc'[c] = "receiving" /\ SendReturns(c)
               /\ UNCHANGED <<turn, outcome, popped>>
        <3>1. sending[c] # None /\ Pending(c) = None
            BY <2>1 DEF SendReturns
        <3>2. sending[c].id \in Done(sending[c].dst)
            BY <1>1, <3>1, ServiceIds DEF UdpInv, Genuine, ReturnsJustified
        <3> QED
            BY <1>1, <2>1, <3>2 DEF WaitInv
    <2>2. \A body \in SUBSET Part : Len(Append(outcome[c], body)) = Len(outcome[c]) + 1
        BY <1>1, AppendProperties
    <2>3. Error \in SUBSET Part
        BY DEF Error
    <2>4. Recv(c) => NextReceived(c).body \in SUBSET Part
        BY <1>1, ReceivedType DEF UdpInv, UdpTypes, Received
    <2>5. CASE /\ pc[c] = "idle" /\ pc'[c] = "sending" /\ turn'[c] = turn[c] + 1
               /\ sending'[c].id = turn'[c] /\ sending'[c].dst = Server
               /\ UNCHANGED <<outcome, popped>>
        <3>1. turn[c] = Len(outcome[c])
            BY <1>1, <2>5 DEF WaitInv
        <3>2. turn'[c] = Len(outcome'[c]) + 1
            BY <2>5, <3>1
        <3> QED
            BY <2>5, <3>2 DEF WaitInv
    <2>6. CASE /\ pc[c] \in {"idle", "closing"} /\ pc'[c] \in {"closing", "done"}
               /\ UNCHANGED <<turn, outcome, popped>>
        BY <1>1, <2>6 DEF WaitInv
    <2>7. CASE /\ pc[c] \in {"sending", "receiving"} /\ pc'[c] = "idle"
               /\ Len(outcome'[c]) = Len(outcome[c]) + 1
               /\ turn' = turn
        BY <1>1, <2>7 DEF WaitInv
    <2> QED
        BY <1>3, <2>1, <2>2, <2>3, <2>4, <2>5, <2>6, <2>7, ClientMoves
<1> QED
    BY <1>2, <1>3

LEMMA WaitInvInit ==
    ASSUME UdpInit, NEW c \in Client
    PROVE  WaitInv(c)
<1>1. pc[c] = "idle" /\ turn[c] = 0 /\ outcome[c] = <<>>
    BY DEF UdpInit
<1> QED
    BY <1>1 DEF WaitInv

LEMMA WaitInvariant ==
    ASSUME Turns < CompletedCap
    PROVE  UdpSpec => [](\A c \in Client : WaitInv(c))
<1>1. UdpInv /\ (\A c \in Client : WaitInv(c)) /\ [UdpNext]_vars
          => (\A c \in Client : WaitInv(c))'
    BY WaitInvStep
<1>2. UdpInit => \A c \in Client : WaitInv(c)
    BY WaitInvInit
<1> QED
    BY <1>1, <1>2, UdpInvariant, PTL DEF UdpSpec

-----------------------------------------------------------------------------
(* One client at the server.  The ids of two clients collide there, so what *)
(* the server returns to one is genuine only when it has one.               *)

OneClient == \A c, d \in Client : c = d

LEMMA ServerGenuine ==
    ASSUME UdpInv, OneClient
    PROVE  UniqueTo(Server) /\ ReceiverGenuine(Server)
<1>1. ASSUME NEW m \in sent, NEW n \in sent, m.dst = Server, n.dst = Server,
             m.id = n.id
      PROVE  m = n
    <2>1. m.src \in Client /\ n.src \in Client
        BY <1>1, SentFrom, Processes
    <2> QED
        BY <1>1, <2>1, ServiceIds DEF OneClient, UniqueFrom
<1>2. UniqueTo(Server)
    BY <1>1 DEF UniqueTo
<1> QED
    BY <1>2, Processes DEF UdpInv, Genuine, ReceiverInv

\* What recv_message returns is a message sent, under an id it has not
\* returned before.
LEMMA ReceivedIntact ==
    ASSUME UdpInv, NEW e \in Endpoint, ReceiverGenuine(e), Recv(e)
    PROVE  /\ NextReceived(e).id \notin PoppedIds(e)
           /\ \E m \in sent : m.dst = e /\ NextReceived(e) = Intact(m)
<1> DEFINE id == Head(ready[e])
<1>1. TypeInv /\ TypeOK
    BY DEF UdpInv, UdpTypes, TypeInv
<1>2. /\ NextReceived(e).id = id /\ id \in Range(ready[e])
      /\ inb[e][id] \in InMsg
      /\ NextReceived(e) = ReceivedFrom(id, inb[e][id])
      /\ CanAssemble(inb[e][id])
    BY <1>1, ReceivedType DEF NextReceived, Recv
<1> HIDE DEF id
<1>3. id \notin PoppedIds(e)
    BY <1>2, PoppedDone
<1>4. PICK m \in sent : m.dst = e /\ m.id = id /\ Stores(inb[e][id], m)
    BY <1>2, <1>3 DEF ReceiverGenuine, QueuedWhole, StoresWhole
<1>5. m \in Message
    BY <1>1, SentTyped
<1>6. ReceivedFrom(id, inb[e][id]) = Intact(m)
    BY <1>2, <1>4, <1>5, AssembleGenuine
<1> QED
    BY <1>2, <1>3, <1>4, <1>6

\* A message to the server other than a shutdown is a prompt of its sender.
LEMMA RequestSent ==
    ASSUME UdpInv, NEW m \in sent, m.dst = Server, m.text # ShutdownText
    PROVE  /\ m.src \in Client /\ m.id \in 1 .. turn[m.src]
           /\ m.text = Prompt(m.src, m.id) /\ m.flags = "REQUEST"
<1>1. m.src \in Client
    BY SentFrom, Processes
<1> QED
    BY <1>1 DEF UdpInv, IdsInv, ClientSends

\* A client waits for a reply only to a prompt that the server has in full:
\* recv_message of the server has queued it, or returned it to serve_udp,
\* which showed it to the backend.
THEOREM WaitersDelivered ==
    ASSUME Turns < CompletedCap, OneClient
    PROVE  UdpSpec => []WaitingMeansDelivered
<1>1. ASSUME UdpInv, HistoryInv, NEW c \in Client, WaitInv(c),
             pc[c] = "receiving", turn[c] \notin Range(ready[Server])
      PROVE  Whole(Prompt(c, turn[c])) \in Range(history)
    <2>1. turn[c] \in PoppedIds(Server)
        BY <1>1, ServerGenuine DEF WaitInv, ReceiverGenuine, DoneAvailable
    <2>2. PICK i \in 1 .. Len(popped[Server]) : popped[Server][i].id = turn[c]
        BY <2>1 DEF PoppedIds
    <2> DEFINE r == popped[Server][i]
    <2>3. turn \in [Client -> 0 .. Turns] /\ Turns \in Nat
        BY <1>1, Processes DEF UdpInv, UdpTypes, AppTypes
    <2>4. PICK m \in sent : m.dst = Server /\ r = Intact(m)
        BY <1>1, ServerGenuine DEF ReceiverGenuine, ReturnedIntact
    <2>5. /\ m.id = turn[c] /\ r.body = Whole(m.text) /\ r.flags = m.flags
        BY <2>2, <2>4 DEF Intact
    <2>6. m.src = c
        BY <1>1, <2>4, SentFrom, Processes DEF OneClient
    <2>7. m.text = Prompt(c, turn[c]) /\ m.flags = "REQUEST"
        BY <1>1, <2>3, <2>5, <2>6 DEF UdpInv, IdsInv, ClientSends
    <2>8. turn[c] \in 1 .. Turns
        BY <1>1, <2>3, <2>5, <2>6 DEF UdpInv, IdsInv, ClientSends
    <2>9. Whole(Prompt(c, turn[c])) # Whole(ShutdownText)
        BY <2>8, ServiceTexts, TextsDiffer, WholeInjective
    <2> HIDE DEF r
    <2>10. r.body \in Range(history)
        BY <1>1, <2>5, <2>7, <2>9 DEF HistoryInv, RequestsShown, r
    <2> QED
        BY <2>5, <2>7, <2>10
<1>2. UdpInv /\ HistoryInv /\ (\A c \in Client : WaitInv(c))
          => WaitingMeansDelivered
    BY <1>1 DEF WaitingMeansDelivered
<1> QED
    BY <1>2, UdpInvariant, HistoryInvariant, WaitInvariant, PTL

-----------------------------------------------------------------------------
(* What the client is given *)

\* The request being served is a whole prompt, under its turn's id.
RequestWhole ==
    Generating =>
        /\ req.id \in 1 .. turn[req.src]
        /\ req.body = Whole(Prompt(req.src, req.id))

\* A response of the server is the reply to the prompt of its id, generated.
RepliesSent ==
    \A m \in sent : m.src = Server =>
        /\ m.id \in 1 .. turn[m.dst]
        /\ m.text = ReplyTo(Prompt(m.dst, m.id))
        /\ Whole(m.text) \in Range(history)

ServerInv == RequestWhole /\ RepliesSent

\* An outcome that is no error is the reply to a prompt of the client, and
\* recv_message of the client returned it under the id of that prompt, once.
OutcomesGenuine(c) ==
    \A i \in 1 .. Len(outcome[c]) : outcome[c][i] # Error =>
        /\ outcome[c][i] \in Range(history)
        /\ \E t \in 1 .. i : /\ t \in PoppedIds(c)
                            /\ outcome[c][i] = Whole(ReplyTo(Prompt(c, t)))
        /\ \A j \in 1 .. Len(outcome[c]) : outcome[c][j] = outcome[c][i] => j = i

LEMMA ClientSendsOnly ==
    ASSUME UdpInv, NEW c \in Client, ClientStep(c)
    PROVE  \A m \in sent' : m.src = Server => m \in sent
<1>1. TypeOK /\ TypeInv /\ AppTypes /\ c \in Endpoint /\ c # Server
    BY Processes DEF UdpInv, UdpTypes, TypeInv
<1>2. CASE StartTurn(c)
    <2>1. /\ Send(RequestOf(c, Prompt(c, turn[c] + 1)))
          /\ RequestOf(c, Prompt(c, turn[c] + 1)) \in Message
          /\ RequestOf(c, Prompt(c, turn[c] + 1)).src = c
        BY <1>1, <1>2, RequestType DEF StartTurn, RequestOf
    <2> QED
        BY <1>1, <2>1, SendEffect
<1>3. CASE StartShutdown(c)
    <2>1. /\ Send(RequestOf(c, ShutdownText))
          /\ RequestOf(c, ShutdownText) \in Message
          /\ RequestOf(c, ShutdownText).src = c
        BY <1>1, <1>3, RequestType DEF StartShutdown, RequestOf
    <2> QED
        BY <1>1, <2>1, SendEffect
<1>4. CASE ClientSent(c) \/ ClientSendFails(c)
    <2>1. SendEnds(c)
        BY <1>4 DEF ClientSent, ClientSendFails, SendEnds
    <2> QED
        BY <1>1, <2>1, SendEndsEffect
<1>5. CASE ClientReceives(c)
    BY <1>1, <1>5, RecvEffect DEF ClientReceives
<1>6. CASE Leave(c) \/ ClientRecvTimeout(c)
    BY <1>6 DEF Leave, ClientRecvTimeout, endpointVars, historyVars
<1> QED
    BY <1>2, <1>3, <1>4, <1>5, <1>6 DEF ClientStep

LEMMA ServerInvStep ==
    ASSUME UdpInv, OneClient, ServerInv, [UdpNext]_vars
    PROVE  ServerInv'
<1>1. /\ TypeOK /\ TypeInv /\ AppTypes /\ Server \in Endpoint /\ OneClient'
      /\ RequestServed /\ ServerSends /\ Server \notin Client
      /\ RequestWhole /\ RepliesSent
      /\ Range(history) \subseteq Range(history')
    BY HistoryGrows, Processes
       DEF UdpInv, UdpTypes, TypeInv, IdsInv, OneClient, ServerInv
<1>2. \A c \in Client : 1 .. turn[c] \subseteq 1 .. turn'[c]
    BY TurnsGrow
<1>3. ASSUME \A m \in sent' : m.src = Server => m \in sent
      PROVE  RepliesSent'
    <2>1. ASSUME NEW m \in sent', m.src = Server
          PROVE  /\ m.id \in 1 .. turn'[m.dst]
                 /\ m.text = ReplyTo(Prompt(m.dst, m.id))
                 /\ Whole(m.text) \in Range(history')
        BY <1>1, <1>2, <1>3, <2>1 DEF RepliesSent, ServerSends
    <2> QED
        BY <2>1 DEF RepliesSent, ReplyTo, Prompt, Whole, Indices, FragCount
<1>4. ASSUME Generating' => Generating, req' = req
      PROVE  RequestWhole'
    <2>1. ASSUME Generating
          PROVE  /\ req.id \in 1 .. turn'[req.src]
                 /\ req.body = Whole(Prompt(req.src, req.id))
        BY <1>1, <1>2, <2>1 DEF RequestServed, RequestWhole
    <2> QED
        BY <1>4, <2>1 DEF RequestWhole, Prompt, Whole, Indices, FragCount
<1>5. CASE ServerReceives
    <2> DEFINE r == NextReceived(Server)
    <2>1. Recv(Server) /\ turn' = turn
        BY <1>5 DEF ServerReceives
    <2>2. sent' = sent
        BY <1>1, <2>1, RecvEffect
    <2>3. \/ ~Generating'
          \/ req' = r /\ r.body # Whole(ShutdownText)
        BY <1>5 DEF ServerReceives, Generating
    <2>4. PICK m \in sent : m.dst = Server /\ r = Intact(m)
        BY <1>1, <2>1, ServerGenuine, ReceivedIntact
    <2>5. r.src = m.src /\ r.id = m.id /\ r.body = Whole(m.text)
        BY <2>4 DEF Intact
    <2> HIDE DEF r
    <2>6. ASSUME r.body # Whole(ShutdownText)
          PROVE  r.id \in 1 .. turn'[r.src] /\ r.body = Whole(Prompt(r.src, r.id))
        BY <2>1, <2>4, <2>5, <2>6, RequestSent
    <2>7. RequestWhole'
        BY <2>3, <2>6 DEF RequestWhole, Prompt, Whole, Indices, FragCount
    <2> QED
        BY <1>3, <2>2, <2>7 DEF ServerInv
<1>6. CASE GenerateReturns
    <2> DEFINE text == ReplyText(req.body)
    <2>1. /\ Send(Response) /\ Response \in Message /\ Generating
          /\ ~Generating' /\ turn' = turn /\ history' = Append(history, Whole(text))
        BY <1>1, <1>6, ResponseType DEF GenerateReturns, Response, Generating
    <2>2. /\ sent' = sent \cup {Response}
          /\ Response.dst = req.src /\ Response.id = req.id /\ Response.text = text
        BY <1>1, <2>1, SendEffect DEF Response
    <2>3. req.src \in Client /\ req.id \in 1 .. turn[req.src]
          /\ req.body = Whole(Prompt(req.src, req.id))
        BY <1>1, <2>1 DEF RequestServed, RequestWhole
    <2>4. text = ReplyTo(Prompt(req.src, req.id))
        <3>1. turn[req.src] \in 0 .. Turns /\ Turns \in Nat
            BY <2>3, Processes, <1>1 DEF AppTypes
        <3>2. Prompt(req.src, req.id) \in Prompts
            BY <2>3, <3>1, ServiceTexts
        <3> QED
            BY <2>3, <3>2, ReplyTextType
    <2>5. Whole(text) \in Range(history')
        <3>1. Whole(text) \in SUBSET Part /\ history \in Seq(SUBSET Part)
            BY <1>1, ReplyTextType, WholeType DEF AppTypes
        <3> QED
            BY <2>1, <3>1, AppendRange
    <2> HIDE DEF text
    <2>6. ASSUME NEW m \in sent', m.src = Server
          PROVE  /\ m.id \in 1 .. turn'[m.dst]
                 /\ m.text = ReplyTo(Prompt(m.dst, m.id))
                 /\ Whole(m.text) \in Range(history')
        <3>1. CASE m \in sent
            BY <1>1, <2>1, <2>6, <3>1 DEF RepliesSent
        <3>2. CASE m = Response
            BY <2>1, <2>2, <2>3, <2>4, <2>5, <3>2
        <3> QED
            BY <2>2, <3>1, <3>2
    <2>7. RepliesSent'
        BY <2>6 DEF RepliesSent, ReplyTo, Prompt, Whole, Indices, FragCount
    <2> QED
        BY <2>1, <2>7 DEF ServerInv, RequestWhole
<1>7. CASE \/ ServerSent \/ GenerateRaises \/ ServerIdleTimeout
           \/ Quiet \/ \E c \in Client : ClientStep(c)
    <2>1. /\ Generating' => Generating
          /\ req' = req
        <3>1. CASE ServerSent \/ GenerateRaises \/ ServerIdleTimeout
            BY <3>1 DEF ServerSent, GenerateRaises, ServerIdleTimeout, Generating
        <3>2. CASE Quiet
            BY <3>2, QuietFrame DEF Generating
        <3>3. ASSUME NEW c \in Client, ClientStep(c)
              PROVE  UNCHANGED <<spc, req>>
            BY <3>3
               DEF ClientStep, StartTurn, Leave, StartShutdown, ClientSent,
                   ClientSendFails, ClientReceives, ClientRecvTimeout
        <3> QED
            BY <1>7, <3>1, <3>2, <3>3 DEF Generating
    <2>2. \A m \in sent' : m.src = Server => m \in sent
        <3>1. CASE ServerSent
            <4>1. SendEnds(Server)
                BY <3>1 DEF ServerSent, SendEnds
            <4> QED
                BY <1>1, <4>1, SendEndsEffect
        <3>2. CASE GenerateRaises \/ ServerIdleTimeout
            BY <3>2 DEF GenerateRaises, ServerIdleTimeout, endpointVars, historyVars
        <3>3. CASE Quiet
            BY <3>3, QuietFrame
        <3>4. ASSUME NEW c \in Client, ClientStep(c)
              PROVE  \A m \in sent' : m.src = Server => m \in sent
            BY <1>1, <3>4, ClientSendsOnly
        <3> QED
            BY <1>7, <3>1, <3>2, <3>3, <3>4
    <2> QED
        BY <1>3, <1>4, <2>1, <2>2 DEF ServerInv
<1> QED
    BY <1>5, <1>6, <1>7, Steps DEF ServerStep

LEMMA OutcomesStep ==
    ASSUME UdpInv, ServerInv, [UdpNext]_vars, NEW c \in Client,
           WaitInv(c), OutcomesGenuine(c)
    PROVE  OutcomesGenuine(c)'
<1> DEFINE n == Len(outcome[c])
<1>1. /\ TypeInv /\ AppTypes /\ c \in Endpoint /\ c # Server
      /\ outcome[c] \in Seq(SUBSET Part) /\ n \in Nat
      /\ Range(history) \subseteq Range(history')
    BY HistoryGrows, Processes, LenProperties DEF UdpInv, UdpTypes, AppTypes
<1>2. \A i \in 1 .. n : outcome[c][i] # Error =>
         \E t \in 1 .. i : /\ t \in PoppedIds(c)
                          /\ outcome[c][i] = Whole(ReplyTo(Prompt(c, t)))
    BY DEF OutcomesGenuine
<1>3. ASSUME outcome'[c] = outcome[c], PoppedIds(c) \subseteq PoppedIds(c)'
      PROVE  OutcomesGenuine(c)'
    <2>1. ASSUME NEW i \in 1 .. Len(outcome'[c]), outcome'[c][i] # Error
          PROVE  /\ outcome'[c][i] \in Range(history')
                 /\ \E t \in 1 .. i : /\ t \in PoppedIds(c)'
                                     /\ outcome'[c][i] = Whole(ReplyTo(Prompt(c, t)))
                 /\ \A j \in 1 .. Len(outcome'[c]) :
                       outcome'[c][j] = outcome'[c][i] => j = i
        BY <1>1, <1>2, <1>3, <2>1 DEF OutcomesGenuine
    <2> QED
        BY <2>1
           DEF OutcomesGenuine, ReplyTo, Prompt, Whole, Indices, FragCount, Error
\* A new outcome is an error or the reply to a prompt no outcome is a reply to.
<1>4. ASSUME NEW body \in SUBSET Part, outcome'[c] = Append(outcome[c], body),
             PoppedIds(c) \subseteq PoppedIds(c)',
             body # Error =>
                /\ body \in Range(history)
                /\ \A i \in 1 .. n : outcome[c][i] # body
                /\ \E t \in 1 .. n + 1 : /\ t \in PoppedIds(c)'
                                        /\ body = Whole(ReplyTo(Prompt(c, t)))
      PROVE  OutcomesGenuine(c)'
    <2>1. /\ 1 .. Len(outcome'[c]) = (1 .. n) \cup {n + 1}
          /\ \A i \in 1 .. n : outcome'[c][i] = outcome[c][i]
          /\ outcome'[c][n + 1] = body
        BY <1>1, <1>4, AppendIndices, AppendProperties
    <2>2. ASSUME NEW i \in 1 .. Len(outcome'[c]), outcome'[c][i] # Error
          PROVE  /\ outcome'[c][i] \in Range(history')
                 /\ \E t \in 1 .. i : /\ t \in PoppedIds(c)'
                                     /\ outcome'[c][i] = Whole(ReplyTo(Prompt(c, t)))
                 /\ \A j \in 1 .. Len(outcome'[c]) :
                       outcome'[c][j] = outcome'[c][i] => j = i
        <3>1. CASE i \in 1 .. n
            <4>1. /\ outcome[c][i] \in Range(history')
                  /\ \A j \in 1 .. n : outcome[c][j] = outcome[c][i] => j = i
                BY <1>1, <2>1, <2>2, <3>1 DEF OutcomesGenuine
            <4>2. body # outcome[c][i]
                BY <1>4, <2>1, <2>2, <3>1
            <4>3. \E t \in 1 .. i : /\ t \in PoppedIds(c)'
                                   /\ outcome[c][i] = Whole(ReplyTo(Prompt(c, t)))
                BY <1>2, <1>4, <2>1, <2>2, <3>1
            <4> QED
                BY <2>1, <3>1, <4>1, <4>2, <4>3
        <3>2. CASE i = n + 1
            BY <1>1, <1>4, <2>1, <2>2, <3>2
        <3> QED
            BY <2>1, <3>1, <3>2
    <2> QED
        BY <2>2
           DEF OutcomesGenuine, ReplyTo, Prompt, Whole, Indices, FragCount, Error
<1>5. CASE ~ClientStep(c)
    <2>1. outcome'[c] = outcome[c] /\ popped'[c] = popped[c]
        BY <1>5, OthersMove
    <2> QED
        BY <1>3, <2>1 DEF PoppedIds
<1>6. CASE ClientStep(c)
    <2>1. CASE outcome' = outcome /\ popped' = popped
        BY <1>3, <2>1 DEF PoppedIds
    <2>2. CASE outcome'[c] = Append(outcome[c], Error) /\ popped' = popped
        <3>1. Error \in SUBSET Part
            BY DEF Error
        <3> QED
            BY <1>4, <2>2, <3>1 DEF PoppedIds
    <2>3. CASE /\ pc[c] = "receiving" /\ Recv(c)
               /\ outcome'[c] = Append(outcome[c], NextReceived(c).body)
        <3> DEFINE r == NextReceived(c)
        <3>1. ReceiverGenuine(c)
            BY <1>1, ServiceIds DEF UdpInv, Genuine, ReceiverInv
        <3>2. r.id \notin PoppedIds(c) /\ \E m \in sent : m.dst = c /\ r = Intact(m)
            BY <1>1, <2>3, <3>1, ReceivedIntact
        <3>3. PICK m \in sent : m.dst = c /\ r = Intact(m)
            BY <3>2
        <3>4. r.id = m.id /\ r.body = Whole(m.text)
            BY <3>3 DEF Intact
        <3>5. PoppedIds(c)' = PoppedIds(c) \cup {r.id} /\ r.body \in SUBSET Part
            BY <1>1, <2>3, RecvEffect, ReceivedType DEF Received
        <3>6. m.src = Server
            BY <1>1, <3>3, SentFrom
        <3>7. /\ r.id \in 1 .. turn[c]
              /\ r.body = Whole(ReplyTo(Prompt(c, r.id)))
              /\ r.body \in Range(history)
            BY <3>3, <3>4, <3>6 DEF ServerInv, RepliesSent
        <3>8. turn[c] = n + 1 /\ turn[c] \in 0 .. Turns /\ Turns \in Nat
            BY <1>1, <2>3, Processes DEF WaitInv, AppTypes
        <3> HIDE DEF r, n
        <3>9. ASSUME NEW i \in 1 .. n, outcome[c][i] = r.body
              PROVE  FALSE
            <4>1. Prompt(c, r.id) \in Prompts /\ ReplyTo(Prompt(c, r.id)) \in Text
                  /\ r.id \in 1 .. Turns
                BY <3>7, <3>8, ServiceTexts
            <4>2. r.body # Error
                BY <3>7, <4>1, WholeType DEF Error
            <4>3. PICK t \in 1 .. i : /\ t \in PoppedIds(c)
                                     /\ outcome[c][i] = Whole(ReplyTo(Prompt(c, t)))
                BY <1>2, <3>9, <4>2
            <4>4. t \in 1 .. Turns
                BY <1>1, <3>8, <3>9
            <4>5. Prompt(c, t) \in Prompts /\ ReplyTo(Prompt(c, t)) \in Text
                BY <4>4, ServiceTexts
            <4>6. ReplyTo(Prompt(c, t)) = ReplyTo(Prompt(c, r.id))
                BY <3>7, <3>9, <4>1, <4>3, <4>5, WholeInjective
            <4>7. t = r.id
                BY <4>1, <4>4, <4>5, <4>6, TextsDiffer
            <4> QED
                BY <3>2, <4>3, <4>7
        <3>10. \E t \in 1 .. n + 1 : /\ t \in PoppedIds(c)'
                                    /\ r.body = Whole(ReplyTo(Prompt(c, t)))
            BY <3>5, <3>7, <3>8
        <3>11. outcome'[c] = Append(outcome[c], r.body)
            BY <2>3 DEF r
        <3> QED
            BY <1>4, <3>5, <3>7, <3>9, <3>10, <3>11
    <2> QED
        BY <1>6, <2>1, <2>2, <2>3, ClientMoves
<1> QED
    BY <1>5, <1>6

\* What send returns is an error or the complete reply to a prompt this client
\* sent in that turn or an earlier one, generated by the server, and no reply
\* is returned for two turns.
THEOREM RepliesReturned ==
    ASSUME Turns < CompletedCap, OneClient
    PROVE  UdpSpec => []RepliesGenuine
<1> DEFINE Calls == \A c \in Client : WaitInv(c)
           Outcomes == \A c \in Client : OutcomesGenuine(c)
<1>1. UdpInv /\ Calls /\ ServerInv /\ [UdpNext]_vars => ServerInv'
    BY ServerInvStep
<1>2. UdpInv /\ Calls /\ ServerInv /\ Outcomes /\ [UdpNext]_vars => Outcomes'
    BY OutcomesStep
<1>3. UdpInit => ServerInv /\ Outcomes
    <2>1. ASSUME UdpInit
          PROVE  /\ spc = "receiving" /\ sent = {}
                 /\ \A c \in Client : outcome[c] = <<>>
        BY <2>1 DEF UdpInit, Init
    <2>2. 1 .. Len(<<>>) = {}
        OBVIOUS
    <2> QED
        BY <2>1, <2>2
           DEF ServerInv, RequestWhole, RepliesSent, Generating, OutcomesGenuine
<1>4. Outcomes => RepliesGenuine
    BY DEF OutcomesGenuine, RepliesGenuine
<1>5. UdpSpec => []Calls
    BY WaitInvariant
<1> HIDE DEF Calls, Outcomes
<1> QED
    BY <1>1, <1>2, <1>3, <1>4, <1>5, UdpInvariant, PTL DEF UdpSpec

-----------------------------------------------------------------------------
(***************************************************************************)
(* The service in time: one client, timeouts longer than what they wait    *)
(* for, a backend that does not raise and fewer losses than rounds.  Then  *)
(* the service is a chat (ServiceIsChat), and each turn is given the reply *)
(* to its own prompt (RepliesInTime).                                      *)
(*                                                                         *)
(* What has to be shown is that no send_message gives up and no            *)
(* recv_message times out, that is, a bound on the rounds of a send.  It   *)
(* is the number of losses: a timeout passes only when nothing else can    *)
(* happen (Settled), and a message all of whose fragments went out is      *)
(* then acknowledged, unless a datagram of it was lost.  So every round    *)
(* after the first is charged to a loss of its own (Charged): a message    *)
(* that has had as many rounds as there were losses and one more is under  *)
(* way (Underway), and a message under way stays so until it is            *)
(* acknowledged.                                                           *)
(*                                                                         *)
(* The conversation follows from the positions of the two sides in it      *)
(* (HistoryInTurn, RepliesInTurn): the length of the model's history says  *)
(* which prompts the server was given and which replies it has sent, and   *)
(* the turn of the client what it waits for.                               *)
(***************************************************************************)

-----------------------------------------------------------------------------
(* The invariants of the transport *)

\* The datagrams lost so far.
Losses == lost["data"] + lost["ack"]

\* Every fragment its receiver lacks is in flight or stored there, or the
\* acknowledgement is in flight or a fragment that will be answered with it.
Underway(m) ==
    IF m.id \in completed[m.dst]
    THEN \/ AckOf(m.dst, m.src, m.id, FragCount(m.text)) \in net
         \/ \E i \in Indices(m.text) : FragmentOf(m, i) \in net
    ELSE \A i \in Indices(m.text) :
            \/ FragmentOf(m, i) \in net
            \/ /\ inb[m.dst][m.id] # None
               /\ [idx |-> i, text |-> m.text] \in inb[m.dst][m.id].parts

\* A round after the first is answered for by a loss.
Charged(e) ==
    LET o == Pending(e)
    IN  o # None =>
            /\ o.attempts <= Losses + 1
            /\ o.attempts = Losses + 1 => Underway(o.message)

\* An entry is acknowledged as a whole or not at all: its fragments stay unacked
\* together.
UnackedWhole ==
    \A e \in Endpoint, id \in MsgId :
        out[e][id] # None =>
            out[e][id].unacked = Indices(out[e][id].message.text)

\* An acknowledgement in flight is for the whole of a message that was sent.
AcksWhole ==
    \A d \in net : d.type = "ack" =>
        \E m \in sent : /\ m.src = d.dst /\ m.dst = d.src /\ m.id = d.id
                        /\ d.count = FragCount(m.text)

\* What is being reassembled lacks a part.
PartsMissing ==
    \A e \in Endpoint, id \in MsgId :
        inb[e][id] # None /\ id \notin Done(e) => ~Complete(inb[e][id])

\* The parts that do not depend on time.
WholeInv == UnackedWhole /\ AcksWhole /\ PartsMissing

\* One id names one message, at every endpoint.
AllUnique == \A e \in Endpoint : UniqueFrom(e) /\ UniqueTo(e)

-----------------------------------------------------------------------------
\* An acknowledgement names every fragment, so it removes the entry.
LEMMA UnackedWholeStep ==
    ASSUME StepHyp, AllUnique, WholeInv, [Next]_endpointVars
    PROVE  UnackedWhole'
<1> DEFINE Entry(o) == o # None => o.unacked = Indices(o.message.text)
<1>1. /\ TypeInv /\ TypeOK /\ UnackedWhole /\ AcksWhole /\ EntriesGenuine
      /\ \A e \in Endpoint, id \in MsgId : Entry(out[e][id])
    BY DEF StepHyp, TypeInv, WholeInv, Genuine, UnackedWhole
<1> HIDE DEF Entry
<1>2. ASSUME \A e \in Endpoint, id \in MsgId :
                out'[e][id] = out[e][id] \/ Entry(out'[e][id])
      PROVE  UnackedWhole'
    <2>1. \A e \in Endpoint, id \in MsgId : Entry(out'[e][id])
        BY <1>1, <1>2
    <2> QED
        BY <2>1 DEF UnackedWhole, Entry, Indices, FragCount
<1>3. ASSUME NEW m \in Message, Send(m)
      PROVE  UnackedWhole'
    <2>1. m.src \in Endpoint /\ m.id \in MsgId
        BY DEF Message
    <2> DEFINE new == [message |-> m, unacked |-> Indices(m.text), attempts |-> 1]
    <2>2. Entry(new)
        BY DEF Entry
    <2>3. out' = [out EXCEPT ![m.src][m.id] = new]
        BY <1>3 DEF Send
    <2> HIDE DEF new
    <2>4. \A e \in Endpoint, id \in MsgId :
             out'[e][id] = out[e][id] \/ out'[e][id] = new
        BY <1>1, <2>1, <2>3 DEF TypeOK
    <2> QED
        BY <1>2, <2>2, <2>4
<1>4. ASSUME NEW e \in Endpoint, Retransmit(e)
      PROVE  UnackedWhole'
    <2>1. Pending(e) \in OutMsg /\ sending[e].id \in MsgId
        BY <1>1, <1>4, PendingType DEF Retransmit, RoundDue
    <2> DEFINE new == [Pending(e) EXCEPT !.attempts = @ + 1]
    <2>2. new.unacked = Pending(e).unacked /\ new.message = Pending(e).message
        BY <2>1 DEF OutMsg
    <2>3. Pending(e) # None
        BY <1>4 DEF Retransmit, RoundDue
    <2>4. Entry(new)
        BY <1>1, <2>1, <2>2, <2>3 DEF UnackedWhole, Entry, Pending
    <2>5. out' = [out EXCEPT ![e][sending[e].id] = new]
        BY <1>4 DEF Retransmit, Pending
    <2> HIDE DEF new
    <2>6. \A f \in Endpoint, id \in MsgId :
             out'[f][id] = out[f][id] \/ out'[f][id] = new
        BY <1>1, <2>1, <2>5 DEF TypeOK
    <2> QED
        BY <1>2, <2>4, <2>6
<1>5. ASSUME NEW e \in Endpoint, GiveUp(e)
      PROVE  UnackedWhole'
    <2>1. sending[e].id \in MsgId
        BY <1>1, <1>5, PendingType DEF GiveUp, RoundDue
    <2>2. \A f \in Endpoint, id \in MsgId :
             out'[f][id] = out[f][id] \/ out'[f][id] = None
        BY <1>1, <1>5, <2>1 DEF TypeOK, GiveUp
    <2> QED
        BY <1>2, <2>2 DEF Entry
<1>6. ASSUME NEW e \in Endpoint, NEW d \in net, PollAck(e, d)
      PROVE  UnackedWhole'
    <2> DEFINE o == out[e][d.id]
    <2>1. d.id \in MsgId /\ d.dst = e /\ d.type = "ack"
        BY <1>1, <1>6 DEF TypeOK, PollAck, Arrives, Fragment, Ack
    <2>2. CASE o = None
        <3>1. out' = out
            BY <1>6, <2>2 DEF PollAck
        <3> QED
            BY <1>2, <3>1
    <2>3. CASE o # None
        <3>1. PICK m \in sent : /\ m.src = e /\ m.id = d.id
                                /\ d.count = FragCount(m.text)
            BY <1>1, <2>1 DEF AcksWhole
        <3>2. /\ o.message \in sent /\ o.message.src = e /\ o.message.id = d.id
              /\ o.unacked = Indices(o.message.text)
            BY <1>1, <2>1, <2>3 DEF EntriesGenuine, UnackedWhole
        <3>3. o.message = m
            BY <3>1, <3>2 DEF AllUnique, UniqueFrom
        <3>4. StillUnacked(o, d) = {}
            BY <3>1, <3>2, <3>3 DEF StillUnacked, Indices
        <3>5. out' = [out EXCEPT ![e][d.id] = None]
            BY <1>6, <2>3, <3>4 DEF PollAck
        <3>6. \A f \in Endpoint, id \in MsgId :
                 out'[f][id] = out[f][id] \/ out'[f][id] = None
            BY <1>1, <2>1, <3>5 DEF TypeOK
        <3> QED
            BY <1>2, <3>6 DEF Entry
    <2> QED
        BY <2>2, <2>3
<1>7. ASSUME out' = out
      PROVE  UnackedWhole'
    BY <1>2, <1>7
<1>8. ASSUME NEW e \in Endpoint, SendDeadline(e) \/ SendReturns(e)
                                \/ Recv(e) \/ RecvKeyError(e)
      PROVE  out' = out
    BY <1>8 DEF SendDeadline, SendReturns, Recv, RecvKeyError, PopReady, senderVars
<1>9. ASSUME NEW e \in Endpoint, NEW d \in net,
             PollDuplicate(e, d) \/ PollPartial(e, d) \/ PollComplete(e, d)
      PROVE  out' = out
    BY <1>9 DEF PollDuplicate, PollPartial, PollComplete, senderVars
<1>10. ASSUME (\E d \in net : Lose(d)) \/ UNCHANGED endpointVars
       PROVE  out' = out
    BY <1>10 DEF Lose, endpointVars, senderVars
<1> QED
    BY <1>3, <1>4, <1>5, <1>6, <1>7, <1>8, <1>9, <1>10 DEF Next, Step, Poll

\* Acknowledgements are sent for complete messages only.
LEMMA AcksWholeStep ==
    ASSUME StepHyp, AllUnique, WholeInv, [Next]_endpointVars
    PROVE  AcksWhole'
<1> DEFINE Of(d, m) == /\ m.src = d.dst /\ m.dst = d.src /\ m.id = d.id
                       /\ d.count = FragCount(m.text)
<1>1. /\ TypeInv /\ TypeOK /\ Genuine /\ AcksWhole /\ sent \subseteq sent'
    BY DEF StepHyp, TypeInv, WholeInv, Growth
<1>2. ASSUME \A d \in net' : d \in net \/ d.type # "ack" \/ \E m \in sent : Of(d, m)
      PROVE  AcksWhole'
    <2>1. \A d \in net' : d.type = "ack" => \E m \in sent' : Of(d, m)
        BY <1>1, <1>2 DEF AcksWhole
    <2> QED
        BY <2>1 DEF AcksWhole, FragCount
<1>3. ASSUME net' \subseteq net
      PROVE  AcksWhole'
    BY <1>2, <1>3
<1>4. ASSUME NEW m, NEW I, net' = net \cup FragmentsOf(m, I)
      PROVE  AcksWhole'
    BY <1>2, <1>4 DEF FragmentsOf, FragmentOf
<1>5. ASSUME NEW e \in Endpoint, NEW d \in net, PollDuplicate(e, d)
      PROVE  AcksWhole'
    <2>1. PICK m \in sent : /\ m.dst = e /\ m.id = d.id /\ m.src = d.src
                            /\ d.count = FragCount(m.text)
        BY <1>1, <1>5, FragmentOrigin DEF PollDuplicate
    <2>2. Of(AckOf(e, d.src, d.id, d.count), m)
        BY <2>1 DEF AckOf
    <2> QED
        BY <1>2, <1>5, <2>2 DEF PollDuplicate, Without
<1>6. ASSUME NEW e \in Endpoint, NEW d \in net, PollComplete(e, d)
      PROVE  AcksWhole'
    <2> DEFINE im == Stored(e, d)
    <2>1. /\ Arrives(e, d, "data") /\ inb' = [inb EXCEPT ![e][d.id] = im]
          /\ sent' = sent
          /\ net' = Without(d) \cup {AckOf(e, im.src, d.id, im.count)}
        BY <1>6 DEF PollComplete
    <2>2. PICK m \in sent : m.dst = e /\ m.id = d.id /\ Stores(inb'[e][d.id], m)
        BY <2>1, StoreKept DEF AllUnique
    <2>3. inb'[e][d.id] = im
        BY <2>1, StoreSent
    <2> HIDE DEF im
    <2>4. im.src = m.src /\ im.count = FragCount(m.text)
        BY <2>2, <2>3 DEF Stores
    <2>5. Of(AckOf(e, im.src, d.id, im.count), m)
        BY <2>2, <2>4 DEF AckOf
    <2> QED
        BY <1>2, <2>1, <2>5 DEF Without
<1>7. ASSUME NEW m \in Message, Send(m)
      PROVE  AcksWhole'
    BY <1>4, <1>7 DEF Send
<1>8. ASSUME NEW e \in Endpoint, Retransmit(e) \/ GiveUp(e)
      PROVE  AcksWhole'
    BY <1>4, <1>8 DEF Retransmit, GiveUp, SendRound
<1>9. ASSUME NEW e \in Endpoint, SendDeadline(e) \/ SendReturns(e)
                                \/ Recv(e) \/ RecvKeyError(e)
      PROVE  AcksWhole'
    BY <1>3, <1>9 DEF SendDeadline, SendReturns, Recv, RecvKeyError, PopReady
<1>10. ASSUME NEW e \in Endpoint, NEW d \in net, PollAck(e, d) \/ PollPartial(e, d)
       PROVE  AcksWhole'
    BY <1>3, <1>10 DEF PollAck, PollPartial, Without
<1>11. ASSUME (\E d \in net : Lose(d)) \/ UNCHANGED endpointVars
       PROVE  AcksWhole'
    BY <1>3, <1>11 DEF Lose, endpointVars
<1> QED
    BY <1>5, <1>6, <1>7, <1>8, <1>9, <1>10, <1>11 DEF Next, Step, Poll

\* How the entries being reassembled change.
LEMMA EntriesChange ==
    ASSUME StepHyp, [Next]_endpointVars
    PROVE  \/ inb' = inb
           \/ \E e \in Endpoint, d \in net :
                 /\ Arrives(e, d, "data") /\ d.id \in MsgId
                 /\ d.id \notin completed[e]
                 /\ inb' = [inb EXCEPT ![e][d.id] = Stored(e, d)]
                 /\ sent' = sent
                 /\ \/ PollPartial(e, d)
                    \/ PollComplete(e, d)
           \/ \E e \in Endpoint : \E id \in Range(ready[e]) :
                 /\ Recv(e) \/ RecvKeyError(e)
                 /\ inb' = [inb EXCEPT ![e][id] = None]
<1>1. TypeInv /\ TypeOK
    BY DEF StepHyp, TypeInv
<1>2. ASSUME NEW e \in Endpoint, NEW d \in net, PollPartial(e, d) \/ PollComplete(e, d)
      PROVE  /\ Arrives(e, d, "data") /\ d.id \in MsgId /\ d.id \notin completed[e]
             /\ inb' = [inb EXCEPT ![e][d.id] = Stored(e, d)]
             /\ sent' = sent
    <2>1. Arrives(e, d, "data")
        BY <1>2 DEF PollPartial, PollComplete
    <2>2. d.id \in MsgId
        BY <1>1, <2>1, StoredType
    <2> QED
        BY <1>2, <2>1, <2>2 DEF PollPartial, PollComplete, IsDuplicate, historyVars
<1>3. ASSUME NEW e \in Endpoint, Recv(e) \/ RecvKeyError(e)
      PROVE  /\ Head(ready[e]) \in Range(ready[e])
             /\ inb' = [inb EXCEPT ![e][Head(ready[e])] = None]
    <2>1. PopReady(e)
        BY <1>3 DEF Recv, RecvKeyError
    <2> QED
        BY <1>1, <2>1, PopEffect DEF PopReady
<1>4. ASSUME NEW m \in Message, Send(m)
      PROVE  inb' = inb
    BY <1>4 DEF Send, receiverVars
<1>5. ASSUME NEW e \in Endpoint, Retransmit(e) \/ GiveUp(e) \/ SendDeadline(e)
                                \/ SendReturns(e)
      PROVE  inb' = inb
    BY <1>5 DEF Retransmit, GiveUp, SendDeadline, SendReturns, receiverVars
<1>6. ASSUME NEW e \in Endpoint, NEW d \in net, PollAck(e, d) \/ PollDuplicate(e, d)
      PROVE  inb' = inb
    BY <1>6 DEF PollAck, PollDuplicate, receiverVars
<1>7. ASSUME (\E d \in net : Lose(d)) \/ UNCHANGED endpointVars
      PROVE  inb' = inb
    BY <1>7 DEF Lose, endpointVars, receiverVars
<1> QED
    BY <1>2, <1>3, <1>4, <1>5, <1>6, <1>7 DEF Next, Step, Poll

\* A fragment that completes a message removes what was reassembled.
LEMMA PartsMissingStep ==
    ASSUME StepHyp, WholeInv, [Next]_endpointVars
    PROVE  PartsMissing'
<1>1. /\ TypeInv /\ TypeOK /\ DedupInv /\ PartsMissing
      /\ \A e \in Endpoint : Done(e) \subseteq Done(e)'
    BY DEF StepHyp, TypeInv, WholeInv, Growth
<1>2. ASSUME \A e \in Endpoint, id \in MsgId :
                \/ inb'[e][id] = inb[e][id] \/ inb'[e][id] = None
                \/ id \in Done(e)' \/ ~Complete(inb'[e][id])
      PROVE  PartsMissing'
    <2>1. ASSUME NEW e \in Endpoint, NEW id \in MsgId,
                 inb'[e][id] # None, id \notin Done(e)'
          PROVE  ~Complete(inb'[e][id])
        <3>1. id \notin Done(e)
            BY <1>1, <2>1
        <3> QED
            BY <1>1, <1>2, <2>1, <3>1 DEF PartsMissing
    <2> QED
        BY <2>1 DEF PartsMissing, Complete
<1>3. CASE inb' = inb
    BY <1>2, <1>3
<1>4. ASSUME NEW e \in Endpoint, NEW d \in net, d.id \in MsgId,
             inb' = [inb EXCEPT ![e][d.id] = Stored(e, d)],
             PollPartial(e, d) \/ PollComplete(e, d)
      PROVE  PartsMissing'
    <2>1. \A f \in Endpoint, id \in MsgId :
             inb'[f][id] = inb[f][id] \/ (f = e /\ id = d.id /\ inb'[f][id] = Stored(e, d))
        BY <1>1, <1>4 DEF TypeOK
    <2>2. d.id \in Done(e)' \/ ~Complete(Stored(e, d))
        BY <1>1, <1>4, CompleteGrowth DEF PollPartial
    <2> QED
        BY <1>2, <2>1, <2>2
<1>5. ASSUME NEW e \in Endpoint, NEW id \in Range(ready[e]),
             inb' = [inb EXCEPT ![e][id] = None]
      PROVE  PartsMissing'
    <2>1. \A f \in Endpoint, k \in MsgId : inb'[f][k] = inb[f][k] \/ inb'[f][k] = None
        BY <1>1, <1>5 DEF TypeOK
    <2> QED
        BY <1>2, <2>1
<1> QED
    BY <1>3, <1>4, <1>5, EntriesChange

\* Together, they are inductive for the transport.
LEMMA WholeInvStep ==
    ASSUME StepHyp, AllUnique, WholeInv, [Next]_endpointVars
    PROVE  WholeInv'
BY UnackedWholeStep, AcksWholeStep, PartsMissingStep DEF WholeInv

-----------------------------------------------------------------------------
\* A step other than a loss leaves a message on its way, or ends its pending
\* entry.
Kept == \A e \in Endpoint : /\ Done(e) = completed[e]
                            /\ Done(e)' = completed'[e]

\* A fragment that arrives with the id of m is one of m.
LEMMA ArrivingOf ==
    ASSUME TypeOK, Genuine, NEW m \in sent, UniqueTo(m.dst), m.dst \in Endpoint,
           NEW d \in net, Arrives(m.dst, d, "data"), d.id = m.id
    PROVE  /\ \E i \in Indices(m.text) : d = FragmentOf(m, i)
           /\ d.src = m.src /\ d.count = FragCount(m.text)
BY FragmentOrigin DEF UniqueTo

\* What neither takes a datagram nor touches the receiver changes nothing.
LEMMA UnderwayFrame ==
    ASSUME NEW m \in sent, m.dst \in Endpoint, Underway(m),
           completed'[m.dst] = completed[m.dst],
           m.id \notin completed[m.dst] => inb'[m.dst][m.id] = inb[m.dst][m.id],
           \A d \in net : d \in net'
    PROVE  Underway(m)'
BY DEF Underway, Indices, FragCount, AckOf, FragmentOf

\* The acknowledgement that is taken ends the entry; another is of no matter.
LEMMA UnderwayAck ==
    ASSUME StepHyp, AllUnique, WholeInv, NEW m \in sent, Underway(m),
           out[m.src][m.id] # None,
           NEW e \in Endpoint, NEW d \in net, PollAck(e, d)
    PROVE  Underway(m)' \/ out'[m.src][m.id] = None
<1> DEFINE ack == AckOf(m.dst, m.src, m.id, FragCount(m.text))
           o   == out[m.src][m.id]
<1>1. /\ TypeOK /\ Genuine /\ UnackedWhole /\ m \in Message
      /\ m.src \in Endpoint /\ m.dst \in Endpoint /\ m.id \in MsgId
    BY SentTyped DEF StepHyp, TypeInv, WholeInv, Message
<1>2. /\ net \ {d} \subseteq net' /\ d.type = "ack" /\ d.dst = e
      /\ inb' = inb /\ completed' = completed
    BY DEF PollAck, Without, Arrives, receiverVars
<1>3. \A i : FragmentOf(m, i) # d
    BY <1>2 DEF FragmentOf
<1>4. CASE d # ack
    BY <1>2, <1>3, <1>4 DEF Underway, Indices, FragCount, AckOf, FragmentOf
<1>5. CASE d = ack
    <2>1. d.id = m.id /\ d.dst = m.src /\ d.count = FragCount(m.text)
        BY <1>5 DEF AckOf
    <2>2. o.message = m /\ o.unacked = Indices(m.text)
        BY <1>1 DEF Genuine, EntriesGenuine, UnackedWhole, AllUnique, UniqueFrom
    <2>3. StillUnacked(o, d) = {}
        BY <2>1, <2>2 DEF StillUnacked, Indices
    <2>4. out' = [out EXCEPT ![m.src][m.id] = None]
        BY <1>2, <2>1, <2>3 DEF PollAck
    <2> QED
        BY <1>1, <2>4 DEF TypeOK
<1> QED
    BY <1>4, <1>5

LEMMA UnderwayDuplicate ==
    ASSUME StepHyp, AllUnique, NEW m \in sent, Underway(m),
           NEW e \in Endpoint, NEW d \in net, PollDuplicate(e, d)
    PROVE  Underway(m)'
<1>1. /\ TypeOK /\ Genuine /\ m \in Message /\ m.dst \in Endpoint
    BY SentTyped DEF StepHyp, TypeInv, Message
<1>2. /\ net \ {d} \subseteq net' /\ d.type = "data" /\ d.dst = e
      /\ Arrives(e, d, "data") /\ d.id \in completed[e]
      /\ AckOf(e, d.src, d.id, d.count) \in net'
      /\ inb' = inb /\ completed' = completed
    BY DEF PollDuplicate, Without, Arrives, receiverVars, IsDuplicate
<1>3. \A i : FragmentOf(m, i) = d => m.dst = e /\ m.id = d.id
    BY <1>2 DEF FragmentOf
<1>4. CASE m.id \notin completed[m.dst]
    BY <1>2, <1>3, <1>4 DEF Underway, Indices, FragCount, FragmentOf
<1>5. CASE m.id \in completed[m.dst]
    <2> DEFINE ack == AckOf(m.dst, m.src, m.id, FragCount(m.text))
    <2>1. ack # d
        BY <1>2 DEF AckOf
    <2>2. CASE ack \in net
        BY <1>2, <1>5, <2>1, <2>2 DEF Underway, Indices, FragCount, FragmentOf, AckOf
    <2>3. ASSUME NEW i \in Indices(m.text), FragmentOf(m, i) \in net, FragmentOf(m, i) # d
          PROVE  Underway(m)'
        BY <1>2, <1>5, <2>3 DEF Underway, Indices, FragCount, FragmentOf, AckOf
    <2>4. ASSUME NEW i \in Indices(m.text), FragmentOf(m, i) = d
          PROVE  Underway(m)'
        <3>1. m.dst = e /\ m.id = d.id /\ m.src = d.src /\ d.count = FragCount(m.text)
            BY <1>2, <2>4 DEF FragmentOf
        <3>2. ack \in net'
            BY <1>2, <3>1
        <3> QED
            BY <1>2, <1>5, <3>2 DEF Underway, Indices, FragCount, FragmentOf, AckOf
    <2> QED
        BY <1>5, <2>2, <2>3, <2>4 DEF Underway
<1> QED
    BY <1>4, <1>5

\* A fragment that is taken is stored, or answered with the acknowledgement.
LEMMA UnderwayStore ==
    ASSUME StepHyp, AllUnique, NEW m \in sent, Underway(m), Kept,
           NEW e \in Endpoint, NEW d \in net,
           PollPartial(e, d) \/ PollComplete(e, d)
    PROVE  Underway(m)'
<1> DEFINE ack == AckOf(m.dst, m.src, m.id, FragCount(m.text))
<1>1. /\ TypeOK /\ Genuine /\ m \in Message /\ m.dst \in Endpoint /\ m.id \in MsgId
      /\ UniqueTo(m.dst)
    BY SentTyped DEF StepHyp, TypeInv, Message, AllUnique
<1>2. /\ net \ {d} \subseteq net' /\ d.type = "data" /\ d.dst = e
      /\ Arrives(e, d, "data") /\ d.id \notin completed[e]
      /\ inb' = [inb EXCEPT ![e][d.id] = Stored(e, d)] /\ sent' = sent
    BY DEF PollPartial, PollComplete, Without, Arrives, IsDuplicate, historyVars
<1>3. /\ d.id \in MsgId /\ Stored(e, d) \in InMsg
      /\ \A f \in Endpoint, k \in MsgId : inb'[f][k] =
            IF f = e /\ k = d.id THEN Stored(e, d) ELSE inb[f][k]
    BY <1>1, <1>2, StoredType DEF TypeOK
<1>4. \A i : FragmentOf(m, i) = d => m.dst = e /\ m.id = d.id
    BY <1>2 DEF FragmentOf
<1>5. ack # d
    BY <1>2 DEF AckOf
<1>6. CASE m.id \in completed[m.dst]
    <2>1. m.id \in completed'[m.dst]
        BY <1>1, <1>6 DEF Kept, StepHyp, Growth
    <2> QED
        BY <1>2, <1>4, <1>5, <1>6, <2>1
           DEF Underway, Indices, FragCount, FragmentOf, AckOf
<1>7. CASE m.id \notin completed[m.dst] /\ ~(m.dst = e /\ m.id = d.id)
    <2>1. m.id \notin completed'[m.dst]
        <3>1. CASE PollPartial(e, d)
            BY <1>7, <3>1 DEF PollPartial
        <3>2. CASE PollComplete(e, d)
            BY <1>1, <1>7, <3>2 DEF PollComplete, Remember, TypeOK
        <3> QED
            BY <3>1, <3>2
    <2>2. inb'[m.dst][m.id] = inb[m.dst][m.id]
        BY <1>1, <1>3, <1>7
    <2> QED
        BY <1>2, <1>4, <1>7, <2>1, <2>2 DEF Underway, Indices, FragCount, FragmentOf
<1>8. CASE m.id \notin completed[m.dst] /\ m.dst = e /\ m.id = d.id
    <2>1. PICK j \in Indices(m.text) : d = FragmentOf(m, j)
        BY <1>1, <1>2, <1>8, ArrivingOf
    <2>2. inb'[m.dst][m.id] = Stored(e, d) /\ Stored(e, d) # None
        BY <1>1, <1>3, <1>8, EndpointAssumption
    <2>3. CASE PollComplete(e, d)
        <3>1. m.id \in completed'[m.dst]
            BY <1>1, <1>8, <2>3, CompleteGrowth DEF StepHyp, Kept
        <3>2. PICK n \in sent : n.dst = e /\ n.id = d.id /\ Stores(inb'[e][d.id], n)
            BY <1>1, <1>2, <1>8, StoreKept
        <3>3. Stores(Stored(e, d), m)
            BY <1>1, <1>8, <2>2, <3>2 DEF UniqueTo
        <3>4. ack \in net'
            BY <1>8, <2>3, <3>3 DEF PollComplete, Stores
        <3> QED
            BY <3>1, <3>4 DEF Underway, AckOf, FragCount
    <2>4. CASE PollPartial(e, d)
        <3>1. m.id \notin completed'[m.dst]
            BY <1>8, <2>4 DEF PollPartial
        <3>2. ASSUME NEW i \in Indices(m.text)
              PROVE  \/ FragmentOf(m, i) \in net'
                     \/ [idx |-> i, text |-> m.text] \in Stored(e, d).parts
            <4> DEFINE x == [idx |-> i, text |-> m.text]
            <4>1. d.part = [idx |-> j, text |-> m.text] /\ d.part.idx = j
                BY <2>1 DEF FragmentOf
            <4>2. inb[e][d.id] \in InMsg \cup {None}
                BY <1>1, <1>3 DEF TypeOK
            <4>3. d.part \in Stored(e, d).parts
                BY <4>2 DEF Stored, InMsg
            <4>4. inb[e][d.id] # None => \A p \in inb[e][d.id].parts :
                     p.idx # d.part.idx => p \in Stored(e, d).parts
                BY <4>2 DEF Stored, InMsg
            <4>5. CASE i = j
                BY <4>1, <4>3, <4>5
            <4>6. CASE i # j
                <5>1. x.idx # d.part.idx
                    BY <4>1, <4>6
                <5>2. FragmentOf(m, i) # d
                    BY <4>1, <4>6 DEF FragmentOf
                <5> QED
                    BY <1>2, <1>8, <4>4, <5>1, <5>2 DEF Underway
            <4> QED
                BY <4>5, <4>6
        <3> QED
            BY <2>2, <3>1, <3>2 DEF Underway, Indices, FragCount, FragmentOf
    <2> QED
        BY <2>3, <2>4
<1> QED
    BY <1>6, <1>7, <1>8

\* Without a loss, a message stays under way until its entry is gone.
LEMMA UnderwayStep ==
    ASSUME StepHyp, AllUnique, WholeInv, Kept, NEW m \in sent, Underway(m),
           out[m.src][m.id] # None,
           [Next]_endpointVars, ~\E d \in net : Lose(d)
    PROVE  Underway(m)' \/ out'[m.src][m.id] = None
<1>1. /\ TypeInv /\ TypeOK /\ DedupInv /\ m.dst \in Endpoint
    BY SentTyped DEF StepHyp, TypeInv, Message
<1>2. ASSUME completed' = completed, net \subseteq net', inb' = inb
      PROVE  Underway(m)'
    BY <1>1, <1>2, UnderwayFrame
<1>3. ASSUME NEW n \in Message, Send(n)
      PROVE  Underway(m)'
    BY <1>2, <1>3 DEF Send, receiverVars
<1>4. ASSUME NEW e \in Endpoint, Retransmit(e) \/ GiveUp(e) \/ SendDeadline(e)
                                \/ SendReturns(e)
      PROVE  Underway(m)'
    BY <1>2, <1>4 DEF Retransmit, GiveUp, SendRound, SendDeadline, SendReturns,
                      receiverVars
<1>5. ASSUME NEW e \in Endpoint, Recv(e) \/ RecvKeyError(e)
      PROVE  Underway(m)'
    <2>1. PopReady(e)
        BY <1>5 DEF Recv, RecvKeyError
    <2>2. /\ net' = net /\ completed' = completed
          /\ Head(ready[e]) \in Range(ready[e])
          /\ inb' = [inb EXCEPT ![e][Head(ready[e])] = None]
        BY <1>1, <2>1, PopEffect DEF PopReady
    <2>3. Head(ready[e]) \in completed[e]
        BY <1>1, <2>2 DEF DedupInv, QueueConsistent, Kept
    <2>4. m.id \notin completed[m.dst] => inb'[m.dst][m.id] = inb[m.dst][m.id]
        BY <1>1, <2>2, <2>3 DEF TypeOK
    <2> QED
        BY <1>1, <2>2, <2>4, UnderwayFrame
<1>6. CASE UNCHANGED endpointVars
    BY <1>2, <1>6 DEF endpointVars, receiverVars
<1> QED
    BY <1>3, <1>4, <1>5, <1>6, UnderwayAck, UnderwayDuplicate, UnderwayStore
       DEF Next, Step, Poll

\* When nobody has a datagram left to take, nothing is on its way.
LEMMA NothingUnderway ==
    ASSUME TypeOK, WholeInv, NEW m \in sent,
           UniqueTo(m.dst), PartsGenuine(m.dst), Done(m.dst) = completed[m.dst],
           \A d \in net : d.dst # m.dst /\ d.dst # m.src
    PROVE  ~Underway(m)
<1>1. /\ m \in Message /\ m.dst \in Endpoint /\ m.id \in MsgId /\ m.text \in Text
      /\ PartsMissing
    BY SentTyped DEF Message, WholeInv
<1>2. /\ AckOf(m.dst, m.src, m.id, FragCount(m.text)) \notin net
      /\ \A i \in Indices(m.text) : FragmentOf(m, i) \notin net
    <2>1. AckOf(m.dst, m.src, m.id, FragCount(m.text)).dst = m.src
        BY DEF AckOf
    <2>2. \A i \in Indices(m.text) : FragmentOf(m, i).dst = m.dst
        BY DEF FragmentOf
    <2> QED
        BY <2>1, <2>2
<1>3. ASSUME Underway(m)
      PROVE  FALSE
    <2> DEFINE im == inb[m.dst][m.id]
    <2>1. /\ m.id \notin completed[m.dst]
          /\ \A i \in Indices(m.text) :
                im # None /\ [idx |-> i, text |-> m.text] \in im.parts
        BY <1>2, <1>3 DEF Underway
    <2>2. im # None
        BY <1>1, <2>1, IndicesType
    <2>3. PICK n \in sent : n.dst = m.dst /\ n.id = m.id /\ Stores(im, n)
        BY <1>1, <2>2 DEF PartsGenuine
    <2>4. Stores(im, m)
        BY <2>3 DEF UniqueTo
    <2>5. im.parts = Whole(m.text)
        BY <2>1, <2>4 DEF Stores, Whole
    <2>6. Complete(im)
        BY <1>1, <2>4, <2>5, WholeCardinality DEF Complete, Stores
    <2> QED
        BY <1>1, <2>1, <2>2, <2>6 DEF PartsMissing
<1> QED
    BY <1>3

-----------------------------------------------------------------------------
(* Rounds *)

\* A step is a loss or leaves the losses alone.
LEMMA LossesStep ==
    ASSUME TypeOK, [Next]_endpointVars
    PROVE  /\ Losses \in Nat /\ Losses' \in Nat
           /\ \/ /\ \E d \in net : Lose(d)
                 /\ Losses' = Losses + 1 /\ Losses < MaxLoss
                 /\ out' = out /\ sending' = sending
              \/ lost' = lost /\ Losses' = Losses /\ ~\E d \in net : Lose(d)
<1>1. lost \in [{"data", "ack"} -> Nat] /\ Losses \in Nat
    BY DEF TypeOK, Losses
<1>2. ASSUME NEW d \in net, Lose(d)
      PROVE  /\ Losses' = Losses + 1 /\ Losses < MaxLoss
             /\ out' = out /\ sending' = sending
    <2>1. d.type \in {"data", "ack"}
        BY DEF TypeOK, Fragment, Ack
    <2>2. lost' = [lost EXCEPT ![d.type] = @ + 1]
        BY <1>2 DEF Lose
    <2> QED
        BY <1>1, <1>2, <2>1, <2>2 DEF Losses, Lose, senderVars
<1>3. ASSUME ~\E d \in net : Lose(d)
      PROVE  lost' = lost
    <2>1. ASSUME NEW m \in Message, Send(m)
          PROVE  lost' = lost
        BY <2>1 DEF Send
    <2>2. ASSUME NEW e \in Endpoint, Retransmit(e) \/ GiveUp(e) \/ SendDeadline(e)
                                    \/ SendReturns(e)
          PROVE  lost' = lost
        BY <2>2 DEF Retransmit, GiveUp, SendDeadline, SendReturns, historyVars
    <2>3. ASSUME NEW e \in Endpoint, NEW d \in net, Poll(e, d)
          PROVE  lost' = lost
        BY <2>3 DEF Poll, PollAck, PollDuplicate, PollPartial, PollComplete, historyVars
    <2>4. ASSUME NEW e \in Endpoint, Recv(e) \/ RecvKeyError(e)
          PROVE  lost' = lost
        BY <2>4 DEF Recv, RecvKeyError, PopReady
    <2>5. CASE UNCHANGED endpointVars
        BY <2>5 DEF endpointVars, historyVars
    <2> QED
        BY <1>3, <2>1, <2>2, <2>3, <2>4, <2>5 DEF Next, Step
<1> QED
    BY <1>1, <1>2, <1>3 DEF Losses

\* What a step does to the entry of the message that e goes on sending.
LEMMA PendingStep ==
    ASSUME StepHyp, AllUnique, WholeInv, [Next]_endpointVars,
           NEW e \in Endpoint, sending'[e] # None
    PROVE  \/ \E m \in sent' :
                 /\ net' = net \cup FragmentsOf(m, Indices(m.text)) /\ m \in Message
                 /\ \/ /\ sending[e] = None
                       /\ Pending(e)' = [message |-> m, unacked |-> Indices(m.text),
                                         attempts |-> 1]
                    \/ /\ Retransmit(e) /\ Pending(e) # None /\ m = Pending(e).message
                       /\ Pending(e)' = [Pending(e) EXCEPT !.attempts = @ + 1]
           \/ /\ sending'[e] = sending[e]
              /\ Pending(e)' \in {Pending(e), None}
<1>1. /\ TypeInv /\ TypeOK /\ Genuine /\ UnackedWhole /\ UnackedWhole'
    BY UnackedWholeStep DEF StepHyp, TypeInv, WholeInv
<1> DEFINE Stays == /\ sending'[e] = sending[e]
                    /\ Pending(e)' \in {Pending(e), None}
<1>2. ASSUME NEW m \in Message, Send(m), m.src = e
      PROVE  /\ net' = net \cup FragmentsOf(m, Indices(m.text)) /\ m \in sent'
             /\ sending[e] = None
             /\ Pending(e)' = [message |-> m, unacked |-> Indices(m.text),
                               attempts |-> 1]
    BY <1>1, <1>2 DEF Send, TypeOK, Pending, Message
<1>3. ASSUME Retransmit(e)
      PROVE  \E m \in sent' :
                 /\ net' = net \cup FragmentsOf(m, Indices(m.text)) /\ m \in Message
                 /\ Pending(e) # None /\ m = Pending(e).message
                 /\ Pending(e)' = [Pending(e) EXCEPT !.attempts = @ + 1]
    <2> DEFINE m == Pending(e).message
    <2>1. RoundDue(e) /\ Pending(e) # None /\ sending[e].id \in MsgId
        BY <1>1, <1>3, PendingGenuine DEF Retransmit, RoundDue
    <2>2. m \in sent /\ m \in Message /\ Pending(e).unacked = Indices(m.text)
        BY <1>1, <2>1, PendingGenuine, SentTyped DEF UnackedWhole, Pending
    <2>3. m \in sent' /\ sending' = sending
        BY <1>3, <2>2 DEF Retransmit, historyVars
    <2>4. net' = net \cup FragmentsOf(m, Indices(m.text))
        BY <1>3, <2>2 DEF Retransmit, SendRound
    <2>5. Pending(e)' = [Pending(e) EXCEPT !.attempts = @ + 1]
        BY <1>1, <1>3, <2>1, <2>3 DEF Retransmit, Pending, TypeOK
    <2> QED
        BY <2>1, <2>2, <2>3, <2>4, <2>5
<1>4. ASSUME NEW f \in Endpoint, NEW m \in Message, f # e, m.src = f,
             \/ Send(m) \/ Retransmit(f) \/ GiveUp(f)
      PROVE  Stays
    <2>1. out'[e] = out[e] /\ sending'[e] = sending[e]
        BY <1>1, <1>4 DEF Send, Retransmit, GiveUp, TypeOK
    <2> QED
        BY <2>1 DEF Pending
<1>5. ASSUME NEW f \in Endpoint, SendDeadline(f) \/ SendReturns(f)
      PROVE  Stays
    <2>1. out' = out /\ sending' = [sending EXCEPT ![f] = None]
        BY <1>5 DEF SendDeadline, SendReturns
    <2>2. sending'[e] = sending[e]
        BY <1>1, <2>1 DEF TypeOK
    <2> QED
        BY <2>1, <2>2 DEF Pending
<1>6. ASSUME GiveUp(e)
      PROVE  FALSE
    BY <1>1, <1>6 DEF GiveUp, TypeOK
<1>7. ASSUME UNCHANGED <<sending, out>>
      PROVE  Stays
    BY <1>7 DEF Pending
<1>8. ASSUME NEW f \in Endpoint, NEW d \in net, PollAck(f, d)
      PROVE  Stays
    <2> DEFINE o == out[f][d.id]
               left == StillUnacked(o, d)
    <2>1. d.id \in MsgId /\ d.dst = f /\ d.type = "ack" /\ sending' = sending
        BY <1>1, <1>8 DEF TypeOK, PollAck, Arrives, Fragment, Ack
    <2>2. CASE o = None
        <3>1. out' = out
            BY <1>8, <2>2 DEF PollAck
        <3> QED
            BY <1>7, <2>1, <3>1
    <2>3. CASE o # None
        <3>1. PICK m \in sent : m.src = f /\ m.id = d.id /\ d.count = FragCount(m.text)
            BY <2>1 DEF WholeInv, AcksWhole
        <3>2. o.message = m /\ o.unacked = Indices(m.text)
            BY <1>1, <2>1, <2>3, <3>1
               DEF Genuine, EntriesGenuine, UnackedWhole, AllUnique, UniqueFrom
        <3>3. left = {}
            BY <3>1, <3>2 DEF StillUnacked, Indices
        <3>4. out' = [out EXCEPT ![f][d.id] = None]
            BY <1>8, <2>3, <3>3 DEF PollAck
        <3>5. sending[e].id \in MsgId
            BY <1>1, <2>1, PendingType
        <3> QED
            BY <1>1, <2>1, <3>4, <3>5 DEF Pending, TypeOK
    <2> QED
        BY <2>2, <2>3
<1>9. ASSUME NEW f \in Endpoint, NEW d \in net,
             PollDuplicate(f, d) \/ PollPartial(f, d) \/ PollComplete(f, d)
      PROVE  Stays
    BY <1>7, <1>9 DEF PollDuplicate, PollPartial, PollComplete, senderVars
<1>10. ASSUME NEW f \in Endpoint, Recv(f) \/ RecvKeyError(f)
       PROVE  Stays
    BY <1>7, <1>10 DEF Recv, RecvKeyError, PopReady, senderVars
<1>11. CASE (\E d \in net : Lose(d)) \/ UNCHANGED endpointVars
    BY <1>7, <1>11 DEF Lose, endpointVars, senderVars
<1>12. ASSUME NEW f \in Endpoint, f # e, Retransmit(f) \/ GiveUp(f)
       PROVE  Stays
    <2>1. out'[e] = out[e] /\ sending'[e] = sending[e]
        BY <1>1, <1>12 DEF Retransmit, GiveUp, TypeOK
    <2> QED
        BY <2>1 DEF Pending
<1>13. \A m \in Message : m.src \in Endpoint
    BY DEF Message
<1> HIDE DEF Stays
<1>14. CASE \E m \in Message : Send(m)
    <2>1. PICK m \in Message : Send(m)
        BY <1>14
    <2>2. CASE m.src = e
        BY <1>2, <2>1, <2>2
    <2>3. CASE m.src # e
        BY <1>4, <1>13, <2>1, <2>3 DEF Stays
    <2> QED
        BY <2>2, <2>3
<1>15. CASE \E f \in Endpoint : Retransmit(f) \/ GiveUp(f)
    BY <1>3, <1>6, <1>12, <1>15 DEF Stays
<1> QED
    BY <1>5, <1>8, <1>9, <1>10, <1>11, <1>14, <1>15 DEF Next, Step, Poll, Stays

\* Once every fragment of a message goes out, it is under way.
LEMMA FreshUnderway ==
    ASSUME NEW m \in Message,
           \A i \in Indices(m.text) : FragmentOf(m, i) \in net'
    PROVE  Underway(m)'
<1>1. Indices(m.text) # {}
    BY IndicesType DEF Message
<1> QED
    BY <1>1 DEF Underway, Indices, FragCount, FragmentOf

\* A round is charged to a loss if it is sent when the message is not under way.
LEMMA ChargedStep ==
    ASSUME StepHyp, AllUnique, WholeInv, Kept, [Next]_endpointVars,
           NEW e \in Endpoint, sending'[e] # None,
           sending[e] # None => Charged(e),
           Retransmit(e) => Pending(e).attempts <= Losses
    PROVE  Charged(e)'
<1>1. /\ TypeInv /\ TypeOK /\ Genuine /\ Losses \in Nat /\ Losses' \in Nat
    BY LossesStep DEF StepHyp, TypeInv
<1>2. CASE \E m \in sent' :
                 /\ net' = net \cup FragmentsOf(m, Indices(m.text)) /\ m \in Message
                 /\ \/ /\ sending[e] = None
                       /\ Pending(e)' = [message |-> m, unacked |-> Indices(m.text),
                                         attempts |-> 1]
                    \/ /\ Retransmit(e) /\ Pending(e) # None /\ m = Pending(e).message
                       /\ Pending(e)' = [Pending(e) EXCEPT !.attempts = @ + 1]
    <2>1. PICK m \in sent' :
                 /\ net' = net \cup FragmentsOf(m, Indices(m.text)) /\ m \in Message
                 /\ \/ /\ sending[e] = None
                       /\ Pending(e)' = [message |-> m, unacked |-> Indices(m.text),
                                         attempts |-> 1]
                    \/ /\ Retransmit(e) /\ Pending(e) # None /\ m = Pending(e).message
                       /\ Pending(e)' = [Pending(e) EXCEPT !.attempts = @ + 1]
        BY <1>2
    <2>2. Underway(m)'
        BY <2>1, FreshUnderway DEF FragmentsOf
    <2>3. Losses' >= Losses
        BY LossesStep, <1>1
    <2>4. CASE /\ sending[e] = None
               /\ Pending(e)' = [message |-> m, unacked |-> Indices(m.text),
                                 attempts |-> 1]
        <3>1. Pending(e)'.attempts = 1 /\ Pending(e)'.message = m
            BY <2>4
        <3>2. \A n \in Nat : 1 <= n + 1
            OBVIOUS
        <3>3. 1 <= Losses' + 1
            BY <1>1, <3>2
        <3> QED
            BY <2>2, <3>1, <3>3 DEF Charged
    <2>5. CASE /\ Retransmit(e) /\ Pending(e) # None /\ m = Pending(e).message
               /\ Pending(e)' = [Pending(e) EXCEPT !.attempts = @ + 1]
        <3>1. Pending(e) \in OutMsg
            BY <1>1, <2>5, PendingGenuine DEF Retransmit
        <3>2. /\ Pending(e)'.attempts = Pending(e).attempts + 1
              /\ Pending(e)'.message = m /\ Pending(e).attempts \in Nat
            BY <2>5, <3>1 DEF OutMsg
        <3>3. Pending(e)'.attempts <= Losses' + 1
            BY <1>1, <2>3, <2>5, <3>2
        <3> QED
            BY <2>2, <3>2, <3>3 DEF Charged
    <2> QED
        BY <2>1, <2>4, <2>5
<1>3. CASE /\ sending'[e] = sending[e]
           /\ Pending(e)' \in {Pending(e), None}
    <2>1. CASE Pending(e)' = None
        BY <2>1 DEF Charged
    <2>2. CASE Pending(e)' = Pending(e) /\ Pending(e) # None
        <3>1. /\ Pending(e) \in OutMsg /\ sending[e].id \in MsgId
              /\ Pending(e).attempts \in Nat
            BY <1>1, <1>3, <2>2, PendingType DEF OutMsg
        <3>2. PICK m \in sent : /\ m = Pending(e).message
                                /\ m.src = e /\ m.id = sending[e].id
            BY <1>1, <2>2, <3>1 DEF Genuine, EntriesGenuine, Pending
        <3>3. Charged(e)
            BY <1>3
        <3>4. /\ Pending(e).attempts <= Losses + 1
              /\ Pending(e).attempts = Losses + 1 => Underway(m)
            BY <2>2, <3>2, <3>3 DEF Charged
        <3>5. out[m.src][m.id] # None /\ out'[m.src][m.id] # None
            BY <1>3, <2>2, <3>2 DEF Pending
        <3>6. Pending(e)'.attempts = Pending(e).attempts /\ Pending(e)'.message = m
            BY <2>2, <3>2
        <3>7. CASE Losses' = Losses + 1
            <4>1. Pending(e)'.attempts <= Losses' + 1 /\ Pending(e)'.attempts # Losses' + 1
                BY <1>1, <3>1, <3>4, <3>6, <3>7
            <4> QED
                BY <4>1 DEF Charged
        <3>8. CASE Losses' = Losses /\ ~\E d \in net : Lose(d)
            <4>1. Underway(m) => Underway(m)'
                BY <3>5, <3>8, UnderwayStep
            <4>2. /\ Pending(e)'.attempts <= Losses' + 1
                  /\ Pending(e)'.attempts = Losses' + 1 => Underway(m)'
                BY <3>4, <3>6, <3>8, <4>1
            <4> QED
                BY <3>6, <4>2 DEF Charged
        <3> QED
            BY <1>1, <3>7, <3>8, LossesStep
    <2> QED
        BY <1>3, <2>1, <2>2
<1> QED
    BY <1>2, <1>3, PendingStep

-----------------------------------------------------------------------------
\* The client is in a turn.
InTurn(c) == pc[c] \in {"sending", "receiving"}

\* The server serves as long as the client has turns left.
ServerUp(c) ==
    pc[c] \notin {"closing", "done"} =>
        spc \in {"receiving", "generating", "replying"}

\* The length of the history is the position of the server: two entries a turn,
\* the prompt without its reply while generating.  It has been given the
\* prompts in the history and no others.
HistoryInTurn(c) ==
    LET h == Len(history)
    IN  /\ IF InTurn(c) THEN h \in 2 * turn[c] - 2 .. 2 * turn[c]
                        ELSE h = 2 * turn[c]
        /\ IF Generating THEN h + 1 = 2 * req.id ELSE h % 2 = 0
        /\ \A t \in 1 .. Turns : t \in PoppedIds(Server) <=> 2 * t - 1 <= h

\* A reply is sent when it is in the history, and the next one when the client
\* has completed it; the client has been given those of its outcomes.
RepliesInTurn(c) ==
    /\ \A m \in sent : m.src = Server =>
          /\ 2 * m.id <= Len(history)
          /\ m.id \in Done(c) \/ sending[Server] = m
    /\ \A t \in 1 .. Turns : 2 * t <= Len(history) =>
          \E m \in sent : m.src = Server /\ m.id = t
    /\ \A t \in 1 .. Turns : t \in PoppedIds(c) <=> t <= Len(outcome[c])

\* Each side has a round left for every loss that is still to come.
RoundsCharged(c) ==
    /\ Losses <= MaxLoss
    /\ pc[c] = "sending" => Charged(c)
    /\ spc = "replying" /\ sending[Server].id \notin Done(c) => Charged(Server)

\* The parts about one client that need the service to be in time.
TimelyInv(c) ==
    /\ ServerUp(c)
    /\ HistoryInTurn(c)
    /\ RepliesInTurn(c)
    /\ RoundsCharged(c)

\* What being in time asks of the constants: timeouts longer than what they
\* wait for, a backend that is not slow and does not raise, and more rounds
\* than datagrams that may be lost.
InTime == Timely /\ ~SlowBackend /\ ~BackendFails /\ MaxLoss < MaxRetries

\* With one client all ids are unique, and nothing has raised KeyError.
LEMMA ServiceUnique ==
    ASSUME UdpInv, OneClient
    PROVE  /\ AllUnique /\ failed = {}
           /\ \A e \in Endpoint : ReceiverGenuine(e) /\ Done(e) = completed[e]
<1>1. TypeOK
    BY DEF UdpInv, UdpTypes, TypeInv
<1>2. \A e \in Endpoint : UniqueFrom(e) /\ UniqueTo(e)
    BY ServiceIds, ServerGenuine, Processes DEF UdpInv, IdsInv
<1>3. \A e \in Endpoint : ReceiverGenuine(e)
    BY <1>2 DEF UdpInv, Genuine, ReceiverInv
<1>4. \A e \in Endpoint : evicted[e] = {} /\ Done(e) = completed[e]
    BY PoppedDone DEF UdpInv, IdsInv, NothingEvicted
<1>5. failed = {}
    BY <1>1, <1>3, <1>4 DEF ReceiverGenuine, TypeOK
<1> QED
    BY <1>2, <1>3, <1>4, <1>5 DEF AllUnique

\* A step of the service, as the lemmas about the transport need it.
LEMMA ServiceStep ==
    ASSUME Turns < CompletedCap, UdpInv, OneClient, [UdpNext]_vars
    PROVE  StepHyp /\ AllUnique /\ Kept /\ [Next]_endpointVars /\ UdpInv'
<1>1. UdpInv' /\ [Next]_endpointVars
    BY UdpInvStep, TransportStep DEF UdpInv
<1>2. StepHyp
    BY <1>1, GrowthStep DEF StepHyp, UdpInv, UdpTypes
<1>3. Kept
    BY <1>1, ServiceUnique DEF Kept, UdpInv, IdsInv, NothingEvicted, Done
<1> QED
    BY <1>1, <1>2, <1>3, ServiceUnique

\* When nothing else can happen, who polls has nothing to take.
LEMMA NothingArrives ==
    ASSUME UdpInv, OneClient, Settled, NEW e \in Endpoint,
           sending[e] # None \/ InRecv(e)
    PROVE  \A d \in net : d.dst # e
<1>1. e \notin failed /\ ~Active(e)
    BY ServiceUnique DEF Settled
<1>2. CASE sending[e] # None
    <2>1. Pending(e) # None
        BY <1>1, <1>2 DEF Active
    <2> QED
        BY <1>1, <1>2, <2>1 DEF Active, Polling
<1>3. CASE sending[e] = None /\ InRecv(e)
    <2>1. ready[e] = <<>>
        BY <1>1, <1>3 DEF Active
    <2> QED
        BY <1>1, <1>3, <2>1 DEF Active, Polling
<1> QED
    BY <1>2, <1>3

\* A round that is due when neither side has a datagram left to take is one of
\* a message that lost one.
LEMMA SettledRound ==
    ASSUME UdpInv, OneClient, WholeInv, NEW e \in Endpoint, RoundDue(e),
           Charged(e),
           \A d \in net : d.dst # e /\ d.dst # sending[e].dst
    PROVE  Pending(e).attempts <= Losses
<1>1. /\ TypeInv /\ TypeOK /\ Genuine /\ AllUnique /\ Losses \in Nat
    BY ServiceUnique DEF UdpInv, UdpTypes, TypeInv, TypeOK, Losses
<1>2. PICK m \in sent : /\ m = Pending(e).message /\ m.src = e /\ m.id = sending[e].id
    BY <1>1, PendingGenuine
<1>3. Pending(e).attempts \in Nat /\ Pending(e) # None
    BY <1>1, PendingGenuine DEF OutMsg, RoundDue
<1>4. sending[e] = m
    BY <1>1, <1>2 DEF RoundDue, Genuine, SendsGenuine, AllUnique, UniqueFrom
<1>5. m.dst \in Endpoint
    BY <1>1, SentTyped DEF Message
<1>6. ~Underway(m)
    BY <1>1, <1>2, <1>4, <1>5, ServiceUnique, NothingUnderway
       DEF AllUnique, ReceiverGenuine
<1>7. Pending(e).attempts <= Losses + 1 /\ Pending(e).attempts # Losses + 1
    BY <1>2, <1>3, <1>6 DEF Charged
<1> QED
    BY <1>1, <1>3, <1>7

\* The server polls for a client that is in its turns, unless it generates.
LEMMA ServerWaits ==
    ASSUME UdpInv, NEW c \in Client, ServerUp(c), ~Generating,
           pc[c] \notin {"closing", "done"}
    PROVE  sending[Server] # None \/ InRecv(Server)
<1>1. AppTypes
    BY DEF UdpInv, UdpTypes
<1> QED
    BY <1>1 DEF ServerUp, AppTypes, InRecv, Generating

\* A send_message of a client in a turn has a round left for every loss.
LEMMA ClientRoundLeft ==
    ASSUME UdpInv, OneClient, WholeInv, InTime, NEW c \in Client,
           TimelyInv(c), pc[c] = "sending", WaitInv(c), RoundDue(c), RtoExpires
    PROVE  Pending(c).attempts <= Losses
<1>1. Settled /\ ~Generating
    BY DEF RtoExpires, InTime
<1>2. c \in Endpoint /\ Server \in Endpoint /\ sending[c].dst = Server
    BY Processes DEF WaitInv
<1>3. \A d \in net : d.dst # c
    BY <1>1, <1>2, NothingArrives DEF RoundDue
<1>4. \A d \in net : d.dst # Server
    BY <1>1, <1>2, ServerWaits, NothingArrives DEF TimelyInv
<1> QED
    BY <1>2, <1>3, <1>4, SettledRound DEF TimelyInv, RoundsCharged

\* A reply not completed at the client finds it in its turn.
LEMMA ReplyAwaited ==
    ASSUME UdpInv, OneClient, NEW c \in Client, TimelyInv(c), WaitInv(c),
           ServerInv, NEW m \in sent, m.src = Server, m.id \notin Done(c)
    PROVE  pc[c] \notin {"done", "idle", "closing"} /\ m.dst = c
<1>1. /\ AppTypes /\ c \in Endpoint /\ Turns \in Nat /\ turn[c] \in 0 .. Turns
      /\ outcome[c] \in Seq(SUBSET Part) /\ Len(outcome[c]) \in Nat
    BY Processes, LenProperties DEF UdpInv, UdpTypes, AppTypes
<1>2. m.dst = c
    BY Processes DEF UdpInv, IdsInv, ServerSends, OneClient
<1>3. m.id \in 1 .. turn[c]
    BY <1>2 DEF ServerInv, RepliesSent
<1>4. m.id \notin PoppedIds(c)
    BY <1>1, PoppedDone
<1>5. ~(m.id <= Len(outcome[c]))
    BY <1>1, <1>3, <1>4 DEF TimelyInv, RepliesInTurn
<1>6. turn[c] # Len(outcome[c])
    BY <1>1, <1>3, <1>5
<1>7. pc[c] \notin {"sending", "receiving"} => turn[c] = Len(outcome[c])
    BY <1>1 DEF WaitInv
<1> QED
    BY <1>2, <1>6, <1>7

\* A reply the client has not completed has a round left for every loss.
LEMMA ServerRoundLeft ==
    ASSUME UdpInv, OneClient, WholeInv, InTime, NEW c \in Client,
           TimelyInv(c), WaitInv(c), ServerInv,
           sending[Server].id \notin Done(c), RoundDue(Server), RtoExpires
    PROVE  Pending(Server).attempts <= Losses
<1>1. Settled /\ ~Generating /\ AppTypes /\ Genuine
    BY DEF RtoExpires, InTime, UdpInv, UdpTypes
<1>2. /\ c \in Endpoint /\ Server \in Endpoint /\ sending[Server] # None
      /\ sending[Server] \in sent /\ sending[Server].src = Server
    BY <1>1, Processes DEF RoundDue, Genuine, SendsGenuine
<1>3. \A d \in net : d.dst # Server
    BY <1>1, <1>2, NothingArrives
<1>4. pc[c] \notin {"done", "idle", "closing"} /\ sending[Server].dst = c
    BY <1>2, ReplyAwaited
<1>5. sending[c] # None \/ InRecv(c)
    BY <1>1, <1>4 DEF AppTypes, InRecv
<1>6. \A d \in net : d.dst # c
    BY <1>1, <1>2, <1>5, NothingArrives
<1>7. spc = "replying"
    BY <1>1, <1>2 DEF AppTypes
<1> QED
    BY <1>2, <1>3, <1>4, <1>6, <1>7, SettledRound DEF TimelyInv, RoundsCharged

\* The recv_message of a client does not time out.
LEMMA ReplyComes ==
    ASSUME UdpInv, OneClient, InTime, NEW c \in Client, TimelyInv(c), WaitInv(c),
           pc[c] = "receiving"
    PROVE  ~RecvExpires
<1> SUFFICES ASSUME RecvExpires
             PROVE  FALSE
    OBVIOUS
<1>1. Settled /\ ~Generating /\ \A e \in Endpoint : sending[e] = None
    BY DEF RecvExpires, InTime
<1>2. /\ AppTypes /\ TypeOK /\ c \in Endpoint /\ Server \in Endpoint
      /\ Turns \in Nat /\ turn[c] \in 0 .. Turns
      /\ Len(outcome[c]) \in Nat /\ Len(history) \in Nat
    BY Processes, LenProperties DEF UdpInv, UdpTypes, AppTypes, TypeInv
<1>3. InRecv(Server) /\ InRecv(c)
    BY <1>1, <1>2, ServerWaits DEF TimelyInv, InRecv
<1>4. ready[Server] = <<>> /\ ready[c] = <<>>
    BY <1>1, <1>2, <1>3, ServiceUnique DEF Settled, Active
<1>5. Range(ready[Server]) = {} /\ Range(ready[c]) = {}
    BY <1>4 DEF Range
<1>6. turn[c] \in PoppedIds(Server)
    BY <1>2, <1>5, ServiceUnique DEF WaitInv, ReceiverGenuine, DoneAvailable
<1>7. turn[c] = Len(outcome[c]) + 1
    BY DEF WaitInv
<1>8. 2 * turn[c] - 1 <= Len(history) /\ Len(history) % 2 = 0
    BY <1>1, <1>2, <1>6, <1>7 DEF TimelyInv, HistoryInTurn
<1>9. 2 * turn[c] <= Len(history)
    BY <1>2, <1>8
<1>10. PICK m \in sent : m.src = Server /\ m.id = turn[c]
    BY <1>2, <1>7, <1>9 DEF TimelyInv, RepliesInTurn
<1>11. m.id \in Done(c)
    <2>1. m # None
        BY <1>2, SentTyped, EndpointAssumption
    <2> QED
        BY <1>1, <1>2, <1>10, <2>1 DEF TimelyInv, RepliesInTurn
<1>12. turn[c] \in PoppedIds(c)
    BY <1>2, <1>5, <1>10, <1>11, ServiceUnique DEF ReceiverGenuine, DoneAvailable
<1>13. turn[c] <= Len(outcome[c])
    BY <1>2, <1>7, <1>12 DEF TimelyInv, RepliesInTurn
<1> QED
    BY <1>2, <1>7, <1>13

\* The server does not give up waiting for a client in its turns.
LEMMA ServerStays ==
    ASSUME UdpInv, OneClient, InTime, NEW c \in Client, TimelyInv(c), WaitInv(c),
           RecvExpires
    PROVE  pc[c] \in {"closing", "done"}
<1>1. Settled /\ \A e \in Endpoint : sending[e] = None
    BY DEF RecvExpires, InTime
<1>2. AppTypes /\ c \in Endpoint /\ ~Active(c) /\ c \notin failed
    BY <1>1, ServiceUnique, Processes DEF UdpInv, UdpTypes, Settled
<1>3. pc[c] # "receiving"
    BY ReplyComes
<1>4. pc[c] # "sending" /\ pc[c] # "idle"
    BY <1>1, <1>2 DEF AppTypes, Active
<1>5. pc[c] \in {"idle", "sending", "receiving", "closing", "done"}
    BY <1>2 DEF AppTypes
<1> QED
    BY <1>3, <1>4, <1>5

-----------------------------------------------------------------------------
(* The steps *)

\* What the steps below start from.
Timing(c) ==
    /\ UdpInv /\ OneClient /\ WholeInv /\ InTime
    /\ TimelyInv(c) /\ WaitInv(c) /\ ServerInv

\* Another round is sent only by RoundAgain.
LEMMA OnlyRoundAgain ==
    ASSUME UdpInv, [UdpNext]_vars, NEW e \in Endpoint, Retransmit(e)
    PROVE  RtoExpires
<1> DEFINE id == sending[e].id
<1>1. /\ TypeInv /\ TypeOK /\ AppTypes /\ sending' = sending /\ sending[e] # None
      /\ Pending(e) # None /\ Pending(e) \in OutMsg /\ id \in MsgId
    BY PendingType DEF UdpInv, UdpTypes, TypeInv, Retransmit, RoundDue
<1>2. /\ Pending(e).attempts \in Nat
      /\ out'[e][id] = [Pending(e) EXCEPT !.attempts = @ + 1]
    BY <1>1 DEF Retransmit, TypeOK, Pending, OutMsg
<1>3. out'[e][id].attempts = Pending(e).attempts + 1
    BY <1>1, <1>2 DEF OutMsg
<1>4. out'[e][id].attempts # out[e][id].attempts
    BY <1>2, <1>3 DEF Pending
<1>5. out' # out
    BY <1>4
<1>6. ASSUME NEW m \in Message, Send(m)
      PROVE  FALSE
    BY <1>1, <1>6, SendEffect DEF Message
<1>7. ASSUME NEW f \in Endpoint, SendEnds(f)
      PROVE  FALSE
    BY <1>1, <1>7, SendEndsEffect
<1>8. ASSUME NEW f \in Endpoint, Recv(f) \/ RecvKeyError(f)
      PROVE  FALSE
    BY <1>5, <1>8 DEF Recv, RecvKeyError, PopReady, senderVars
<1>9. CASE UNCHANGED endpointVars
    BY <1>5, <1>9 DEF endpointVars, senderVars
<1>10. ASSUME NEW c \in Client, ClientStep(c)
       PROVE  FALSE
    <2>1. CASE StartTurn(c)
        BY <1>1, <1>6, <2>1, RequestType DEF StartTurn, RequestOf
    <2>2. CASE StartShutdown(c)
        BY <1>1, <1>6, <2>2, RequestType DEF StartShutdown, RequestOf
    <2>3. CASE ClientSent(c) \/ ClientSendFails(c)
        BY <1>7, <2>3, Processes DEF ClientSent, ClientSendFails, SendEnds
    <2>4. CASE ClientReceives(c)
        BY <1>8, <2>4, Processes DEF ClientReceives
    <2>5. CASE Leave(c) \/ ClientRecvTimeout(c)
        BY <1>9, <1>5, <2>5 DEF Leave, ClientRecvTimeout, endpointVars, senderVars
    <2> QED
        BY <1>10, <2>1, <2>2, <2>3, <2>4, <2>5 DEF ClientStep
<1>11. CASE ServerStep
    <2>1. CASE GenerateReturns
        BY <1>1, <1>6, <2>1, ResponseType DEF GenerateReturns, Response
    <2>2. CASE ServerSent
        BY <1>7, <2>2, Processes DEF ServerSent, SendEnds
    <2>3. CASE ServerReceives
        BY <1>8, <2>3, Processes DEF ServerReceives
    <2>4. CASE GenerateRaises \/ ServerIdleTimeout
        BY <1>5, <2>4 DEF GenerateRaises, ServerIdleTimeout, endpointVars, senderVars
    <2> QED
        BY <1>11, <2>1, <2>2, <2>3, <2>4 DEF ServerStep
<1>12. ASSUME NEW f \in Endpoint, NEW d \in net, PollAck(f, d)
       PROVE  FALSE
    <2> DEFINE o == out[f][d.id]
               left == StillUnacked(o, d)
    <2>1. out' # out /\ d.id \in MsgId
        BY <1>1, <1>5, <1>12 DEF TypeOK, PollAck, Arrives, Fragment, Ack
    <2>2. /\ o # None /\ o \in OutMsg
          /\ out' = [out EXCEPT ![f][d.id] =
                        IF left = {} THEN None ELSE [o EXCEPT !.unacked = left]]
        BY <1>1, <1>12, <2>1 DEF PollAck, TypeOK
    <2>3. [o EXCEPT !.unacked = left].attempts = o.attempts
        BY <2>2 DEF OutMsg
    <2> HIDE DEF left
    <2>4. /\ out'[e][id] \in OutMsg
        BY <1>1, <1>2 DEF OutMsg
    <2>5. out'[e][id] # None
        BY <2>4, EndpointAssumption
    <2>6. CASE e = f /\ id = d.id
        <3>1. out'[e][id] = [o EXCEPT !.unacked = left]
            BY <1>1, <2>1, <2>2, <2>5, <2>6 DEF TypeOK
        <3> QED
            BY <1>4, <2>3, <2>6, <3>1
    <2>7. CASE ~(e = f /\ id = d.id)
        <3>1. out'[e][id] = out[e][id]
            BY <1>1, <2>1, <2>2, <2>7 DEF TypeOK
        <3> QED
            BY <1>4, <3>1
    <2> QED
        BY <2>6, <2>7
<1>13. ASSUME NEW f \in Endpoint, PollOne(f)
       PROVE  FALSE
    <2>1. PICK d \in net : Poll(f, d)
        BY <1>13 DEF PollOne
    <2>2. CASE PollDuplicate(f, d) \/ PollPartial(f, d) \/ PollComplete(f, d)
        BY <1>5, <2>2 DEF PollDuplicate, PollPartial, PollComplete, senderVars
    <2> QED
        BY <1>12, <2>1, <2>2 DEF Poll
<1>14. CASE Quiet
    <2>1. CASE LoseOne
        BY <1>5, <2>1 DEF LoseOne, Lose, senderVars
    <2>2. CASE Finished \/ UNCHANGED vars
        BY <1>9, <1>5, <2>2 DEF Finished, vars, endpointVars, senderVars
    <2>3. ASSUME NEW f \in Endpoint, Crash(f)
          PROVE  FALSE
        BY <1>8, <2>3 DEF Crash
    <2>4. ASSUME NEW f \in Endpoint, RoundAgain(f)
          PROVE  RtoExpires
        BY <2>4 DEF RoundAgain
    <2> QED
        BY <1>13, <1>14, <2>1, <2>2, <2>3, <2>4 DEF Quiet
<1> QED
    BY <1>10, <1>11, <1>14, Steps

\* In time, a client's send_message fails only if it is a shutdown, and
\* recv_message does not.
LEMMA ClientMovesInTime ==
    ASSUME NEW c \in Client, Timing(c), ClientStep(c)
    PROVE  \/ /\ pc[c] = "idle" /\ pc'[c] = "sending" /\ turn'[c] = turn[c] + 1
              /\ UNCHANGED <<outcome, popped>>
           \/ /\ pc[c] \in {"idle", "closing"} /\ pc'[c] \in {"closing", "done"}
              /\ UNCHANGED <<turn, outcome, popped>>
           \/ /\ pc[c] = "sending" /\ pc'[c] = "receiving"
              /\ UNCHANGED <<turn, outcome, popped>>
           \/ /\ pc[c] = "receiving" /\ pc'[c] = "idle" /\ ClientReceives(c)
              /\ turn' = turn
<1>1. /\ TypeOK /\ AppTypes /\ UdpInv /\ c \in Endpoint
      /\ pc \in [Client -> {"idle", "sending", "receiving", "closing", "done"}]
      /\ MaxRetries \in Nat /\ MaxLoss \in Nat /\ Losses \in Nat
      /\ Losses <= MaxLoss /\ MaxLoss < MaxRetries
    <2>1. TypeOK /\ AppTypes /\ UdpInv /\ Losses <= MaxLoss /\ MaxLoss < MaxRetries
        BY DEF Timing, UdpInv, UdpTypes, TypeInv, TimelyInv, RoundsCharged, InTime
    <2>2. Losses \in Nat
        BY <2>1 DEF TypeOK, Losses
    <2> QED
        BY <2>1, <2>2, Processes, EndpointAssumption DEF AppTypes
<1>2. CASE StartTurn(c)
    BY <1>1, <1>2, ClientMoves DEF StartTurn
<1>3. CASE Leave(c) \/ StartShutdown(c)
    BY <1>1, <1>3, ClientMoves DEF Leave, StartShutdown
<1>4. CASE ClientSent(c)
    <2>1. popped' = popped /\ pc[c] \in {"sending", "closing"}
        BY <1>1, <1>4 DEF ClientSent, SendReturns, AppTypes
    <2> QED
        BY <1>1, <1>4, <2>1 DEF ClientSent
<1>5. CASE ClientSendFails(c)
    <2>1. RtoExpires /\ GiveUp(c)
        BY <1>5 DEF ClientSendFails, HardDeadlineExpires, Timing, InTime
    <2>2. RoundDue(c) /\ LastRound(c) /\ Pending(c).attempts \in Nat
        BY <1>1, <2>1, PendingGenuine DEF GiveUp, UdpInv, UdpTypes, OutMsg
    <2>3. pc[c] # "sending"
        <3>1. ASSUME pc[c] = "sending"
              PROVE  Pending(c).attempts <= Losses
            BY <2>1, <2>2, <3>1, ClientRoundLeft DEF Timing
        <3> QED
            BY <1>1, <2>2, <3>1 DEF LastRound
    <2>4. popped' = popped /\ pc[c] = "closing"
        BY <1>1, <2>1, <2>2, <2>3 DEF GiveUp, historyVars, AppTypes, RoundDue
    <2> QED
        BY <1>1, <1>5, <2>4 DEF ClientSendFails
<1>6. CASE ClientReceives(c)
    BY <1>1, <1>6 DEF ClientReceives
<1>7. CASE ClientRecvTimeout(c)
    BY <1>7, ReplyComes DEF ClientRecvTimeout, Timing
<1> QED
    BY <1>2, <1>3, <1>4, <1>5, <1>6, <1>7 DEF ClientStep

\* The server stays until the client closes.
LEMMA ServerUpStep ==
    ASSUME NEW c \in Client, Timing(c), [UdpNext]_vars
    PROVE  ServerUp(c)'
<1>1. /\ UdpInv /\ OneClient /\ AppTypes /\ ServerUp(c) /\ TypeInv
    BY DEF Timing, UdpInv, UdpTypes, TimelyInv
<1>2. pc'[c] \notin {"closing", "done"} => pc[c] \notin {"closing", "done"}
    BY <1>1, ClientMovesInTime, OthersMove
<1>3. ASSUME pc[c] \notin {"closing", "done"}
      PROVE  spc' \in {"receiving", "generating", "replying"}
    <2>1. spc \in {"receiving", "generating", "replying"}
        BY <1>1, <1>3 DEF ServerUp
    <2>2. CASE ServerReceives
        <3> DEFINE r == NextReceived(Server)
        <3>1. PICK m \in sent : m.dst = Server /\ r = Intact(m)
            BY <1>1, <2>2, ServerGenuine, ReceivedIntact, Processes DEF ServerReceives
        <3>2. m.src = c /\ m \in Message
            BY <1>1, <3>1, SentFrom, Processes DEF OneClient
        <3>3. /\ m.text = Prompt(c, m.id) /\ m.id \in 1 .. turn[c]
              /\ turn[c] \in 0 .. Turns /\ Turns \in Nat
            BY <1>1, <1>3, <3>2, Processes DEF UdpInv, IdsInv, ClientSends, AppTypes
        <3>4. m.text \in Text /\ m.text # ShutdownText
            BY <3>3, ServiceTexts, TextsDiffer
        <3>5. r.body # Whole(ShutdownText)
            BY <3>1, <3>4, ServiceTexts, WholeInjective DEF Intact
        <3> QED
            BY <2>1, <2>2, <3>5 DEF ServerReceives
    <2>3. CASE GenerateReturns \/ ServerSent
        BY <2>3 DEF GenerateReturns, ServerSent
    <2>4. CASE GenerateRaises
        BY <2>4 DEF GenerateRaises, Timing, InTime
    <2>5. CASE ServerIdleTimeout
        BY <1>3, <2>5, ServerStays DEF ServerIdleTimeout, Timing
    <2>6. ASSUME NEW d \in Client, ClientStep(d)
          PROVE  spc' = spc
        BY <2>6 DEF ClientStep, StartTurn, Leave, StartShutdown, ClientSent,
                    ClientSendFails, ClientReceives, ClientRecvTimeout
    <2>7. CASE Quiet
        BY <2>1, <2>7, QuietFrame
    <2> QED
        BY <2>1, <2>2, <2>3, <2>4, <2>5, <2>6, <2>7, Steps DEF ServerStep
<1> QED
    BY <1>2, <1>3 DEF ServerUp

\* A client's step leaves the call of the server alone.
LEMMA ClientSendsAlone ==
    ASSUME UdpInv, NEW d \in Client, ClientStep(d)
    PROVE  sending'[Server] = sending[Server]
<1>1. /\ TypeOK /\ TypeInv /\ AppTypes /\ d \in Endpoint /\ Server \in Endpoint
      /\ d # Server
    BY Processes DEF UdpInv, UdpTypes, TypeInv
<1>2. CASE StartTurn(d)
    <2>1. /\ Send(RequestOf(d, Prompt(d, turn[d] + 1)))
          /\ RequestOf(d, Prompt(d, turn[d] + 1)) \in Message
          /\ RequestOf(d, Prompt(d, turn[d] + 1)).src = d
        BY <1>1, <1>2, RequestType DEF StartTurn, RequestOf
    <2> QED
        BY <1>1, <2>1, SendEffect
<1>3. CASE StartShutdown(d)
    <2>1. /\ Send(RequestOf(d, ShutdownText))
          /\ RequestOf(d, ShutdownText) \in Message
          /\ RequestOf(d, ShutdownText).src = d
        BY <1>1, <1>3, RequestType DEF StartShutdown, RequestOf
    <2> QED
        BY <1>1, <2>1, SendEffect
<1>4. CASE ClientSent(d) \/ ClientSendFails(d)
    <2>1. SendEnds(d)
        BY <1>4 DEF ClientSent, ClientSendFails, SendEnds
    <2> QED
        BY <1>1, <2>1, SendEndsEffect
<1>5. CASE ClientReceives(d)
    BY <1>1, <1>5, RecvEffect DEF ClientReceives
<1>6. CASE Leave(d) \/ ClientRecvTimeout(d)
    BY <1>6 DEF Leave, ClientRecvTimeout, endpointVars, senderVars
<1> QED
    BY <1>2, <1>3, <1>4, <1>5, <1>6 DEF ClientStep

\* A round is sent when a message is not under way, or not at all.
LEMMA RoundsChargedStep ==
    ASSUME NEW c \in Client, Timing(c), Turns < CompletedCap, [UdpNext]_vars
    PROVE  RoundsCharged(c)'
<1>1. /\ UdpInv /\ UdpInv' /\ OneClient /\ AppTypes /\ AppTypes' /\ WholeInv
      /\ TypeInv /\ TypeOK /\ c \in Endpoint /\ Server \in Endpoint
      /\ StepHyp /\ AllUnique /\ Kept /\ [Next]_endpointVars
      /\ RoundsCharged(c) /\ MaxLoss \in Nat
    BY ServiceStep, Processes, EndpointAssumption
       DEF Timing, UdpInv, UdpTypes, TypeInv, TimelyInv
<1>2. Losses' <= MaxLoss
    BY <1>1, LossesStep DEF RoundsCharged
<1>3. ASSUME pc'[c] = "sending"
      PROVE  Charged(c)'
    <2>1. sending'[c] # None
        BY <1>1, <1>3 DEF AppTypes
    <2>2. sending[c] # None => pc[c] = "sending"
        <3>1. pc[c] # "closing"
            BY <1>1, <1>3, ClientMovesInTime, OthersMove
        <3> QED
            BY <1>1, <3>1 DEF AppTypes
    <2>3. sending[c] # None => Charged(c)
        BY <1>1, <2>2 DEF RoundsCharged
    <2>4. Retransmit(c) => Pending(c).attempts <= Losses
        <3>1. ASSUME Retransmit(c)
              PROVE  Pending(c).attempts <= Losses
            <4>1. RoundDue(c) /\ RtoExpires /\ pc[c] = "sending"
                BY <1>1, <2>2, <3>1, OnlyRoundAgain DEF Retransmit, RoundDue
            <4> QED
                BY <4>1, ClientRoundLeft DEF Timing
        <3> QED
            BY <3>1
    <2> QED
        BY <1>1, <2>1, <2>3, <2>4, ChargedStep
<1>4. ASSUME spc' = "replying", sending'[Server].id \notin Done(c)'
      PROVE  Charged(Server)'
    <2>1. sending'[Server] # None
        BY <1>1, <1>4 DEF AppTypes
    <2>2. sending[Server] # None => sending'[Server] = sending[Server]
        <3>1. ASSUME sending[Server] # None
              PROVE  sending'[Server] = sending[Server]
            <4>1. spc = "replying"
                BY <1>1, <3>1 DEF AppTypes
            <4>2. CASE ServerStep
                BY <1>4, <4>1, <4>2
                   DEF ServerStep, ServerReceives, GenerateReturns, GenerateRaises,
                       ServerSent, ServerIdleTimeout, Generating
            <4>3. ASSUME NEW d \in Client, ClientStep(d)
                  PROVE  sending'[Server] = sending[Server]
                BY <1>1, <4>3, ClientSendsAlone
            <4>4. CASE Quiet
                BY <4>4, QuietFrame
            <4> QED
                BY <4>2, <4>3, <4>4, Steps
        <3> QED
            BY <3>1
    <2>3. sending[Server] # None => sending[Server].id \notin Done(c) /\ spc = "replying"
        BY <1>1, <1>4, <2>2 DEF StepHyp, Growth, AppTypes
    <2>4. sending[Server] # None => Charged(Server)
        BY <1>1, <2>3 DEF RoundsCharged
    <2>5. Retransmit(Server) => Pending(Server).attempts <= Losses
        <3>1. ASSUME Retransmit(Server)
              PROVE  Pending(Server).attempts <= Losses
            <4>1. RoundDue(Server) /\ RtoExpires /\ sending[Server].id \notin Done(c)
                BY <1>1, <2>3, <3>1, OnlyRoundAgain DEF Retransmit, RoundDue
            <4> QED
                BY <4>1, ServerRoundLeft DEF Timing
        <3> QED
            BY <3>1
    <2> QED
        BY <1>1, <2>1, <2>4, <2>5, ChargedStep
<1> QED
    BY <1>2, <1>3, <1>4 DEF RoundsCharged

\* What the server receives in a turn is its prompt, and the client's view of
\* the conversation is the server's.
LEMMA PromptInTurn ==
    ASSUME NEW c \in Client, Timing(c), ServerReceives
    PROVE  \/ /\ ~Generating' /\ UNCHANGED <<history, req>>
              /\ NextReceived(Server).id = Turns + 1
           \/ /\ Generating' /\ req' = NextReceived(Server)
              /\ NextReceived(Server).id = turn[c]
              /\ NextReceived(Server).body = Whole(Prompt(c, turn[c]))
              /\ history' = Append(history, NextReceived(Server).body)
              /\ Len(history) + 2 = 2 * turn[c] /\ turn[c] \in 1 .. Turns
<1> DEFINE r == NextReceived(Server)
<1>1. /\ UdpInv /\ OneClient /\ AppTypes /\ Server \in Endpoint /\ Turns \in Nat
      /\ turn[c] \in 0 .. Turns /\ Len(history) \in Nat /\ HistoryInTurn(c)
      /\ spc = "receiving"
    BY Processes, LenProperties
       DEF Timing, UdpInv, UdpTypes, AppTypes, TimelyInv, ServerReceives
<1>2. /\ r.id \notin PoppedIds(Server)
      /\ \E m \in sent : m.dst = Server /\ r = Intact(m)
    BY <1>1, ServerGenuine, ReceivedIntact DEF ServerReceives
<1>3. PICK m \in sent : m.dst = Server /\ r = Intact(m)
    BY <1>2
<1>4. /\ m.src = c /\ m \in Message
      /\ r.id = m.id /\ r.flags = m.flags /\ r.body = Whole(m.text)
    BY <1>1, <1>3, SentFrom, Processes DEF OneClient, Intact
<1>5. /\ m.flags = "REQUEST"
      /\ \/ m.id \in 1 .. turn[c] /\ m.text = Prompt(c, m.id)
         \/ m.id = Turns + 1 /\ m.text = ShutdownText
    BY <1>1, <1>4 DEF UdpInv, IdsInv, ClientSends
<1> HIDE DEF r
<1>6. CASE m.id = Turns + 1 /\ m.text = ShutdownText
    <2>1. r.flags = "REQUEST" /\ r.body = Whole(ShutdownText)
        BY <1>4, <1>5, <1>6
    <2>2. spc' = "stopped" /\ UNCHANGED <<req, history>>
        BY <2>1 DEF ServerReceives, r
    <2> QED
        BY <1>4, <1>6, <2>2 DEF Generating, r
<1>7. CASE m.id \in 1 .. turn[c] /\ m.text = Prompt(c, m.id)
    <2>1. m.id \in 1 .. Turns
        BY <1>1, <1>7
    <2>2. m.text \in Text /\ m.text # ShutdownText
        BY <1>7, <2>1, ServiceTexts, TextsDiffer
    <2>3. r.flags = "REQUEST" /\ r.body # Whole(ShutdownText)
        BY <1>4, <1>5, <2>2, ServiceTexts, WholeInjective
    <2>4. spc' = "generating" /\ req' = r /\ history' = Append(history, r.body)
        BY <2>3 DEF ServerReceives, r
    <2>5. m.id \notin PoppedIds(Server)
        BY <1>2, <1>4
    <2>6. ~(2 * m.id - 1 <= Len(history)) /\ Len(history) % 2 = 0
        BY <1>1, <2>1, <2>5 DEF HistoryInTurn, Generating
    <2>7. Len(history) \in 2 * turn[c] - 2 .. 2 * turn[c]
        BY <1>1 DEF HistoryInTurn
    <2>8. m.id = turn[c] /\ Len(history) + 2 = 2 * turn[c]
        BY <1>1, <1>7, <2>1, <2>6, <2>7
    <2> QED
        BY <1>4, <1>7, <2>1, <2>4, <2>8 DEF Generating, r
<1> QED
    BY <1>5, <1>6, <1>7

\* What is generated is the reply to the prompt of the turn.
LEMMA ReplyInTurn ==
    ASSUME NEW c \in Client, Timing(c), GenerateReturns
    PROVE  /\ req.id = turn[c] /\ req.src = c /\ Generating /\ ~Generating'
           /\ history' = Append(history, Whole(ReplyTo(Prompt(c, turn[c]))))
           /\ Len(history) + 1 = 2 * turn[c] /\ turn[c] \in 1 .. Turns
<1>1. /\ UdpInv /\ OneClient /\ AppTypes /\ Turns \in Nat
      /\ turn[c] \in 0 .. Turns /\ Len(history) \in Nat /\ HistoryInTurn(c)
      /\ Generating /\ ~Generating' /\ ServerInv
    BY Processes, LenProperties
       DEF Timing, UdpInv, UdpTypes, AppTypes, TimelyInv, GenerateReturns, Generating
<1>2. /\ req.src = c /\ req.id \in 1 .. turn[c]
      /\ req.body = Whole(Prompt(c, req.id))
    BY <1>1 DEF OneClient, UdpInv, IdsInv, RequestServed, ServerInv, RequestWhole
<1>3. Len(history) + 1 = 2 * req.id
    BY <1>1 DEF HistoryInTurn
<1>4. Len(history) \in 2 * turn[c] - 2 .. 2 * turn[c]
    BY <1>1 DEF HistoryInTurn
<1>5. req.id = turn[c] /\ turn[c] \in 1 .. Turns
    BY <1>1, <1>2, <1>3, <1>4
<1>6. ReplyText(req.body) = ReplyTo(Prompt(c, turn[c]))
    BY <1>2, <1>5, ServiceTexts, ReplyTextType
<1>7. history' = Append(history, Whole(ReplyTo(Prompt(c, turn[c]))))
    BY <1>6 DEF GenerateReturns
<1> QED
    BY <1>1, <1>2, <1>3, <1>5, <1>7

\* What a client is given is the reply to its prompt.
LEMMA GivenInTurn ==
    ASSUME NEW c \in Client, Timing(c), ClientReceives(c)
    PROVE  /\ NextReceived(c).id = turn[c]
           /\ NextReceived(c).body = Whole(ReplyTo(Prompt(c, turn[c])))
           /\ Len(history) = 2 * turn[c] /\ Len(outcome[c]) + 1 = turn[c]
           /\ turn[c] \in 1 .. Turns
<1> DEFINE r == NextReceived(c)
<1>1. /\ UdpInv /\ OneClient /\ AppTypes /\ Turns \in Nat /\ c \in Endpoint
      /\ turn[c] \in 0 .. Turns /\ Len(history) \in Nat /\ Len(outcome[c]) \in Nat
      /\ HistoryInTurn(c) /\ RepliesInTurn(c) /\ WaitInv(c) /\ ServerInv
      /\ pc[c] = "receiving" /\ Recv(c)
    BY Processes, LenProperties
       DEF Timing, UdpInv, UdpTypes, AppTypes, TimelyInv, ClientReceives
<1>2. /\ r.id \notin PoppedIds(c)
      /\ \E m \in sent : m.dst = c /\ r = Intact(m)
    BY <1>1, ServiceUnique, ReceivedIntact
<1>3. PICK m \in sent : m.dst = c /\ r = Intact(m)
    BY <1>2
<1>4. m.src = Server /\ r.id = m.id /\ r.body = Whole(m.text)
    BY <1>1, <1>3, SentFrom, Processes DEF Intact
<1>5. m.id \in 1 .. turn[c] /\ m.text = ReplyTo(Prompt(c, m.id))
    BY <1>1, <1>3, <1>4 DEF ServerInv, RepliesSent
<1>6. turn[c] = Len(outcome[c]) + 1
    BY <1>1 DEF WaitInv
<1>7. m.id \in 1 .. Turns /\ m.id \notin PoppedIds(c)
    BY <1>1, <1>2, <1>4, <1>5
<1>8. ~(m.id <= Len(outcome[c]))
    BY <1>1, <1>7 DEF RepliesInTurn
<1>9. m.id = turn[c]
    BY <1>1, <1>5, <1>6, <1>8
<1>10. 2 * turn[c] <= Len(history)
    BY <1>1, <1>4, <1>9 DEF RepliesInTurn
<1>11. Len(history) \in 2 * turn[c] - 2 .. 2 * turn[c]
    BY <1>1 DEF HistoryInTurn, InTurn
<1>12. Len(history) = 2 * turn[c]
    BY <1>1, <1>10, <1>11
<1> QED
    BY <1>4, <1>5, <1>6, <1>7, <1>9, <1>12

\* A step of the service but those two leaves the conversation alone.
LEMMA ConversationFrame ==
    ASSUME UdpInv, InTime, [UdpNext]_vars, ~ServerReceives, ~GenerateReturns
    PROVE  /\ history' = history /\ popped'[Server] = popped[Server]
           /\ Generating' = Generating /\ req' = req
           /\ \A m \in sent' : m.src = Server => m \in sent
           /\ sending'[Server] = sending[Server] \/ ServerSent
<1>1. TypeOK /\ Server \in Endpoint
    BY Processes DEF UdpInv, UdpTypes, TypeInv
<1>2. history' = history /\ popped'[Server] = popped[Server]
    BY HistorySteps
<1>3. ASSUME NEW c \in Client, ClientStep(c)
      PROVE  /\ UNCHANGED <<spc, req>> /\ sending'[Server] = sending[Server]
             /\ \A m \in sent' : m.src = Server => m \in sent
    <2>1. UNCHANGED <<spc, req>>
        BY <1>3
           DEF ClientStep, StartTurn, Leave, StartShutdown, ClientSent,
               ClientSendFails, ClientReceives, ClientRecvTimeout
    <2> QED
        BY <1>3, <2>1, ClientSendsAlone, ClientSendsOnly
<1>4. CASE ServerSent
    <2>1. SendEnds(Server)
        BY <1>4 DEF ServerSent, SendEnds
    <2>2. sent' = sent /\ spc = "replying"
        BY <1>1, <2>1, SendEndsEffect DEF UdpInv, UdpTypes, AppTypes
    <2> QED
        BY <1>2, <1>4, <2>2 DEF ServerSent, Generating
<1>5. CASE GenerateRaises
    BY <1>5 DEF GenerateRaises, InTime
<1>6. CASE ServerIdleTimeout
    BY <1>2, <1>6 DEF ServerIdleTimeout, endpointVars, senderVars, historyVars, Generating
<1>7. CASE Quiet
    BY <1>2, <1>7, QuietFrame DEF Generating
<1> QED
    BY <1>2, <1>3, <1>4, <1>5, <1>6, <1>7, Steps DEF ServerStep, Generating

\* The two steps that extend the history keep it in turn.
LEMMA HistoryInTurnStep ==
    ASSUME NEW c \in Client, Timing(c), [UdpNext]_vars
    PROVE  HistoryInTurn(c)'
<1> DEFINE h == Len(history)
           Popped(t) == t \in PoppedIds(Server)
<1>1. /\ UdpInv /\ InTime /\ OneClient /\ AppTypes /\ TypeInv /\ Turns \in Nat
      /\ turn[c] \in 0 .. Turns /\ h \in Nat /\ HistoryInTurn(c)
      /\ history \in Seq(SUBSET Part) /\ Server \in Endpoint
    BY Processes, LenProperties
       DEF Timing, UdpInv, UdpTypes, AppTypes, TimelyInv
<1>2. CASE ServerReceives
    <2>1. /\ ~Generating /\ UNCHANGED <<pc, turn>> /\ Recv(Server)
        BY <1>2 DEF ServerReceives, Generating
    <2>2. PoppedIds(Server)' = PoppedIds(Server) \cup {NextReceived(Server).id}
        BY <1>1, <2>1, RecvEffect
    <2>3. CASE /\ ~Generating' /\ UNCHANGED <<history, req>>
               /\ NextReceived(Server).id = Turns + 1
        <3>1. \A t \in 1 .. Turns : t \in PoppedIds(Server)' <=> t \in PoppedIds(Server)
            BY <1>1, <2>2, <2>3
        <3> QED
            BY <1>1, <2>1, <2>3, <3>1 DEF HistoryInTurn, InTurn
    <2>4. CASE /\ Generating' /\ req' = NextReceived(Server)
               /\ NextReceived(Server).id = turn[c]
               /\ NextReceived(Server).body = Whole(Prompt(c, turn[c]))
               /\ history' = Append(history, NextReceived(Server).body)
               /\ h + 2 = 2 * turn[c] /\ turn[c] \in 1 .. Turns
        <3>1. Len(history') = h + 1
            <4>1. NextReceived(Server).body \in SUBSET Part
                BY <1>1, <2>1, ReceivedType DEF Received
            <4> QED
                BY <1>1, <2>4, <4>1, AppendProperties
        <3>2. InTurn(c)
            BY <1>1, <2>4 DEF HistoryInTurn
        <3>3. \A t \in 1 .. Turns : t \in PoppedIds(Server)' <=> 2 * t - 1 <= h + 1
            BY <1>1, <2>2, <2>4 DEF HistoryInTurn
        <3>4. h + 1 \in 2 * turn[c] - 2 .. 2 * turn[c]
            BY <1>1, <2>4
        <3>5. h + 1 + 1 = 2 * req'.id
            BY <2>4, <1>1
        <3> QED
            BY <2>1, <2>4, <3>1, <3>2, <3>3, <3>4, <3>5 DEF HistoryInTurn, InTurn
    <2> QED
        BY <1>2, <2>3, <2>4, PromptInTurn
<1>3. CASE GenerateReturns
    <2>1. /\ req.id = turn[c] /\ Generating /\ ~Generating'
          /\ history' = Append(history, Whole(ReplyTo(Prompt(c, turn[c]))))
          /\ h + 1 = 2 * turn[c] /\ turn[c] \in 1 .. Turns
        BY <1>3, ReplyInTurn
    <2>2. Len(history') = h + 1
        <3>1. Whole(ReplyTo(Prompt(c, turn[c]))) \in SUBSET Part
            BY <2>1, ServiceTexts, WholeType
        <3> QED
            BY <1>1, <2>1, <3>1, AppendProperties
    <2>3. UNCHANGED <<pc, turn>> /\ PoppedIds(Server)' = PoppedIds(Server)
        BY <1>3 DEF GenerateReturns, Send, PoppedIds
    <2>4. InTurn(c)
        BY <1>1, <2>1 DEF HistoryInTurn
    <2>5. \A t \in 1 .. Turns : t \in PoppedIds(Server)' <=> 2 * t - 1 <= h + 1
        BY <1>1, <2>1, <2>3 DEF HistoryInTurn
    <2>6. h + 1 \in 2 * turn[c] - 2 .. 2 * turn[c] /\ (h + 1) % 2 = 0
        <3>1. \A k \in Nat : (2 * k) % 2 = 0
            OBVIOUS
        <3>2. (2 * turn[c]) % 2 = 0
            BY <1>1, <3>1
        <3> QED
            BY <1>1, <2>1, <3>2
    <2> QED
        BY <2>1, <2>2, <2>3, <2>4, <2>5, <2>6 DEF HistoryInTurn, InTurn
<1>4. CASE ~ServerReceives /\ ~GenerateReturns
    <2>1. /\ history' = history /\ PoppedIds(Server)' = PoppedIds(Server)
          /\ Generating' = Generating /\ req' = req
        BY <1>1, <1>4, ConversationFrame DEF PoppedIds
    <2>2. CASE pc'[c] = pc[c] /\ turn'[c] = turn[c]
        BY <1>1, <2>1, <2>2 DEF HistoryInTurn, InTurn
    <2>3. CASE pc[c] = "idle" /\ pc'[c] = "sending" /\ turn'[c] = turn[c] + 1
        <3>1. h = 2 * turn[c]
            BY <1>1, <2>3 DEF HistoryInTurn, InTurn
        <3>2. h \in 2 * turn'[c] - 2 .. 2 * turn'[c]
            BY <1>1, <2>3, <3>1
        <3> QED
            BY <1>1, <2>1, <2>3, <3>2 DEF HistoryInTurn, InTurn
    <2>4. CASE /\ pc[c] \in {"idle", "closing"} /\ pc'[c] \in {"closing", "done"}
               /\ turn' = turn
        BY <1>1, <2>1, <2>4 DEF HistoryInTurn, InTurn
    <2>5. CASE pc[c] = "sending" /\ pc'[c] = "receiving" /\ turn' = turn
        BY <1>1, <2>1, <2>5 DEF HistoryInTurn, InTurn
    <2>6. CASE /\ pc[c] = "receiving" /\ pc'[c] = "idle" /\ ClientReceives(c)
               /\ turn' = turn
        <3>1. h = 2 * turn[c]
            BY <2>6, GivenInTurn
        <3> QED
            BY <1>1, <2>1, <2>6, <3>1 DEF HistoryInTurn, InTurn
    <2> QED
        BY <1>1, <2>2, <2>3, <2>4, <2>5, <2>6, ClientMovesInTime, OthersMove
<1> QED
    BY <1>2, <1>3, <1>4

\* Replies are sent and given one by one.
LEMMA RepliesInTurnStep ==
    ASSUME NEW c \in Client, Timing(c), Turns < CompletedCap, [UdpNext]_vars
    PROVE  RepliesInTurn(c)'
<1>1. /\ UdpInv /\ UdpInv' /\ InTime /\ OneClient /\ AppTypes /\ AppTypes' /\ TypeInv
      /\ TypeOK /\ Genuine
      /\ Turns \in Nat /\ turn[c] \in 0 .. Turns /\ Len(history) \in Nat
      /\ c \in Endpoint /\ c # Server /\ Server \in Endpoint
      /\ RepliesInTurn(c) /\ Done(c) \subseteq Done(c)'
      /\ outcome[c] \in Seq(SUBSET Part) /\ Len(outcome[c]) \in Nat
    BY ServiceStep, Processes, LenProperties
       DEF Timing, UdpInv, UdpTypes, TypeInv, AppTypes, TimelyInv, StepHyp, Growth
<1>2. Len(history') \in Nat /\ Len(history) <= Len(history')
    <2>1. \A body \in SUBSET Part : Len(Append(history, body)) = Len(history) + 1
        BY <1>1, AppendProperties DEF AppTypes
    <2> QED
        BY <1>1, <2>1, HistoryGrows
\* The replies sent, and those given to the client.
<1>3. \A t \in 1 .. Turns : t \in PoppedIds(c)' <=> t <= Len(outcome'[c])
    <2>1. CASE outcome'[c] = outcome[c] /\ popped'[c] = popped[c]
        BY <1>1, <2>1 DEF RepliesInTurn, PoppedIds
    <2>2. CASE ClientReceives(c)
        <3>1. /\ NextReceived(c).id = turn[c] /\ Len(outcome[c]) + 1 = turn[c]
            BY <2>2, GivenInTurn
        <3>2. PoppedIds(c)' = PoppedIds(c) \cup {turn[c]}
            BY <1>1, <2>2, <3>1, RecvEffect DEF ClientReceives
        <3>3. outcome'[c] = Append(outcome[c], NextReceived(c).body)
            BY <1>1, <2>2 DEF ClientReceives, Returned, AppTypes
        <3>4. NextReceived(c).body \in SUBSET Part
            BY <1>1, <2>2, ReceivedType DEF ClientReceives, Received
        <3>5. Len(outcome'[c]) = Len(outcome[c]) + 1
            BY <1>1, <3>3, <3>4, AppendProperties
        <3> QED
            BY <1>1, <3>1, <3>2, <3>5 DEF RepliesInTurn
    <2>3. CASE ClientStep(c)
        BY <2>1, <2>2, <2>3, ClientMovesInTime
    <2> QED
        BY <1>1, <2>1, <2>3, OthersMove
<1>4. CASE GenerateReturns
    <2>1. /\ req.id = turn[c] /\ req.src = c /\ Generating /\ ~Generating'
          /\ history' = Append(history, Whole(ReplyTo(Prompt(c, turn[c]))))
          /\ Len(history) + 1 = 2 * turn[c] /\ turn[c] \in 1 .. Turns
        BY <1>4, ReplyInTurn
    <2>2. Len(history') = Len(history) + 1
        <3>1. Whole(ReplyTo(Prompt(c, turn[c]))) \in SUBSET Part
            BY <2>1, ServiceTexts, WholeType
        <3> QED
            BY <1>1, <2>1, <3>1, AppendProperties DEF AppTypes
    <2>3. /\ Send(Response) /\ Response \in Message /\ Response.id = turn[c]
          /\ Response.src = Server
        BY <1>1, <1>4, <2>1, ResponseType DEF GenerateReturns, Response
    <2>4. sent' = sent \cup {Response} /\ sending'[Server] = Response /\ sending[Server] = None
        BY <1>1, <2>3, SendEffect
    <2>5. \A m \in sent : m # None
        BY <1>1, SentTyped, EndpointAssumption
    <2>6. ASSUME NEW m \in sent', m.src = Server
          PROVE  /\ 2 * m.id <= Len(history')
                 /\ m.id \in Done(c)' \/ sending'[Server] = m
        <3>1. CASE m \in sent
            <4>1. /\ 2 * m.id <= Len(history) /\ m.id \in Done(c)
                  /\ m.id \in Nat
                BY <1>1, <2>4, <2>5, <2>6, <3>1, SentFrom DEF RepliesInTurn
            <4> QED
                BY <1>1, <1>2, <4>1
        <3>2. CASE m = Response
            BY <1>1, <2>1, <2>2, <2>3, <2>4, <3>2
        <3> QED
            BY <2>4, <3>1, <3>2
    <2>7. ASSUME NEW t \in 1 .. Turns, 2 * t <= Len(history')
          PROVE  \E m \in sent' : m.src = Server /\ m.id = t
        <3>1. CASE t = turn[c]
            BY <2>3, <2>4, <3>1
        <3>2. CASE t # turn[c]
            <4>1. 2 * t <= Len(history)
                BY <1>1, <2>1, <2>2, <2>7, <3>2
            <4> QED
                BY <1>1, <2>4, <4>1 DEF RepliesInTurn
        <3> QED
            BY <3>1, <3>2
    <2> QED
        BY <1>3, <2>6, <2>7 DEF RepliesInTurn
<1>5. CASE ~GenerateReturns
    <2>1. /\ \A m \in sent' : m.src = Server => m \in sent
          /\ sending'[Server] = sending[Server] \/ ServerSent
          /\ sent \subseteq sent'
        <3>1. CASE ServerReceives
            BY <1>1, <3>1, RecvEffect DEF ServerReceives
        <3>2. CASE ~ServerReceives
            BY <1>1, <1>5, <3>2, ConversationFrame, ServiceStep DEF StepHyp, Growth
        <3> QED
            BY <3>1, <3>2
    <2>2. ServerSent => sending[Server].id \in Done(c)
        <3>1. ASSUME ServerSent, sending[Server].id \notin Done(c)
              PROVE  FALSE
            <4>1. sending[Server] \in sent /\ sending[Server].src = Server
                BY <1>1, <3>1, SendEndsEffect
                   DEF Genuine, SendsGenuine, ServerSent, SendEnds
            <4>2. sending[Server].dst = c
                BY <1>1, <3>1, <4>1, ReplyAwaited DEF Timing
            <4>3. CASE SendReturns(Server)
                BY <1>1, <3>1, <4>2, <4>3
                   DEF SendReturns, UdpInv, IdsInv, Genuine, ReturnsJustified
            <4>4. CASE RtoExpires /\ GiveUp(Server)
                <5>1. /\ RoundDue(Server) /\ LastRound(Server)
                      /\ Pending(Server).attempts \in Nat
                    BY <1>1, <4>4, PendingGenuine DEF GiveUp, OutMsg
                <5>2. Pending(Server).attempts <= Losses
                    BY <3>1, <4>4, <5>1, ServerRoundLeft DEF Timing
                <5>3. Losses <= MaxLoss /\ MaxLoss < MaxRetries
                    BY DEF Timing, TimelyInv, RoundsCharged, InTime
                <5>4. Losses \in Nat /\ MaxLoss \in Nat /\ MaxRetries \in Nat
                    BY <1>1, EndpointAssumption DEF TypeOK, Losses
                <5> QED
                    BY <5>1, <5>2, <5>3, <5>4 DEF LastRound
            <4>5. CASE HardDeadlineExpires
                BY <1>1, <4>5 DEF HardDeadlineExpires, InTime
            <4> QED
                BY <3>1, <4>3, <4>4, <4>5 DEF ServerSent
        <3> QED
            BY <3>1
    <2>3. ASSUME NEW m \in sent', m.src = Server
          PROVE  /\ 2 * m.id <= Len(history')
                 /\ m.id \in Done(c)' \/ sending'[Server] = m
        <3>1. /\ m \in sent /\ 2 * m.id <= Len(history) /\ m.id \in Nat
              /\ m.id \in Done(c) \/ sending[Server] = m
            BY <1>1, <2>1, <2>3, SentFrom DEF RepliesInTurn
        <3>2. m.id \in Done(c) \/ sending'[Server] = m
            BY <2>1, <2>2, <3>1
        <3> QED
            BY <1>1, <1>2, <3>1, <3>2
    <2>4. ASSUME NEW t \in 1 .. Turns, 2 * t <= Len(history')
          PROVE  \E m \in sent' : m.src = Server /\ m.id = t
        <3>1. Len(history') = Len(history) \/ (ServerReceives /\ Len(history') = Len(history) + 1
                 /\ Len(history) + 2 = 2 * turn[c])
            <4>1. CASE ServerReceives
                <5>1. NextReceived(Server).body \in SUBSET Part
                    BY <1>1, <4>1, ReceivedType DEF Received, ServerReceives
                <5> QED
                    BY <1>1, <4>1, <5>1, PromptInTurn, AppendProperties DEF AppTypes
            <4>2. CASE ~ServerReceives
                BY <1>1, <1>5, <4>2, ConversationFrame
            <4> QED
                BY <4>1, <4>2
        <3>2. 2 * t <= Len(history)
            BY <1>1, <2>4, <3>1
        <3> QED
            BY <1>1, <2>1, <3>2 DEF RepliesInTurn
    <2> QED
        BY <1>3, <2>3, <2>4 DEF RepliesInTurn
<1> QED
    BY <1>4, <1>5

\* Each turn was given the reply to its prompt.
AnsweredInTurn(c) ==
    \A t \in 1 .. Len(outcome[c]) : outcome[c][t] = Whole(ReplyTo(Prompt(c, t)))

\* A turn is given its reply, and keeps it.
LEMMA AnsweredStep ==
    ASSUME NEW c \in Client, Timing(c), AnsweredInTurn(c), [UdpNext]_vars
    PROVE  AnsweredInTurn(c)'
<1>1. /\ UdpInv /\ TypeInv /\ c \in Endpoint /\ c \in DOMAIN outcome
      /\ outcome[c] \in Seq(SUBSET Part) /\ Len(outcome[c]) \in Nat
    BY Processes, LenProperties DEF Timing, UdpInv, UdpTypes, AppTypes
<1>2. CASE outcome'[c] = outcome[c]
    BY <1>2 DEF AnsweredInTurn, ReplyTo, Prompt, Whole, Indices, FragCount
<1>3. CASE ClientReceives(c)
    <2>1. /\ NextReceived(c).body = Whole(ReplyTo(Prompt(c, turn[c])))
          /\ Len(outcome[c]) + 1 = turn[c]
        BY <1>3, GivenInTurn
    <2>2. /\ outcome'[c] = Append(outcome[c], NextReceived(c).body)
          /\ NextReceived(c).body \in SUBSET Part
        BY <1>1, <1>3, ReceivedType DEF ClientReceives, Returned, Received
    <2>3. ASSUME NEW t \in 1 .. Len(outcome'[c])
          PROVE  outcome'[c][t] = Whole(ReplyTo(Prompt(c, t)))
        <3>1. t = turn[c] \/ t \in 1 .. Len(outcome[c])
            BY <1>1, <2>1, <2>2, AppendProperties
        <3>2. CASE t = turn[c]
            BY <1>1, <2>1, <2>2, <3>2, AppendProperties
        <3>3. CASE t \in 1 .. Len(outcome[c])
            BY <1>1, <2>2, <3>3, AppendProperties DEF AnsweredInTurn
        <3> QED
            BY <3>1, <3>2, <3>3
    <2> QED
        BY <2>3 DEF AnsweredInTurn, ReplyTo, Prompt, Whole, Indices, FragCount
<1> QED
    BY <1>1, <1>2, <1>3, ClientMovesInTime, OthersMove

-----------------------------------------------------------------------------
(* The theorems *)

\* The inductive invariant, besides UdpInv.
TimingInv ==
    /\ WholeInv
    /\ \A c \in Client : WaitInv(c) /\ TimelyInv(c) /\ AnsweredInTurn(c)
    /\ ServerInv

\* Every step of the service keeps it.
LEMMA TimingInvStep ==
    ASSUME Turns < CompletedCap, OneClient, InTime, UdpInv, TimingInv, [UdpNext]_vars
    PROVE  TimingInv'
<1>1. WholeInv'
    BY ServiceStep, WholeInvStep DEF TimingInv
<1>2. ServerInv'
    BY ServerInvStep DEF TimingInv
<1>3. ASSUME NEW c \in Client
      PROVE  WaitInv(c)' /\ TimelyInv(c)' /\ AnsweredInTurn(c)'
    <2>1. Timing(c) /\ WaitInv(c) /\ AnsweredInTurn(c)
        BY DEF Timing, TimingInv
    <2> QED
        BY <2>1, WaitInvStep, ServerUpStep, HistoryInTurnStep, RepliesInTurnStep,
           RoundsChargedStep, AnsweredStep DEF TimelyInv
<1> QED
    BY <1>1, <1>2, <1>3 DEF TimingInv

\* It holds before the first turn.
LEMMA TimingInvInit == UdpInit => TimingInv
<1> SUFFICES ASSUME UdpInit
             PROVE  TimingInv
    OBVIOUS
<1>1. /\ net = {} /\ sent = {} /\ lost = [t \in {"data", "ack"} |-> 0]
      /\ spc = "receiving" /\ history = <<>>
      /\ \A e \in Endpoint, id \in MsgId : out[e][id] = None /\ inb[e][id] = None
      /\ \A e \in Endpoint : popped[e] = <<>>
      /\ \A c \in Client : /\ pc[c] = "idle" /\ turn[c] = 0 /\ outcome[c] = <<>>
    BY DEF UdpInit, Init
<1>2. WholeInv
    BY <1>1 DEF WholeInv, UnackedWhole, AcksWhole, PartsMissing
<1>3. ServerInv
    BY <1>1 DEF ServerInv, RequestWhole, RepliesSent, Generating
<1>4. Losses = 0 /\ MaxLoss \in Nat /\ 1 .. Len(<<>>) = {} /\ Len(<<>>) = 0
    BY <1>1, EndpointAssumption DEF Losses
<1>5. ASSUME NEW c \in Client
      PROVE  TimelyInv(c) /\ AnsweredInTurn(c) /\ WaitInv(c)
    <2>1. ServerUp(c) /\ AnsweredInTurn(c) /\ WaitInv(c)
        BY <1>1, <1>4, WaitInvInit DEF ServerUp, AnsweredInTurn
    <2>2. \A e \in Endpoint : PoppedIds(e) = {}
        BY <1>1, <1>4 DEF PoppedIds
    <2>3. HistoryInTurn(c)
        <3>1. \A t \in 1 .. Turns : ~(2 * t - 1 <= 0)
            BY Processes
        <3> QED
            BY <1>1, <1>4, <2>2, <3>1, Processes DEF HistoryInTurn, InTurn, Generating
    <2>4. RepliesInTurn(c)
        <3>1. \A t \in 1 .. Turns : ~(2 * t <= 0) /\ ~(t <= 0)
            BY Processes
        <3> QED
            BY <1>1, <1>4, <2>2, <3>1, Processes DEF RepliesInTurn
    <2>5. RoundsCharged(c)
        BY <1>1, <1>4 DEF RoundsCharged
    <2> QED
        BY <2>1, <2>3, <2>4, <2>5 DEF TimelyInv
<1> QED
    BY <1>2, <1>3, <1>5 DEF TimingInv

\* In time, every state of the service satisfies the invariant: in particular
\* no send of a turn is out of rounds (RoundsCharged), the server is there
\* (ServerUp), and the history is that of the turns so far.
THEOREM TimingInvariant ==
    ASSUME Turns < CompletedCap, OneClient, InTime
    PROVE  UdpSpec => [](UdpInv /\ TimingInv)
<1>1. UdpInv /\ TimingInv /\ [UdpNext]_vars => TimingInv'
    BY TimingInvStep
<1> QED
    BY <1>1, TimingInvInit, UdpInvariant, PTL DEF UdpSpec

\* In time, every turn is given the reply to its own prompt and no other:
\* what goes wrong when a turn fails cannot begin.
THEOREM RepliesInTime ==
    ASSUME Turns < CompletedCap, OneClient, InTime
    PROVE  UdpSpec => []ReplyMatchesRequest
<1>1. TimingInv => ReplyMatchesRequest
    BY DEF TimingInv, AnsweredInTurn, ReplyMatchesRequest
<1> QED
    BY <1>1, TimingInvariant, PTL

\* Each step is a step of the chat, or none.
LEMMA ServiceChats ==
    ASSUME InTime, OneClient, UdpInv, TimingInv, [UdpNext]_vars, NEW c \in Client
    PROVE  Conversation(c)!Next \/ UNCHANGED Conversation(c)!chatVars
<1>1. /\ Timing(c) /\ WaitInv(c) /\ AppTypes /\ TypeInv
      /\ outcome \in [Client -> Seq(SUBSET Part)] /\ Len(outcome[c]) \in Nat
      /\ turn[c] \in Nat
    BY TurnsGrow, LenProperties DEF Timing, TimingInv, UdpInv, UdpTypes, AppTypes
<1>2. CASE ServerReceives
    <2>1. turn' = turn /\ outcome' = outcome
        BY <1>2 DEF ServerReceives
    <2> QED
        BY <1>1, <1>2, <2>1, PromptInTurn
           DEF Conversation!Next, Conversation!Show, Conversation!chatVars
<1>3. CASE GenerateReturns
    <2>1. turn' = turn /\ outcome' = outcome
        BY <1>3 DEF GenerateReturns
    <2> QED
        BY <1>1, <1>3, <2>1, ReplyInTurn
           DEF Conversation!Next, Conversation!Reply
<1>4. CASE ~ServerReceives /\ ~GenerateReturns
    <2>1. history' = history
        BY <1>1, <1>4, ConversationFrame
    <2>2. CASE turn'[c] = turn[c] /\ outcome'[c] = outcome[c]
        BY <2>1, <2>2 DEF Conversation!chatVars
    <2>3. CASE /\ pc[c] = "idle" /\ turn'[c] = turn[c] + 1 /\ outcome' = outcome
        <3>1. Len(outcome[c]) = turn[c]
            BY <1>1, <2>3 DEF WaitInv
        <3> QED
            BY <2>1, <2>3, <3>1 DEF Conversation!Next, Conversation!Ask
    <2>4. CASE ClientReceives(c) /\ turn' = turn
        <3>1. outcome'[c] = Append(outcome[c], NextReceived(c).body)
            BY <1>1, <2>4 DEF ClientReceives, Returned
        <3> QED
            BY <1>1, <2>1, <2>4, <3>1, GivenInTurn
               DEF Conversation!Next, Conversation!Give
    <2> QED
        BY <1>1, <2>2, <2>3, <2>4, ClientMovesInTime, OthersMove
<1> QED
    BY <1>2, <1>3, <1>4

\* In time, the service is a chat: the backend is shown the prompts in turn
\* order, each once and followed by its reply, and each turn is given it.
THEOREM ServiceIsChat ==
    ASSUME Turns < CompletedCap, OneClient, InTime
    PROVE  UdpSpec => ImplementsChat
<1>1. UdpInit => \A c \in Client : Conversation(c)!Init
    BY DEF UdpInit, Conversation!Init
<1>2. UdpInv /\ TimingInv /\ [UdpNext]_vars
          => [\A c \in Client :
                 [Conversation(c)!Next]_(Conversation(c)!chatVars)]_vars
    BY ServiceChats
<1> QED
    BY <1>1, <1>2, TimingInvariant, PTL DEF UdpSpec, ImplementsChat
=============================================================================
