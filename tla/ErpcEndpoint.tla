---------------------------- MODULE ErpcEndpoint ----------------------------
(***************************************************************************)
(* The reliable message transport of memllm_udp_rpc.py: class ErpcEndpoint *)
(* over a datagram socket.  A message is cut into fragments, the fragments *)
(* are retransmitted until an acknowledgement removes them, the receiver   *)
(* reassembles them, acknowledges the whole message and remembers its      *)
(* msg_id in a bounded cache of completed ids.                             *)
(*                                                                         *)
(* An endpoint is single-threaded.  It runs send_message, which returns or *)
(* raises TimeoutError, or recv_message; both call poll_once, which takes  *)
(* one datagram.  poll_once is a public method, so here it may be called   *)
(* at any time; UdpRpc.tla restricts it to the two loops that call it.     *)
(*                                                                         *)
(* Bounds: MaxLoss datagrams may be lost when the network is not           *)
(* Persistent.  A Persistent network keeps every datagram for ever, so     *)
(* each one may arrive never, late, out of order, or many times.           *)
(***************************************************************************)
EXTENDS Integers, Sequences, FiniteSets, Functions

CONSTANTS
    Endpoint,       \* the sockets, each with its ErpcEndpoint object
    MsgId,          \* message identifiers
    Text,           \* payloads, as opaque values
    Size,           \* the length of a payload, in bytes
    MaxChunk,       \* MAX_CHUNK, payload bytes in one datagram
    MaxRetries,     \* max_retries, rounds before send_message gives up
    CompletedCap,   \* _completed_cap, ids the duplicate cache remembers
    Persistent,     \* TRUE: datagrams stay in the network once sent
    MaxLoss,        \* how many datagrams a network that loses may lose
    None            \* a missing dictionary entry, or no call in progress

Flags == {"REQUEST", "RESPONSE"}

\* One logical message, the arguments of one send_message call.
Message ==
    [src : Endpoint, dst : Endpoint, id : MsgId, flags : Flags, text : Text]

\* An element of im.parts: fragment idx carries chunk idx of a payload.
Part == [idx : Nat, text : Text]

Fragment ==
    [type : {"data"}, src : Endpoint, dst : Endpoint, id : MsgId,
     flags : Flags, count : Nat, part : Part]

\* The payload of an ACK is a bitmap of `count` ones.
Ack ==
    [type : {"ack"}, src : Endpoint, dst : Endpoint, id : MsgId, count : Nat]

OutMsg == [message : Message, unacked : SUBSET Nat, attempts : Nat]
InMsg ==
    [src : Endpoint, count : Nat, flags : Flags, parts : SUBSET Part]

\* What recv_message hands to its caller; body is the assembled payload.
Received ==
    [src : Endpoint, id : MsgId, flags : Flags, body : SUBSET Part]

ASSUME EndpointAssumption ==
    /\ Size \in [Text -> Nat]
    /\ MaxChunk \in Nat \ {0}
    /\ MaxRetries \in Nat \ {0}
    /\ CompletedCap \in Nat \ {0}
    /\ Persistent \in BOOLEAN
    /\ MaxLoss \in Nat
    /\ None \notin Message
    /\ None \notin OutMsg
    /\ None \notin InMsg

VARIABLES
    net,             \* datagrams in flight
    sending,         \* sending[e]: the message e's send_message loop is sending
    out,             \* out[e][id]: the _OutMsg awaiting its ACK
    inb,             \* inb[e][id]: the _InMsg being reassembled or not yet popped
    ready,           \* ready[e]: _ready, ids of completed messages
    completed,       \* completed[e]: _completed, the duplicate cache
    completedOrder,  \* completedOrder[e]: _completed_order, oldest first
    retransmits,     \* retransmits[e]: the counter reported to the user
    failed,          \* endpoints whose recv_message raised KeyError
    \* What happened so far; no step of the code reads these.
    sent,            \* messages send_message was called with
    acked,           \* messages whose send_message returned
    popped,          \* popped[e]: what recv_message returned, in order
    evicted,         \* evicted[e]: ids dropped from the duplicate cache
    lost             \* lost[t]: datagrams of type t lost by the network

senderVars   == <<sending, out, retransmits>>
receiverVars == <<inb, ready, completed, completedOrder, failed>>
historyVars  == <<sent, acked, popped, evicted, lost>>
endpointVars == <<net, senderVars, receiverVars, historyVars>>

-----------------------------------------------------------------------------
(* Fragments and datagrams *)

\* An empty payload is one bare header; any other is cut into chunks.
FragCount(text) ==
    IF Size[text] = 0 THEN 1 ELSE (Size[text] + MaxChunk - 1) \div MaxChunk

Indices(text) == 0 .. FragCount(text) - 1

\* The parts that carry the whole of a payload.
Whole(text) == {[idx |-> i, text |-> text] : i \in Indices(text)}

\* Mutant: frag_count is rounded down.
ShortCountFragmentOf(m, i) ==
    [type |-> "data", src |-> m.src, dst |-> m.dst, id |-> m.id,
     flags |-> m.flags,
     count |-> IF Size[m.text] = 0 THEN 1 ELSE Size[m.text] \div MaxChunk,
     part |-> [idx |-> i, text |-> m.text]]

FragmentOf(m, i) ==
    [type |-> "data", src |-> m.src, dst |-> m.dst, id |-> m.id,
     flags |-> m.flags, count |-> FragCount(m.text),
     part |-> [idx |-> i, text |-> m.text]]

FragmentsOf(m, I) == {FragmentOf(m, i) : i \in I}

\* The all-ones acknowledgement e sends to dst for count fragments.
AckOf(e, dst, id, count) ==
    [type |-> "ack", src |-> e, dst |-> dst, id |-> id, count |-> count]

\* Taking d from the socket; the network of a Persistent run keeps a copy.
Without(d) == IF Persistent THEN net ELSE net \ {d}

-----------------------------------------------------------------------------
(* send_message *)

\* The call: register the message and send every fragment once.  attempts is
\* 0 and last_send 0.0 on entry, so the first round needs no timeout.
Send(m) ==
    /\ m.src \notin failed
    /\ sending[m.src] = None
    /\ sending' = [sending EXCEPT ![m.src] = m]
    /\ out' = [out EXCEPT ![m.src][m.id] =
                  [message |-> m, unacked |-> Indices(m.text), attempts |-> 1]]
    /\ net' = net \cup FragmentsOf(m, Indices(m.text))
    /\ sent' = sent \cup {m}
    /\ UNCHANGED <<retransmits, receiverVars, acked, popped, evicted, lost>>

\* The entry of the message being sent: None once poll_once acknowledged it.
Pending(e) == out[e][sending[e].id]

\* The retransmission timer has run out: another round is due.
RoundDue(e) ==
    /\ e \notin failed
    /\ sending[e] # None
    /\ Pending(e) # None

\* Mutant: one round too few.
EarlyLastRound(e) == Pending(e).attempts + 1 >= MaxRetries

LastRound(e) == Pending(e).attempts + 1 > MaxRetries

\* Every fragment still unacknowledged goes out again.
SendRound(e) ==
    /\ net' = net \cup FragmentsOf(Pending(e).message, Pending(e).unacked)
    /\ retransmits' =
          [retransmits EXCEPT ![e] = @ + Cardinality(Pending(e).unacked)]

Retransmit(e) ==
    /\ RoundDue(e)
    /\ ~LastRound(e)
    /\ SendRound(e)
    /\ out' = [out EXCEPT ![e][sending[e].id].attempts = @ + 1]
    /\ UNCHANGED <<sending, receiverVars, historyVars>>

\* The round that exceeds max_retries: it is sent, then the entry is dropped
\* and TimeoutError raised without polling for an answer to it.
GiveUp(e) ==
    /\ RoundDue(e)
    /\ LastRound(e)
    /\ SendRound(e)
    /\ out' = [out EXCEPT ![e][sending[e].id] = None]
    /\ sending' = [sending EXCEPT ![e] = None]
    /\ UNCHANGED <<receiverVars, historyVars>>

\* The hard deadline, tested after poll_once: TimeoutError even when that
\* poll brought the acknowledgement, and an entry still there is left there.
SendDeadline(e) ==
    /\ e \notin failed
    /\ sending[e] # None
    /\ sending' = [sending EXCEPT ![e] = None]
    /\ UNCHANGED <<net, out, retransmits, receiverVars, historyVars>>

\* The loop ends because nothing is left unacknowledged.
SendReturns(e) ==
    /\ e \notin failed
    /\ sending[e] # None
    /\ Pending(e) = None
    /\ acked' = acked \cup {sending[e]}
    /\ sending' = [sending EXCEPT ![e] = None]
    /\ UNCHANGED <<net, out, retransmits, receiverVars, sent, popped, evicted,
                   lost>>

-----------------------------------------------------------------------------
(* poll_once: one datagram *)

Arrives(e, d, type) ==
    /\ e \notin failed
    /\ d \in net
    /\ d.dst = e
    /\ d.type = type

\* An ACK clears the fragments its bitmap covers; the message goes when none
\* is left.  An ACK for a message no longer registered is ignored.
StillUnacked(o, d) == o.unacked \ (0 .. d.count - 1)

PollAck(e, d) ==
    /\ Arrives(e, d, "ack")
    /\ net' = Without(d)
    /\ out' =
          LET o    == out[e][d.id]
              left == StillUnacked(o, d)
          IN  IF o = None THEN out
              ELSE [out EXCEPT ![e][d.id] =
                       IF left = {} THEN None ELSE [o EXCEPT !.unacked = left]]
    /\ UNCHANGED <<sending, retransmits, receiverVars, historyVars>>

\* Mutant: no duplicate cache.
NeverDuplicate(e, id) == FALSE

IsDuplicate(e, id) == id \in completed[e]

\* A fragment of a message already completed: acknowledged again, not queued.
PollDuplicate(e, d) ==
    /\ Arrives(e, d, "data")
    /\ IsDuplicate(e, d.id)
    /\ net' = Without(d) \cup {AckOf(e, d.src, d.id, d.count)}
    /\ UNCHANGED <<senderVars, receiverVars, historyVars>>

\* The entry d is stored in: its source, count and flags are those of the
\* fragment that came first, and a part of the same index is overwritten.
Stored(e, d) ==
    LET im == IF inb[e][d.id] = None
              THEN [src |-> d.src, count |-> d.count, flags |-> d.flags,
                    parts |-> {}]
              ELSE inb[e][d.id]
    IN  [im EXCEPT !.parts = {p \in @ : p.idx # d.part.idx} \cup {d.part}]

\* Mutant: complete as soon as the last fragment is there.
CompleteOnLast(im) == \E p \in im.parts : p.idx = im.count - 1

Complete(im) == Cardinality(im.parts) = im.count

\* Mutant: any fragment is answered with the acknowledgement of all.
EagerPollPartial(e, d) ==
    /\ Arrives(e, d, "data")
    /\ ~IsDuplicate(e, d.id)
    /\ ~Complete(Stored(e, d))
    /\ net' = Without(d) \cup {AckOf(e, d.src, d.id, d.count)}
    /\ inb' = [inb EXCEPT ![e][d.id] = Stored(e, d)]
    /\ UNCHANGED <<senderVars, ready, completed, completedOrder, failed,
                   historyVars>>

\* A fragment that leaves its message incomplete: no acknowledgement.
PollPartial(e, d) ==
    /\ Arrives(e, d, "data")
    /\ ~IsDuplicate(e, d.id)
    /\ ~Complete(Stored(e, d))
    /\ net' = Without(d)
    /\ inb' = [inb EXCEPT ![e][d.id] = Stored(e, d)]
    /\ UNCHANGED <<senderVars, ready, completed, completedOrder, failed,
                   historyVars>>

\* Mutant: the cache's length is tested before the id is appended.
LateCacheFull(e) == Len(completedOrder[e]) > CompletedCap

\* Mutant: a completed message is not remembered.
Forget(e, id) == UNCHANGED <<completed, completedOrder, evicted>>

\* Adding id to the duplicate cache, which drops its oldest id when full.
CacheFull(e) == Len(completedOrder[e]) + 1 > CompletedCap

Remember(e, id) ==
    LET order  == Append(completedOrder[e], id)
        oldest == IF CacheFull(e) THEN {Head(order)} ELSE {}
    IN  /\ completedOrder' = [completedOrder EXCEPT ![e] =
                                 IF CacheFull(e) THEN Tail(order) ELSE order]
        /\ completed' = [completed EXCEPT ![e] = (@ \cup {id}) \ oldest]
        /\ evicted' = [evicted EXCEPT ![e] = @ \cup oldest]

\* The fragment that completes its message: the whole message is acknowledged
\* to the source of its first fragment, remembered, and queued.
PollComplete(e, d) ==
    LET im == Stored(e, d)
    IN  /\ Arrives(e, d, "data")
        /\ ~IsDuplicate(e, d.id)
        /\ Complete(im)
        /\ net' = Without(d) \cup {AckOf(e, im.src, d.id, im.count)}
        /\ inb' = [inb EXCEPT ![e][d.id] = im]
        /\ Remember(e, d.id)
        /\ ready' = [ready EXCEPT ![e] = Append(@, d.id)]
        /\ UNCHANGED <<senderVars, failed, sent, acked, popped, lost>>

Poll(e, d) ==
    \/ PollAck(e, d)
    \/ PollDuplicate(e, d)
    \/ PollPartial(e, d)
    \/ PollComplete(e, d)

-----------------------------------------------------------------------------
(* recv_message, when a message is ready *)

\* assemble() reads parts[0] .. parts[count - 1] and fails if one is missing;
\* _in.pop() fails if the entry is.
CanAssemble(im) ==
    /\ im # None
    /\ 0 .. im.count - 1 \subseteq {p.idx : p \in im.parts}

ReceivedFrom(id, im) ==
    [src |-> im.src, id |-> id, flags |-> im.flags,
     body |-> {p \in im.parts : p.idx \in 0 .. im.count - 1}]

\* Mutant: the table entry is returned as it is, without its msg_id.
RawNextReceived(e) == inb[e][Head(ready[e])]

\* The message the next recv_message of e returns.
NextReceived(e) == ReceivedFrom(Head(ready[e]), inb[e][Head(ready[e])])

PopReady(e) ==
    /\ e \notin failed
    /\ sending[e] = None
    /\ ready[e] # <<>>
    /\ ready' = [ready EXCEPT ![e] = Tail(@)]
    /\ inb' = [inb EXCEPT ![e][Head(ready[e])] = None]
    /\ UNCHANGED <<net, senderVars, completed, completedOrder, sent, acked,
                   evicted, lost>>

Recv(e) ==
    /\ PopReady(e)
    /\ CanAssemble(inb[e][Head(ready[e])])
    /\ popped' = [popped EXCEPT ![e] = Append(@, NextReceived(e))]
    /\ UNCHANGED failed

RecvKeyError(e) ==
    /\ PopReady(e)
    /\ ~CanAssemble(inb[e][Head(ready[e])])
    /\ failed' = failed \cup {e}
    /\ UNCHANGED popped

-----------------------------------------------------------------------------
(* The network, and what _send_raw's loss injection does *)

Lose(d) ==
    /\ ~Persistent
    /\ lost["data"] + lost["ack"] < MaxLoss
    /\ d \in net
    /\ net' = net \ {d}
    /\ lost' = [lost EXCEPT ![d.type] = @ + 1]
    /\ UNCHANGED <<senderVars, receiverVars, sent, acked, popped, evicted>>

-----------------------------------------------------------------------------
Init ==
    /\ net = {}
    /\ sending = [e \in Endpoint |-> None]
    /\ out = [e \in Endpoint |-> [id \in MsgId |-> None]]
    /\ inb = [e \in Endpoint |-> [id \in MsgId |-> None]]
    /\ ready = [e \in Endpoint |-> <<>>]
    /\ completed = [e \in Endpoint |-> {}]
    /\ completedOrder = [e \in Endpoint |-> <<>>]
    /\ retransmits = [e \in Endpoint |-> 0]
    /\ failed = {}
    /\ sent = {}
    /\ acked = {}
    /\ popped = [e \in Endpoint |-> <<>>]
    /\ evicted = [e \in Endpoint |-> {}]
    /\ lost = [t \in {"data", "ack"} |-> 0]

Step(e) ==
    \/ Retransmit(e)
    \/ GiveUp(e)
    \/ SendDeadline(e)
    \/ SendReturns(e)
    \/ \E d \in net : Poll(e, d)
    \/ Recv(e)
    \/ RecvKeyError(e)

Next ==
    \/ \E m \in Message : Send(m)
    \/ \E e \in Endpoint : Step(e)
    \/ \E d \in net : Lose(d)

Spec == Init /\ [][Next]_endpointVars

-----------------------------------------------------------------------------
(* Properties *)

\* Every variable stays in its range.
TypeOK ==
    /\ net \subseteq Fragment \cup Ack
    /\ sending \in [Endpoint -> Message \cup {None}]
    /\ out \in [Endpoint -> [MsgId -> OutMsg \cup {None}]]
    /\ inb \in [Endpoint -> [MsgId -> InMsg \cup {None}]]
    /\ ready \in [Endpoint -> Seq(MsgId)]
    /\ completed \in [Endpoint -> SUBSET MsgId]
    /\ completedOrder \in [Endpoint -> Seq(MsgId)]
    /\ retransmits \in [Endpoint -> Nat]
    /\ failed \subseteq Endpoint
    /\ sent \subseteq Message
    /\ acked \subseteq Message
    /\ popped \in [Endpoint -> Seq(Received)]
    /\ evicted \in [Endpoint -> SUBSET MsgId]
    /\ lost \in [{"data", "ack"} -> Nat]

Distinct(q) == \A i, j \in 1 .. Len(q) : q[i] = q[j] => i = j

\* The set and the queue of the duplicate cache agree, the queue holds no id
\* twice, the cache respects its cap and forgets only when it is full.
CacheConsistent ==
    \A e \in Endpoint :
        /\ completed[e] = Range(completedOrder[e])
        /\ Distinct(completedOrder[e])
        /\ Len(completedOrder[e]) <= CompletedCap
        /\ evicted[e] # {} => Len(completedOrder[e]) = CompletedCap

\* recv_message returns no msg_id twice as long as the duplicate cache has not
\* dropped that id: a retransmission that races a lost ACK is not redelivered.
AtMostOnce ==
    \A e \in Endpoint : \A i, j \in 1 .. Len(popped[e]) :
        i # j /\ popped[e][i].id = popped[e][j].id
            => popped[e][i].id \in evicted[e]

\* What the callers of send_message owe the protocol ("unique per logical
\* request/response"): one msg_id names one message of a sender, for its table
\* of pending messages, and one message to a receiver, for its cache.
IdsUnique ==
    \A m, n \in sent :
        m.id = n.id /\ (m.src = n.src \/ m.dst = n.dst) => m = n

\* The message m as recv_message must return it.
Intact(m) ==
    [src |-> m.src, id |-> m.id, flags |-> m.flags, body |-> Whole(m.text)]

\* With unique ids, what recv_message returns is a message somebody sent to
\* this endpoint, with all its fragments and no other message's.
MessageIntegrity ==
    IdsUnique =>
        \A e \in Endpoint : \A i \in 1 .. Len(popped[e]) :
            \E m \in sent : m.dst = e /\ popped[e][i] = Intact(m)

\* With unique ids, a send_message that returned was delivered: the message
\* was returned by the peer's recv_message, or waits in its queue.
AckedMeansDelivered ==
    IdsUnique =>
        \A m \in acked :
            \/ m.id \in Range(ready[m.dst])
            \/ Intact(m) \in Range(popped[m.dst])

\* With unique ids and before the cache drops an id, recv_message does not
\* raise KeyError: a queued id has its entry, and the entry every fragment.
NoKeyError ==
    IdsUnique => \A e \in failed : evicted[e] # {}
=============================================================================
