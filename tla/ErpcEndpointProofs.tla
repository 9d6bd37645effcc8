------------------------ MODULE ErpcEndpointProofs ------------------------
(***************************************************************************)
(* Proofs about ErpcEndpoint, for every set of endpoints, identifiers and  *)
(* payloads, every chunk size, retry limit and cache capacity, and for     *)
(* networks that lose, repeat and reorder datagrams.                       *)
(*                                                                         *)
(* The first part is about types and the duplicate cache (TypeInv,         *)
(* DedupInv).  The second is about what unique message ids buy: every      *)
(* message recv_message returns is one that was sent, whole and unmixed; a *)
(* send_message that returned was delivered; and recv_message raises       *)
(* KeyError only after the duplicate cache has dropped an id (Genuine).    *)
(***************************************************************************)
EXTENDS ErpcEndpoint, SequenceTheorems, FiniteSetTheorems, TLAPS

-----------------------------------------------------------------------------
(* Fragments *)

\* Every payload, the empty one included, has at least one fragment.
LEMMA FragCountType ==
  ASSUME NEW text \in Text
  PROVE  FragCount(text) \in Nat \ {0}
<1>1. Size[text] \in Nat /\ MaxChunk \in Nat \ {0}
  BY EndpointAssumption
<1>2. CASE Size[text] = 0
  BY <1>2 DEF FragCount
<1>3. CASE Size[text] # 0
  <2> DEFINE bytes == Size[text] + MaxChunk - 1
  <2>1. bytes \in Nat /\ bytes >= MaxChunk
    BY <1>1, <1>3
  <2>2. bytes \div MaxChunk \in Nat /\ bytes \div MaxChunk >= 1
    BY <2>1, <1>1
  <2> QED
    BY <2>2, <1>3 DEF FragCount
<1> QED
  BY <1>2, <1>3

LEMMA IndicesType ==
  ASSUME NEW text \in Text
  PROVE  /\ Indices(text) \subseteq Nat
         /\ IsFiniteSet(Indices(text))
         /\ Cardinality(Indices(text)) = FragCount(text)
         /\ Indices(text) # {}
<1>1. FragCount(text) \in Nat \ {0}
  BY FragCountType
<1>2. /\ IsFiniteSet(0 .. FragCount(text) - 1)
      /\ Cardinality(0 .. FragCount(text) - 1)
            = IF 0 > FragCount(text) - 1 THEN 0
              ELSE (FragCount(text) - 1) - 0 + 1
  BY <1>1, FS_Interval
<1>3. 0 \in 0 .. FragCount(text) - 1
  BY <1>1
<1> QED
  BY <1>1, <1>2, <1>3 DEF Indices

LEMMA FragmentsType ==
  ASSUME NEW m \in Message, NEW I \in SUBSET Nat
  PROVE  FragmentsOf(m, I) \subseteq Fragment
<1>1. /\ m.src \in Endpoint /\ m.dst \in Endpoint /\ m.id \in MsgId
      /\ m.flags \in Flags /\ m.text \in Text /\ FragCount(m.text) \in Nat
  BY FragCountType DEF Message
<1>2. ASSUME NEW i \in I
      PROVE  FragmentOf(m, i) \in Fragment
  BY <1>1 DEF FragmentOf, Fragment, Part
<1> QED
  BY <1>2 DEF FragmentsOf

-----------------------------------------------------------------------------
(* Type correctness.  retransmits adds up Cardinality(unacked), so the     *)
(* invariant also says that unacked is finite.                             *)

FiniteUnacked ==
    \A e \in Endpoint, id \in MsgId :
        out[e][id] # None => IsFiniteSet(out[e][id].unacked)

TypeInv == TypeOK /\ FiniteUnacked

LEMMA PendingType ==
  ASSUME TypeInv, NEW e \in Endpoint, sending[e] # None
  PROVE  /\ sending[e] \in Message
         /\ sending[e].id \in MsgId
         /\ Pending(e) \in OutMsg \cup {None}
         /\ Pending(e) # None => IsFiniteSet(Pending(e).unacked)
BY DEF TypeInv, TypeOK, FiniteUnacked, Message, Pending

LEMMA SendRoundType ==
  ASSUME TypeInv, NEW e \in Endpoint, RoundDue(e), SendRound(e)
  PROVE  /\ net' \subseteq Fragment \cup Ack
         /\ retransmits' \in [Endpoint -> Nat]
<1>1. /\ Pending(e).message \in Message
      /\ Pending(e).unacked \in SUBSET Nat
      /\ Cardinality(Pending(e).unacked) \in Nat
  BY PendingType, FS_CardinalityType DEF RoundDue, OutMsg
<1>2. FragmentsOf(Pending(e).message, Pending(e).unacked) \subseteq Fragment
  BY <1>1, FragmentsType
<1> QED
  BY <1>1, <1>2 DEF SendRound, TypeInv, TypeOK

LEMMA TypeSend ==
  ASSUME TypeInv, NEW m \in Message, Send(m)
  PROVE  TypeInv'
<1> USE DEF TypeInv
<1>1. m.src \in Endpoint /\ m.id \in MsgId /\ m.text \in Text
  BY DEF Message
<1> DEFINE entry == [message |-> m, unacked |-> Indices(m.text), attempts |-> 1]
<1>2. entry \in OutMsg /\ IsFiniteSet(entry.unacked)
  BY <1>1, IndicesType DEF OutMsg
<1>3. net' \subseteq Fragment \cup Ack
  BY <1>1, IndicesType, FragmentsType DEF Send, TypeOK
<1>4. out' = [out EXCEPT ![m.src][m.id] = entry]
  BY DEF Send
<1> HIDE DEF entry
<1>5. out' \in [Endpoint -> [MsgId -> OutMsg \cup {None}]]
  BY <1>1, <1>2, <1>4 DEF TypeOK
<1>6. FiniteUnacked'
  BY <1>1, <1>2, <1>4 DEF FiniteUnacked, TypeOK
<1>7. TypeOK'
  BY <1>1, <1>3, <1>5 DEF TypeOK, Send, receiverVars
<1> QED
  BY <1>6, <1>7

LEMMA TypeRound ==
  ASSUME TypeInv, NEW e \in Endpoint, Retransmit(e) \/ GiveUp(e)
  PROVE  TypeInv'
<1> USE DEF TypeInv
<1>1. RoundDue(e) /\ SendRound(e) /\ sending[e] # None /\ Pending(e) # None
  BY DEF Retransmit, GiveUp, RoundDue
<1>2. /\ net' \subseteq Fragment \cup Ack
      /\ retransmits' \in [Endpoint -> Nat]
  BY <1>1, SendRoundType
<1>3. /\ sending[e].id \in MsgId
      /\ Pending(e) \in OutMsg
      /\ IsFiniteSet(Pending(e).unacked)
  BY <1>1, PendingType
<1>4. CASE Retransmit(e)
  <2>1. [Pending(e) EXCEPT !.attempts = @ + 1] \in OutMsg
    BY <1>3 DEF OutMsg
  <2>2. [Pending(e) EXCEPT !.attempts = @ + 1].unacked = Pending(e).unacked
    BY <1>3 DEF OutMsg
  <2>3. out' = [out EXCEPT ![e][sending[e].id] =
                   [Pending(e) EXCEPT !.attempts = @ + 1]]
    BY <1>4 DEF Retransmit, Pending
  <2>4. TypeOK'
    BY <1>2, <1>3, <1>4, <2>1, <2>3
       DEF TypeOK, Retransmit, receiverVars, historyVars
  <2>5. FiniteUnacked'
    BY <1>3, <2>2, <2>3 DEF TypeOK, FiniteUnacked
  <2> QED
    BY <2>4, <2>5
<1>5. CASE GiveUp(e)
  BY <1>2, <1>3, <1>5
     DEF TypeOK, FiniteUnacked, GiveUp, receiverVars, historyVars
<1> QED
  BY <1>4, <1>5

LEMMA TypePollAck ==
  ASSUME TypeInv, NEW e \in Endpoint, NEW d \in net, PollAck(e, d)
  PROVE  TypeInv'
<1> USE DEF TypeInv
<1>1. d \in Ack /\ d.id \in MsgId
  BY DEF TypeOK, PollAck, Arrives, Fragment, Ack
<1>2. net' \subseteq Fragment \cup Ack
  BY DEF TypeOK, PollAck, Without
<1> DEFINE o    == out[e][d.id]
           left == StillUnacked(o, d)
           new  == IF left = {} THEN None ELSE [o EXCEPT !.unacked = left]
<1>3. CASE o = None
  <2>1. out' = out
    BY <1>3 DEF PollAck
  <2> QED
    BY <1>2, <2>1
       DEF TypeOK, FiniteUnacked, PollAck, receiverVars, historyVars
<1>4. CASE o # None
  <2>1. o \in OutMsg /\ IsFiniteSet(o.unacked)
    BY <1>1, <1>4 DEF TypeOK, FiniteUnacked
  <2>2. left \subseteq o.unacked /\ IsFiniteSet(left)
    BY <2>1, FS_Subset DEF StillUnacked
  <2>3. /\ new \in OutMsg \cup {None}
        /\ new # None => IsFiniteSet(new.unacked)
    BY <2>1, <2>2 DEF OutMsg
  <2>4. out' = [out EXCEPT ![e][d.id] = new]
    BY <1>4 DEF PollAck
  <2> HIDE DEF new
  <2>5. TypeOK'
    BY <1>1, <1>2, <2>3, <2>4 DEF TypeOK, PollAck, receiverVars, historyVars
  <2>6. FiniteUnacked'
    BY <1>1, <2>3, <2>4 DEF TypeOK, FiniteUnacked
  <2> QED
    BY <2>5, <2>6
<1> QED
  BY <1>3, <1>4

\* What storing a fragment makes of the entry of its message.
LEMMA StoredType ==
  ASSUME TypeOK, NEW e \in Endpoint, NEW d \in net, Arrives(e, d, "data")
  PROVE  /\ d \in Fragment /\ d.id \in MsgId /\ d.src \in Endpoint
         /\ Stored(e, d) \in InMsg
         /\ Stored(e, d).src \in Endpoint /\ Stored(e, d).count \in Nat
<1>1. d \in Fragment
  BY DEF TypeOK, Arrives, Fragment, Ack
<1>2. /\ d.id \in MsgId /\ d.src \in Endpoint /\ d.count \in Nat
      /\ d.flags \in Flags /\ d.part \in Part
  BY <1>1 DEF Fragment
<1>3. inb[e][d.id] \in InMsg \cup {None}
  BY <1>2 DEF TypeOK
<1>4. Stored(e, d) \in InMsg
  BY <1>2, <1>3 DEF Stored, InMsg
<1> QED
  BY <1>1, <1>2, <1>4 DEF InMsg

LEMMA AckType ==
  ASSUME NEW e \in Endpoint, NEW dst \in Endpoint, NEW id \in MsgId,
         NEW count \in Nat
  PROVE  AckOf(e, dst, id, count) \in Ack
BY DEF AckOf, Ack

LEMMA TypePollData ==
  ASSUME TypeInv, NEW e \in Endpoint, NEW d \in net,
         PollDuplicate(e, d) \/ PollPartial(e, d) \/ PollComplete(e, d)
  PROVE  TypeInv'
<1> USE DEF TypeInv
<1>1. Arrives(e, d, "data")
  BY DEF PollDuplicate, PollPartial, PollComplete
<1>2. /\ d \in Fragment /\ d.id \in MsgId /\ d.src \in Endpoint
      /\ d.count \in Nat
      /\ Stored(e, d) \in InMsg
      /\ Stored(e, d).src \in Endpoint /\ Stored(e, d).count \in Nat
  BY <1>1, StoredType DEF Fragment
<1>3. Without(d) \subseteq Fragment \cup Ack
  BY DEF TypeOK, Without
<1>8. /\ AckOf(e, d.src, d.id, d.count) \in Ack
      /\ AckOf(e, Stored(e, d).src, d.id, Stored(e, d).count) \in Ack
  BY <1>2, AckType
<1>9. completedOrder[e] \in Seq(MsgId)
  BY DEF TypeOK
<1>4. FiniteUnacked'
  BY DEF PollDuplicate, PollPartial, PollComplete, FiniteUnacked, senderVars
<1>5. CASE PollDuplicate(e, d)
  BY <1>2, <1>3, <1>4, <1>5, <1>8
     DEF TypeOK, PollDuplicate, senderVars, receiverVars, historyVars
<1>6. CASE PollPartial(e, d)
  BY <1>2, <1>3, <1>4, <1>6 DEF TypeOK, PollPartial, senderVars, historyVars
<1>7. CASE PollComplete(e, d)
  <2>1. /\ net' \subseteq Fragment \cup Ack
        /\ inb' \in [Endpoint -> [MsgId -> InMsg \cup {None}]]
    BY <1>2, <1>3, <1>7, <1>8 DEF PollComplete, TypeOK
  <2>5. ready' \in [Endpoint -> Seq(MsgId)]
    BY <1>2, <1>7 DEF PollComplete, TypeOK
  <2>2. Remember(e, d.id)
    BY <1>7 DEF PollComplete
  <2> DEFINE order == Append(completedOrder[e], d.id)
  <2>6. order \in Seq(MsgId) /\ order # <<>>
    BY <1>2, <1>9, AppendProperties
  <2> HIDE DEF order
  <2>3. Head(order) \in MsgId /\ Tail(order) \in Seq(MsgId)
    BY <2>6, HeadTailProperties
  <2>4. /\ completedOrder' \in [Endpoint -> Seq(MsgId)]
        /\ completed' \in [Endpoint -> SUBSET MsgId]
        /\ evicted' \in [Endpoint -> SUBSET MsgId]
    BY <1>2, <2>2, <2>3, <2>6 DEF Remember, TypeOK, order
  <2> QED
    BY <1>4, <1>7, <2>1, <2>4, <2>5 DEF TypeOK, PollComplete, senderVars
<1> QED
  BY <1>5, <1>6, <1>7

LEMMA TypePop ==
  ASSUME TypeInv, NEW e \in Endpoint, Recv(e) \/ RecvKeyError(e)
  PROVE  TypeInv'
<1> USE DEF TypeInv
<1>1. PopReady(e)
  BY DEF Recv, RecvKeyError
<1>2. /\ ready[e] \in Seq(MsgId) /\ ready[e] # <<>>
      /\ Head(ready[e]) \in MsgId /\ Tail(ready[e]) \in Seq(MsgId)
  BY <1>1, HeadTailProperties DEF TypeOK, PopReady
<1>3. CASE Recv(e)
  <2>1. inb[e][Head(ready[e])] \in InMsg
    BY <1>2, <1>3 DEF Recv, CanAssemble, TypeOK
  <2>2. NextReceived(e) \in Received
    BY <1>2, <2>1 DEF NextReceived, ReceivedFrom, Received, InMsg
  <2> QED
    BY <1>1, <1>2, <1>3, <2>2
       DEF TypeOK, FiniteUnacked, Recv, PopReady, senderVars
<1>4. CASE RecvKeyError(e)
  BY <1>1, <1>2, <1>4
     DEF TypeOK, FiniteUnacked, RecvKeyError, PopReady, senderVars
<1> QED
  BY <1>3, <1>4

LEMMA TypeOther ==
  ASSUME TypeInv,
         \/ \E e \in Endpoint : SendDeadline(e) \/ SendReturns(e)
         \/ \E d \in net : Lose(d)
         \/ UNCHANGED endpointVars
  PROVE  TypeInv'
<1> USE DEF TypeInv
<1>1. ASSUME NEW e \in Endpoint, SendDeadline(e)
      PROVE  TypeInv'
  BY <1>1 DEF TypeOK, FiniteUnacked, SendDeadline, receiverVars, historyVars
<1>2. ASSUME NEW e \in Endpoint, SendReturns(e)
      PROVE  TypeInv'
  BY <1>2, PendingType DEF TypeOK, FiniteUnacked, SendReturns, receiverVars
<1>3. ASSUME NEW d \in net, Lose(d)
      PROVE  TypeInv'
  <2>1. d.type \in {"data", "ack"}
    BY DEF TypeOK, Fragment, Ack
  <2> QED
    BY <1>3, <2>1
       DEF TypeOK, FiniteUnacked, Lose, senderVars, receiverVars
<1>4. ASSUME UNCHANGED endpointVars
      PROVE  TypeInv'
  BY <1>4 DEF TypeOK, FiniteUnacked, endpointVars, senderVars, receiverVars,
              historyVars
<1> QED
  BY <1>1, <1>2, <1>3, <1>4

LEMMA TypeInit == Init => TypeInv
BY EmptySeq DEF Init, TypeInv, TypeOK, FiniteUnacked

LEMMA TypeStep == TypeInv /\ [Next]_endpointVars => TypeInv'
BY TypeSend, TypeRound, TypePollAck, TypePollData, TypePop, TypeOther
   DEF Next, Step, Poll

\* Every behaviour of the transport keeps every variable in its range.
THEOREM TypeCorrect == Spec => []TypeOK
<1>1. TypeInv => TypeOK
  BY DEF TypeInv
<1> QED
  BY <1>1, TypeInit, TypeStep, PTL DEF Spec

-----------------------------------------------------------------------------
(* At-most-once delivery.  The duplicate cache is consistent, and an id    *)
(* that was queued or returned stays in the cache until it is evicted: so  *)
(* an id completed again, the only way to queue one twice, was evicted.    *)

\* The ids e has completed at some time.
Done(e) == completed[e] \cup evicted[e]

PoppedIds(e) == {popped[e][i].id : i \in 1 .. Len(popped[e])}

\* What was queued or returned is known, and known once unless evicted.
QueueConsistent(e) ==
    /\ Range(ready[e]) \cup PoppedIds(e) \subseteq Done(e)
    /\ \A i, j \in 1 .. Len(ready[e]) :
          i # j /\ ready[e][i] = ready[e][j] => ready[e][i] \in evicted[e]
    /\ Range(ready[e]) \cap PoppedIds(e) \subseteq evicted[e]
    /\ \A i, j \in 1 .. Len(popped[e]) :
          i # j /\ popped[e][i].id = popped[e][j].id
              => popped[e][i].id \in evicted[e]

CacheOf(e) ==
    /\ completed[e] = Range(completedOrder[e])
    /\ Distinct(completedOrder[e])
    /\ Len(completedOrder[e]) <= CompletedCap
    /\ evicted[e] # {} => Len(completedOrder[e]) = CompletedCap

DedupInv == \A e \in Endpoint : CacheOf(e) /\ QueueConsistent(e)

\* Appending to a sequence, and taking its head, seen as sets.
LEMMA AppendIndices ==
  ASSUME NEW S, NEW q \in Seq(S), NEW x \in S
  PROVE  /\ Len(q) \in Nat /\ DOMAIN q = 1 .. Len(q)
         /\ Append(q, x) \in Seq(S)
         /\ DOMAIN Append(q, x) = 1 .. Len(q) + 1
         /\ \A i \in 1 .. Len(q) : Append(q, x)[i] = q[i]
         /\ Append(q, x)[Len(q) + 1] = x
         /\ 1 .. Len(q) + 1 = (1 .. Len(q)) \cup {Len(q) + 1}
<1>1. Len(q) \in Nat /\ DOMAIN q = 1 .. Len(q)
  BY LenProperties
<1>2. /\ Append(q, x) \in Seq(S) /\ Len(Append(q, x)) = Len(q) + 1
      /\ \A i \in 1 .. Len(q) : Append(q, x)[i] = q[i]
      /\ Append(q, x)[Len(q) + 1] = x
  BY AppendProperties
<1>3. DOMAIN Append(q, x) = 1 .. Len(q) + 1
  BY <1>2, LenProperties
<1> QED
  BY <1>1, <1>2, <1>3

LEMMA AppendRange ==
  ASSUME NEW S, NEW q \in Seq(S), NEW x \in S
  PROVE  Range(Append(q, x)) = Range(q) \cup {x}
<1> DEFINE r == Append(q, x)
<1>1. /\ DOMAIN q = 1 .. Len(q)
      /\ DOMAIN r = (1 .. Len(q)) \cup {Len(q) + 1}
      /\ \A i \in 1 .. Len(q) : r[i] = q[i]
      /\ r[Len(q) + 1] = x
  BY AppendIndices
<1> HIDE DEF r
<1>2. Range(r) \subseteq Range(q) \cup {x}
  BY <1>1 DEF Range
<1>3. Range(q) \cup {x} \subseteq Range(r)
  BY <1>1 DEF Range
<1> QED
  BY <1>2, <1>3 DEF r

LEMMA HeadTailRange ==
  ASSUME NEW S, NEW q \in Seq(S), q # <<>>
  PROVE  /\ Range(q) = {Head(q)} \cup Range(Tail(q))
         /\ \A i \in 1 .. Len(Tail(q)) : Tail(q)[i] = q[i + 1]
         /\ Len(Tail(q)) = Len(q) - 1
         /\ Distinct(q) =>
               /\ Distinct(Tail(q))
               /\ Head(q) \notin Range(Tail(q))
<1>1. /\ Len(q) \in Nat \ {0} /\ DOMAIN q = 1 .. Len(q)
      /\ Head(q) = q[1]
  BY EmptySeq, LenProperties
<1>2. /\ Len(Tail(q)) = Len(q) - 1 /\ Tail(q) \in Seq(S)
      /\ DOMAIN Tail(q) = 1 .. Len(q) - 1
      /\ \A i \in 1 .. Len(q) - 1 : Tail(q)[i] = q[i + 1]
  BY <1>1, HeadTailProperties, LenProperties
<1>3. Range(q) = {Head(q)} \cup Range(Tail(q))
  <2>1. ASSUME NEW i \in 1 .. Len(q)
        PROVE  q[i] = q[1] \/ \E j \in 1 .. Len(q) - 1 : q[i] = Tail(q)[j]
    <3>1. CASE i = 1
      BY <3>1
    <3>2. CASE i # 1
      <4>1. i - 1 \in 1 .. Len(q) - 1 /\ (i - 1) + 1 = i
        BY <3>2, <1>1
      <4> QED
        BY <4>1, <1>2
    <3> QED
      BY <3>1, <3>2
  <2>2. ASSUME NEW j \in 1 .. Len(q) - 1
        PROVE  j + 1 \in 1 .. Len(q) /\ Tail(q)[j] = q[j + 1]
    BY <1>1, <1>2
  <2>3. 1 \in 1 .. Len(q)
    BY <1>1
  <2>4. Range(q) \subseteq {Head(q)} \cup Range(Tail(q))
    <3>1. \A j \in 1 .. Len(q) - 1 : Tail(q)[j] \in Range(Tail(q))
      BY <1>2 DEF Range
    <3>2. \A i \in 1 .. Len(q) : q[i] \in {Head(q)} \cup Range(Tail(q))
      BY <1>1, <2>1, <3>1
    <3> QED
      BY <1>1, <3>2 DEF Range
  <2>5. {Head(q)} \cup Range(Tail(q)) \subseteq Range(q)
    BY <1>1, <1>2, <2>2, <2>3 DEF Range
  <2> QED
    BY <2>4, <2>5
<1>4. ASSUME Distinct(q)
      PROVE  Distinct(Tail(q)) /\ Head(q) \notin Range(Tail(q))
  <2>1. \A i \in 1 .. Len(q) - 1 : i + 1 \in 1 .. Len(q) /\ i + 1 # 1
    BY <1>1
  <2>2. 1 \in 1 .. Len(q)
    BY <1>1
  <2>3. \A i, j \in 1 .. Len(q) - 1 : i + 1 = j + 1 => i = j
    BY <1>1
  <2>4. Distinct(Tail(q))
    BY <1>1, <1>2, <1>4, <2>1, <2>3 DEF Distinct
  <2>5. Head(q) \notin Range(Tail(q))
    BY <1>1, <1>2, <1>4, <2>1, <2>2 DEF Distinct, Range
  <2> QED
    BY <2>4, <2>5
<1> QED
  BY <1>2, <1>3, <1>4

LEMMA AppendDistinct ==
  ASSUME NEW S, NEW q \in Seq(S), NEW x \in S, Distinct(q), x \notin Range(q)
  PROVE  Distinct(Append(q, x))
<1> DEFINE r == Append(q, x)
<1>1. /\ DOMAIN q = 1 .. Len(q)
      /\ DOMAIN r = (1 .. Len(q)) \cup {Len(q) + 1}
      /\ \A i \in 1 .. Len(q) : r[i] = q[i]
      /\ r[Len(q) + 1] = x
  BY AppendIndices
<1> HIDE DEF r
<1>2. \A i, j \in 1 .. Len(q) : q[i] = q[j] => i = j
  BY <1>1 DEF Distinct
<1>3. \A i \in 1 .. Len(q) : q[i] # x
  BY <1>1 DEF Range
<1>4. \A i, j \in DOMAIN r : r[i] = r[j] => i = j
  BY <1>1, <1>2, <1>3
<1>5. DOMAIN r = 1 .. Len(r)
  BY AppendProperties, LenProperties DEF r
<1> QED
  BY <1>4, <1>5 DEF Distinct, r

\* The cache after it takes in an id it does not hold.
LEMMA RememberCache ==
  ASSUME TypeOK, NEW e \in Endpoint, NEW id \in MsgId, CacheOf(e),
         id \notin completed[e], Remember(e, id)
  PROVE  /\ CacheOf(e)'
         /\ Done(e)' = Done(e) \cup {id}
         /\ evicted[e] \subseteq evicted'[e]
<1> DEFINE q == completedOrder[e]
           r == Append(q, id)
<1>6. q \in Seq(MsgId) /\ CompletedCap \in Nat \ {0}
  BY EndpointAssumption DEF TypeOK
<1>7. Distinct(q) /\ Range(q) = completed[e] /\ id \notin Range(q)
  BY DEF CacheOf
<1>8. CacheFull(e) <=> Len(q) + 1 > CompletedCap
  BY DEF CacheFull
<1>9. /\ Len(q) <= CompletedCap
      /\ evicted[e] # {} => Len(q) = CompletedCap
  BY DEF CacheOf
<1>10. /\ Remember(e, id) /\ completedOrder \in [Endpoint -> Seq(MsgId)]
       /\ completed \in [Endpoint -> SUBSET MsgId]
       /\ evicted \in [Endpoint -> SUBSET MsgId]
  BY DEF TypeOK
<1> HIDE DEF q
<1>1. Len(q) \in Nat
  BY <1>6, LenProperties
<1>11. r \in Seq(MsgId) /\ r # <<>> /\ Len(r) = Len(q) + 1
  BY <1>6, AppendProperties
<1>12. Range(r) = completed[e] \cup {id}
  BY <1>6, <1>7, AppendRange
<1>13. Distinct(r)
  BY <1>6, <1>7, AppendDistinct
<1> HIDE DEF r
<1>2. /\ r \in Seq(MsgId) /\ r # <<>> /\ Len(r) = Len(q) + 1
      /\ Range(r) = completed[e] \cup {id}
      /\ Distinct(r)
  BY <1>11, <1>12, <1>13
<1>14. /\ Range(r) = {Head(r)} \cup Range(Tail(r))
       /\ Len(Tail(r)) = Len(r) - 1
       /\ Distinct(Tail(r))
       /\ Head(r) \notin Range(Tail(r))
  BY <1>2, HeadTailRange
<1>3. /\ Len(Tail(r)) = Len(q)
      /\ Range(Tail(r)) = Range(r) \ {Head(r)}
      /\ Distinct(Tail(r))
      /\ Head(r) \in Range(r)
  BY <1>1, <1>2, <1>14
<1>4. CASE CacheFull(e)
  <2>1. /\ completedOrder'[e] = Tail(r)
        /\ completed'[e] = (completed[e] \cup {id}) \ {Head(r)}
        /\ evicted'[e] = evicted[e] \cup {Head(r)}
    BY <1>4, <1>10 DEF Remember, q, r
  <2>2. Len(Tail(r)) = CompletedCap
    BY <1>1, <1>3, <1>4, <1>6, <1>8, <1>9
  <2>3. CacheOf(e)'
    BY <1>1, <1>2, <1>3, <2>1, <2>2 DEF CacheOf
  <2>4. Done(e)' = Done(e) \cup {id}
    BY <1>2, <1>3, <2>1 DEF Done
  <2> QED
    BY <2>1, <2>3, <2>4
<1>5. CASE ~CacheFull(e)
  <2>1. /\ completedOrder'[e] = r
        /\ completed'[e] = completed[e] \cup {id}
        /\ evicted'[e] = evicted[e]
    BY <1>5, <1>10 DEF Remember, q, r
  <2>2. Len(r) <= CompletedCap /\ Len(q) # CompletedCap
    BY <1>1, <1>2, <1>5, <1>6, <1>8
  <2>3. CacheOf(e)'
    BY <1>2, <1>9, <2>1, <2>2 DEF CacheOf
  <2> QED
    BY <2>1, <2>3 DEF Done
<1> QED
  BY <1>4, <1>5

\* An endpoint whose cache and queue a step leaves alone.
LEMMA DedupSame ==
  ASSUME NEW f \in Endpoint, CacheOf(f), QueueConsistent(f),
         completed'[f] = completed[f], completedOrder'[f] = completedOrder[f],
         evicted'[f] = evicted[f], ready'[f] = ready[f], popped'[f] = popped[f]
  PROVE  CacheOf(f)' /\ QueueConsistent(f)'
<1>1. CacheOf(f)'
  BY DEF CacheOf
<1>2. PoppedIds(f)' = PoppedIds(f) /\ Done(f)' = Done(f)
  BY DEF PoppedIds, Done
<1>3. QueueConsistent(f)'
  BY <1>2 DEF QueueConsistent
<1> QED
  BY <1>1, <1>3

\* Queueing an id that is not in the cache.
LEMMA DedupComplete ==
  ASSUME TypeInv, DedupInv, NEW e \in Endpoint, NEW d \in net,
         PollComplete(e, d)
  PROVE  DedupInv'
<1> DEFINE id == d.id
<1>1. TypeOK /\ TypeOK' /\ id \in MsgId
  BY TypePollData, StoredType DEF TypeInv, PollComplete
<1>2. /\ CacheOf(e) /\ QueueConsistent(e)
      /\ Remember(e, id) /\ id \notin completed[e]
  BY DEF DedupInv, PollComplete, IsDuplicate
<1>3. /\ CacheOf(e)'
      /\ Done(e)' = Done(e) \cup {id}
      /\ evicted[e] \subseteq evicted'[e]
  BY <1>1, <1>2, RememberCache
<1>4. /\ ready'[e] = Append(ready[e], id)
      /\ ready[e] \in Seq(MsgId)
      /\ popped' = popped
      /\ PoppedIds(e)' = PoppedIds(e)
  BY <1>1 DEF TypeOK, PollComplete, PoppedIds
<1>5. id \in Done(e) => id \in evicted[e]
  BY <1>2 DEF Done
<1>6. Range(ready'[e]) = Range(ready[e]) \cup {id}
  BY <1>1, <1>4, AppendRange
<1>7. Range(ready'[e]) \cup PoppedIds(e)' \subseteq Done(e)'
  BY <1>2, <1>3, <1>4, <1>6 DEF QueueConsistent
<1>8. Range(ready'[e]) \cap PoppedIds(e)' \subseteq evicted'[e]
  BY <1>2, <1>3, <1>4, <1>5, <1>6 DEF QueueConsistent
<1>9. \A i, j \in 1 .. Len(ready'[e]) :
         i # j /\ ready'[e][i] = ready'[e][j] => ready'[e][i] \in evicted'[e]
  <2> DEFINE q == ready[e]
             r == ready'[e]
  <2>1. /\ DOMAIN q = 1 .. Len(q) /\ DOMAIN r = 1 .. Len(r)
        /\ DOMAIN r = (1 .. Len(q)) \cup {Len(q) + 1}
        /\ \A i \in 1 .. Len(q) : r[i] = q[i]
        /\ r[Len(q) + 1] = id
        /\ 1 .. Len(r) = (1 .. Len(q)) \cup {Len(q) + 1}
    BY <1>1, <1>4, AppendIndices, LenProperties
  <2>2. \A i \in 1 .. Len(q) : q[i] \in Range(q)
    BY <2>1 DEF Range
  <2>3. \A i \in 1 .. Len(q) : q[i] = id => id \in evicted[e]
    BY <1>2, <1>5, <2>2 DEF QueueConsistent
  <2>4. \A i, j \in 1 .. Len(q) : i # j /\ q[i] = q[j] => q[i] \in evicted[e]
    BY <1>2 DEF QueueConsistent
  <2> HIDE DEF q, r
  <2>5. \A i, j \in 1 .. Len(r) :
           i # j /\ r[i] = r[j] => r[i] \in evicted'[e]
    <3> SUFFICES ASSUME NEW i \in 1 .. Len(r), NEW j \in 1 .. Len(r),
                        i # j, r[i] = r[j]
                 PROVE  r[i] \in evicted[e]
      BY <1>3
    <3>1. CASE i \in 1 .. Len(q) /\ j \in 1 .. Len(q)
      BY <2>1, <2>4, <3>1
    <3>2. CASE i \in 1 .. Len(q) /\ j = Len(q) + 1
      BY <2>1, <2>3, <3>2
    <3>3. CASE i = Len(q) + 1 /\ j \in 1 .. Len(q)
      BY <2>1, <2>3, <3>3
    <3> QED
      BY <2>1, <3>1, <3>2, <3>3
  <2> QED
    BY <2>5 DEF r
<1>10. QueueConsistent(e)'
  BY <1>2, <1>3, <1>4, <1>7, <1>8, <1>9 DEF QueueConsistent
<1>11. ASSUME NEW f \in Endpoint, f # e
       PROVE  CacheOf(f)' /\ QueueConsistent(f)'
  <2>1. /\ completed'[f] = completed[f]
        /\ completedOrder'[f] = completedOrder[f]
        /\ evicted'[f] = evicted[f]
        /\ ready'[f] = ready[f]
        /\ popped'[f] = popped[f]
    BY <1>1, <1>11 DEF PollComplete, Remember, TypeOK
  <2> QED
    BY <2>1, DedupSame DEF DedupInv
<1> QED
  BY <1>3, <1>10, <1>11 DEF DedupInv

\* Popping a queued id, with or without a message to return.
LEMMA DedupPop ==
  ASSUME TypeInv, DedupInv, NEW e \in Endpoint, Recv(e) \/ RecvKeyError(e)
  PROVE  DedupInv'
<1> DEFINE q  == ready[e]
           id == Head(q)
<1>1. /\ TypeOK /\ TypeOK' /\ CacheOf(e) /\ QueueConsistent(e) /\ PopReady(e)
      /\ q \in Seq(MsgId) /\ q # <<>>
  BY TypePop DEF TypeInv, TypeOK, DedupInv, Recv, RecvKeyError, PopReady
<1>2. /\ ready'[e] = Tail(q)
      /\ completed' = completed /\ completedOrder' = completedOrder
      /\ evicted' = evicted
  BY <1>1 DEF PopReady, TypeOK
<1>3. /\ Len(q) \in Nat \ {0} /\ DOMAIN q = 1 .. Len(q)
      /\ Range(q) = {id} \cup Range(Tail(q))
      /\ \A i \in 1 .. Len(Tail(q)) : Tail(q)[i] = q[i + 1]
      /\ Len(Tail(q)) = Len(q) - 1
  BY <1>1, HeadTailRange, EmptySeq, LenProperties
<1>4. \A i, j \in 1 .. Len(Tail(q)) :
         i # j /\ Tail(q)[i] = Tail(q)[j] => Tail(q)[i] \in evicted[e]
  <2>1. \A i \in 1 .. Len(Tail(q)) : i + 1 \in 1 .. Len(q)
    BY <1>3
  <2>2. \A i, j \in 1 .. Len(Tail(q)) : i # j => i + 1 # j + 1
    BY <1>3
  <2>3. \A i, j \in 1 .. Len(q) : i # j /\ q[i] = q[j] => q[i] \in evicted[e]
    BY <1>1 DEF QueueConsistent
  <2> QED
    BY <1>3, <2>1, <2>2, <2>3
<1>5. id \in Range(Tail(q)) => id \in evicted[e]
  <2> SUFFICES ASSUME id \in Range(Tail(q))
               PROVE  id \in evicted[e]
    OBVIOUS
  <2>1. DOMAIN Tail(q) = 1 .. Len(Tail(q))
    BY <1>1, HeadTailProperties, LenProperties
  <2>2. PICK i \in 1 .. Len(Tail(q)) : Tail(q)[i] = id
    BY <2>1 DEF Range
  <2>3. /\ i + 1 \in 1 .. Len(q) /\ 1 \in 1 .. Len(q) /\ i + 1 # 1
        /\ q[i + 1] = q[1]
    BY <1>1, <1>3, <2>2
  <2> QED
    BY <1>1, <2>3 DEF QueueConsistent
<1>6. CASE RecvKeyError(e)
  <2>1. popped' = popped /\ PoppedIds(e)' = PoppedIds(e)
    BY <1>6 DEF RecvKeyError, PoppedIds
  <2>2. Range(Tail(q)) \subseteq Range(q)
    BY <1>3
  <2> QED
    <3>1. QueueConsistent(e)'
      BY <1>1, <1>2, <1>4, <2>1, <2>2 DEF QueueConsistent, Done
    <3>2. CacheOf(e)'
      BY <1>1, <1>2 DEF CacheOf
    <3>3. ASSUME NEW f \in Endpoint, f # e
          PROVE  CacheOf(f)' /\ QueueConsistent(f)'
      <4>1. ready'[f] = ready[f]
        BY <1>1, <3>3 DEF PopReady, TypeOK
      <4> QED
        BY <1>2, <2>1, <4>1, DedupSame DEF DedupInv
    <3> QED
      BY <3>1, <3>2, <3>3 DEF DedupInv
<1>7. CASE Recv(e)
  <2> DEFINE p == popped[e]
             r == NextReceived(e)
             pp == popped'[e]
  <2>1. /\ p \in Seq(Received) /\ pp = Append(p, r) /\ pp \in Seq(Received)
        /\ r.id = id
    BY <1>1, <1>7 DEF TypeOK, Recv, NextReceived, ReceivedFrom
  <2>2. r \in Received
    <3>1. Len(p) \in Nat /\ Len(pp) = Len(p) + 1 /\ pp[Len(p) + 1] = r
      BY <2>1, LenProperties
    <3>2. Len(p) + 1 \in 1 .. Len(pp)
      BY <3>1
    <3> QED
      BY <2>1, <3>1, <3>2, ElementOfSeq
  <2>3. /\ 1 .. Len(pp) = (1 .. Len(p)) \cup {Len(p) + 1}
        /\ \A i \in 1 .. Len(p) : pp[i] = p[i]
        /\ pp[Len(p) + 1] = r
    BY <2>1, <2>2, AppendIndices, LenProperties
  <2>4. PoppedIds(e) = {p[i].id : i \in 1 .. Len(p)}
    BY DEF PoppedIds
  <2>5. PoppedIds(e)' = {pp[i].id : i \in 1 .. Len(pp)}
    BY DEF PoppedIds
  <2> HIDE DEF p, pp, r
  <2>6. PoppedIds(e)' = PoppedIds(e) \cup {id}
    BY <2>1, <2>3, <2>4, <2>5
  <2>7. id \in PoppedIds(e) => id \in evicted[e]
    BY <1>1, <1>3 DEF QueueConsistent
  <2>8. \A i \in 1 .. Len(p) : p[i].id = id => id \in evicted[e]
    BY <2>4, <2>7
  <2>9. \A i, j \in 1 .. Len(p) : i # j /\ p[i].id = p[j].id
                                   => p[i].id \in evicted[e]
    BY <1>1 DEF QueueConsistent, p
  <2>10. \A i, j \in 1 .. Len(pp) : i # j /\ pp[i].id = pp[j].id
                                    => pp[i].id \in evicted[e]
    BY <2>1, <2>3, <2>8, <2>9
  <2>11. QueueConsistent(e)'
    <3>1. Range(ready'[e]) \cup PoppedIds(e)' \subseteq Done(e)'
      BY <1>1, <1>2, <1>3, <2>6 DEF QueueConsistent, Done
    <3>2. Range(ready'[e]) \cap PoppedIds(e)' \subseteq evicted'[e]
      BY <1>1, <1>2, <1>3, <1>5, <2>6 DEF QueueConsistent
    <3> QED
      BY <1>2, <1>4, <2>10, <3>1, <3>2 DEF QueueConsistent, pp
  <2>12. ASSUME NEW f \in Endpoint, f # e
         PROVE  QueueConsistent(f)'
    <3>1. ready'[f] = ready[f] /\ popped'[f] = popped[f]
      BY <1>1, <1>7, <2>12 DEF PopReady, Recv, TypeOK
    <3> QED
      BY <1>2, <3>1, DedupSame DEF DedupInv
  <2>13. \A f \in Endpoint : CacheOf(f)'
    BY <1>2 DEF DedupInv, CacheOf
  <2> QED
    BY <2>11, <2>12, <2>13 DEF DedupInv
<1> QED
  BY <1>6, <1>7

\* Every other step leaves the cache and the queue alone.
LEMMA DedupFrame ==
  ASSUME DedupInv,
         UNCHANGED <<completed, completedOrder, evicted, ready, popped>>
  PROVE  DedupInv'
BY DEF DedupInv, CacheOf, QueueConsistent, Done, PoppedIds

LEMMA DedupStep ==
  ASSUME TypeInv, DedupInv, [Next]_endpointVars
  PROVE  DedupInv'
<1> DEFINE frame ==
      UNCHANGED <<completed, completedOrder, evicted, ready, popped>>
<1>1. ASSUME NEW m \in Message, Send(m)
      PROVE  frame
  BY <1>1 DEF Send, receiverVars
<1>2. ASSUME NEW e \in Endpoint, Retransmit(e) \/ GiveUp(e)
      PROVE  frame
  BY <1>2 DEF Retransmit, GiveUp, receiverVars, historyVars
<1>3. ASSUME NEW e \in Endpoint, SendDeadline(e) \/ SendReturns(e)
      PROVE  frame
  BY <1>3 DEF SendDeadline, SendReturns, receiverVars, historyVars
<1>4. ASSUME NEW e \in Endpoint, NEW d \in net,
             PollAck(e, d) \/ PollDuplicate(e, d) \/ PollPartial(e, d)
      PROVE  frame
  BY <1>4 DEF PollAck, PollDuplicate, PollPartial, receiverVars, historyVars
<1>5. ASSUME NEW d \in net, Lose(d)
      PROVE  frame
  BY <1>5 DEF Lose, receiverVars
<1>6. ASSUME UNCHANGED endpointVars
      PROVE  frame
  BY <1>6 DEF endpointVars, receiverVars, historyVars
<1> QED
  BY <1>1, <1>2, <1>3, <1>4, <1>5, <1>6, DedupFrame, DedupComplete, DedupPop
     DEF Next, Step, Poll

LEMMA DedupInit == Init => DedupInv
<1> SUFFICES ASSUME Init
             PROVE  DedupInv
  OBVIOUS
<1>1. CompletedCap \in Nat \ {0}
  BY EndpointAssumption
<1>2. ASSUME NEW e \in Endpoint
      PROVE  /\ completed[e] = {} /\ evicted[e] = {}
             /\ completedOrder[e] = <<>> /\ ready[e] = <<>> /\ popped[e] = <<>>
  BY DEF Init
<1>3. Range(<<>>) = {} /\ Len(<<>>) = 0 /\ 1 .. 0 = {}
  BY DEF Range
<1>4. ASSUME NEW e \in Endpoint
      PROVE  CacheOf(e)
  <2>1. completed[e] = Range(completedOrder[e])
    BY <1>2, <1>3
  <2>2. Len(completedOrder[e]) = 0
    BY <1>2
  <2>3. Distinct(completedOrder[e])
    BY <2>2 DEF Distinct
  <2> QED
    BY <1>1, <1>2, <2>1, <2>2, <2>3 DEF CacheOf
<1>5. ASSUME NEW e \in Endpoint
      PROVE  QueueConsistent(e)
  <2>1. PoppedIds(e) = {}
    BY <1>2, <1>3 DEF PoppedIds
  <2> QED
    BY <1>2, <1>3, <2>1 DEF QueueConsistent
<1> QED
  BY <1>4, <1>5 DEF DedupInv

\* The duplicate cache stays consistent.
THEOREM CacheCorrect == Spec => []CacheConsistent
<1>1. DedupInv => CacheConsistent
  BY DEF DedupInv, CacheOf, CacheConsistent
<1> QED
  BY <1>1, TypeInit, TypeStep, DedupInit, DedupStep, PTL DEF Spec

\* recv_message returns an id at most once unless the cache dropped it, with
\* no assumption on how the callers choose the ids.
THEOREM DeliveredAtMostOnce == Spec => []AtMostOnce
<1>1. DedupInv => AtMostOnce
  BY DEF DedupInv, QueueConsistent, AtMostOnce
<1> QED
  BY <1>1, TypeInit, TypeStep, DedupInit, DedupStep, PTL DEF Spec

-----------------------------------------------------------------------------
(* The invariant.  Each part ties the transport's state to the messages    *)
(* sent.  Some hold whatever ids are used; what depends on unique ids      *)
(* depends on those of one endpoint's messages only, so that an endpoint   *)
(* whose ids are unique is served well beside others whose ids collide.    *)

\* One id names one message of e, and one message to e.
UniqueFrom(e) ==
    \A m, n \in sent : m.src = e /\ n.src = e /\ m.id = n.id => m = n

UniqueTo(e) ==
    \A m, n \in sent : m.dst = e /\ n.dst = e /\ m.id = n.id => m = n

\* im holds nothing but parts of m.
Stores(im, m) ==
    /\ im.src = m.src
    /\ im.count = FragCount(m.text)
    /\ im.flags = m.flags
    /\ im.parts \subseteq Whole(m.text)

StoresWhole(im, m) ==
    Stores(im, m) /\ im.parts = Whole(m.text)

\* A fragment in flight is a fragment of a message sent, and an ACK in flight
\* is from an endpoint that completed the message it acknowledges.
FragmentsGenuine ==
    \A d \in net : d.type = "data" =>
        \E m \in sent : \E i \in Indices(m.text) : d = FragmentOf(m, i)

AcksGenuine ==
    \A d \in net : d.type = "ack" =>
        \E m \in sent :
            /\ m.src = d.dst /\ m.dst = d.src /\ m.id = d.id
            /\ d.id \in Done(d.src)

\* The message a call is sending, and the entries of pending messages.
SendsGenuine ==
    \A e \in Endpoint :
        sending[e] # None => sending[e] \in sent /\ sending[e].src = e

EntriesGenuine ==
    \A e \in Endpoint, id \in MsgId :
        out[e][id] # None =>
            /\ out[e][id].message \in sent
            /\ out[e][id].message.src = e
            /\ out[e][id].message.id = id
            /\ out[e][id].unacked \subseteq Indices(out[e][id].message.text)

\* A call whose entry is gone is about to return: its message was completed.
ReturnsJustified ==
    \A e \in Endpoint :
        UniqueFrom(e) /\ sending[e] # None /\ Pending(e) = None
            => sending[e].id \in Done(sending[e].dst)

\* An entry has the source of a message of its id, and parts of such messages.
PartsSent(e) ==
    \A id \in MsgId : inb[e][id] # None =>
        /\ \E m \in sent : /\ m.dst = e /\ m.id = id
                          /\ m.src = inb[e][id].src
        /\ \A p \in inb[e][id].parts : \E m \in sent :
              m.dst = e /\ m.id = id /\ p \in Whole(m.text)

\* Reassembly never mixes messages, and an id queued for the first time has
\* its message whole.
PartsGenuine(e) ==
    \A id \in MsgId : inb[e][id] # None =>
        \E m \in sent : m.dst = e /\ m.id = id /\ Stores(inb[e][id], m)

QueuedWhole(e) ==
    \A id \in Range(ready[e]) \ PoppedIds(e) :
        /\ inb[e][id] # None
        /\ \E m \in sent : m.dst = e /\ m.id = id /\ StoresWhole(inb[e][id], m)

\* A completed message is queued or was returned.
DoneAvailable(e) == Done(e) \subseteq Range(ready[e]) \cup PoppedIds(e)

ReturnedIntact(e) ==
    \A i \in 1 .. Len(popped[e]) :
        \E m \in sent : m.dst = e /\ popped[e][i] = Intact(m)

ReceiverGenuine(e) ==
    /\ PartsGenuine(e)
    /\ QueuedWhole(e)
    /\ DoneAvailable(e)
    /\ ReturnedIntact(e)
    /\ e \in failed => evicted[e] # {}

ReceiverInv(e) ==
    /\ PartsSent(e)
    /\ UniqueTo(e) => ReceiverGenuine(e)

AckedDone ==
    \A m \in acked : m \in sent /\ (UniqueFrom(m.src) => m.id \in Done(m.dst))

Genuine ==
    /\ FragmentsGenuine
    /\ AcksGenuine
    /\ SendsGenuine
    /\ EntriesGenuine
    /\ ReturnsJustified
    /\ \A e \in Endpoint : ReceiverInv(e)
    /\ AckedDone

-----------------------------------------------------------------------------
(* A whole message *)

LEMMA WholeCardinality ==
  ASSUME NEW text \in Text
  PROVE  /\ IsFiniteSet(Whole(text))
         /\ Cardinality(Whole(text)) = FragCount(text)
<1> DEFINE f == [i \in Indices(text) |-> [idx |-> i, text |-> text]]
<1>1. \A i \in Indices(text) : f[i] \in Whole(text)
  BY DEF Whole
<1>2. \A i, j \in Indices(text) : f[i] = f[j] => i = j
  <2>1. \A i \in Indices(text) : f[i].idx = i
    OBVIOUS
  <2> QED
    BY <2>1
<1>3. \A p \in Whole(text) : \E i \in Indices(text) : f[i] = p
  BY DEF Whole
<1>4. f \in [Indices(text) -> Whole(text)] /\ DOMAIN f = Indices(text)
  BY <1>1
<1> HIDE DEF f
<1>5. f \in Bijection(Indices(text), Whole(text))
  BY <1>2, <1>3, <1>4 DEF Bijection, Injection, Surjection, IsInjective
<1>6. ExistsBijection(Indices(text), Whole(text))
  BY <1>5 DEF ExistsBijection
<1> QED
  BY <1>6, IndicesType, FS_Bijection

LEMMA WholeParts ==
  ASSUME NEW text \in Text
  PROVE  /\ \A p \in Whole(text) : p.idx \in Indices(text)
         /\ {p.idx : p \in Whole(text)} = Indices(text)
         /\ \A p, q \in Whole(text) : p.idx = q.idx => p = q
<1>1. ASSUME NEW p \in Whole(text)
      PROVE  p.idx \in Indices(text) /\ p = [idx |-> p.idx, text |-> text]
  BY DEF Whole
<1>2. ASSUME NEW i \in Indices(text)
      PROVE  \E p \in Whole(text) : p.idx = i
  <2>1. [idx |-> i, text |-> text] \in Whole(text)
    BY DEF Whole
  <2> QED
    BY <2>1
<1> QED
  BY <1>1, <1>2

\* Parts of one message only: complete exactly when all of them are there.
LEMMA CompleteIsWhole ==
  ASSUME NEW m \in Message, NEW im, Stores(im, m), Complete(im)
  PROVE  im.parts = Whole(m.text)
<1>1. m.text \in Text
  BY DEF Message
<1>2. im.parts \subseteq Whole(m.text) /\ Cardinality(im.parts) = FragCount(m.text)
  BY DEF Stores, Complete
<1> QED
  BY <1>1, <1>2, WholeCardinality, FS_Subset

\* Storing a fragment of m in an entry that holds parts of m only.
LEMMA StoredGenuine ==
  ASSUME TypeOK, NEW e \in Endpoint, NEW m \in Message,
         NEW i \in Indices(m.text),
         inb[e][m.id] = None \/ Stores(inb[e][m.id], m)
  PROVE  /\ Stores(Stored(e, FragmentOf(m, i)), m)
         /\ inb[e][m.id] # None /\ StoresWhole(inb[e][m.id], m)
               => StoresWhole(Stored(e, FragmentOf(m, i)), m)
<1> DEFINE d   == FragmentOf(m, i)
           x   == [idx |-> i, text |-> m.text]
           old == inb[e][m.id]
           new == Stored(e, d)
<1>1. /\ d.id = m.id /\ d.src = m.src /\ d.count = FragCount(m.text)
      /\ d.flags = m.flags /\ d.part = x /\ d.part.idx = i
  BY DEF FragmentOf
<1>2. x \in Whole(m.text) /\ x.idx = i
  BY DEF Whole
<1>3. m.id \in MsgId /\ m.text \in Text
  BY DEF Message
<1> HIDE DEF x
<1>4. CASE old = None
  <2>1. new = [src |-> m.src, count |-> FragCount(m.text), flags |-> m.flags,
               parts |-> {x}]
    BY <1>1, <1>4 DEF Stored
  <2> QED
    BY <1>2, <1>4, <2>1 DEF Stores
<1>5. CASE old # None
  <2>1. old \in InMsg /\ Stores(old, m)
    BY <1>3, <1>5 DEF TypeOK
  <2> DEFINE kept == {p \in old.parts : p.idx # i}
  <2>2. new = [old EXCEPT !.parts = kept \cup {x}]
    BY <1>1, <1>5 DEF Stored
  <2>3. /\ new.src = old.src /\ new.count = old.count /\ new.flags = old.flags
        /\ new.parts = kept \cup {x}
    BY <2>1, <2>2 DEF InMsg
  <2>4. Stores(new, m)
    BY <1>2, <2>1, <2>3 DEF Stores
  <2>5. old.parts = Whole(m.text) => kept \cup {x} = Whole(m.text)
    BY <1>2, <1>3, WholeParts
  <2> QED
    BY <1>5, <2>3, <2>4, <2>5 DEF StoresWhole
<1> QED
  BY <1>4, <1>5

\* What recv_message assembles from an entry that holds parts of m only, and
\* that it can assemble the entry of a whole message.
LEMMA AssembleGenuine ==
  ASSUME NEW m \in Message, NEW id, NEW im \in InMsg, Stores(im, m), id = m.id
  PROVE  /\ CanAssemble(im) => ReceivedFrom(id, im) = Intact(m)
         /\ im.parts = Whole(m.text) => CanAssemble(im)
<1>1. /\ m.text \in Text /\ im.count = FragCount(m.text)
      /\ im.src = m.src /\ im.flags = m.flags
      /\ im.parts \subseteq Whole(m.text) /\ im # None
      /\ 0 .. im.count - 1 = Indices(m.text)
  BY EndpointAssumption DEF Message, Stores, Indices
<1>2. ASSUME CanAssemble(im)
      PROVE  {p \in im.parts : p.idx \in 0 .. im.count - 1} = Whole(m.text)
  <2>1. ASSUME NEW p \in Whole(m.text)
        PROVE  p \in im.parts
    <3>1. p.idx \in {q.idx : q \in im.parts}
      BY <1>1, <1>2, WholeParts DEF CanAssemble
    <3>2. PICK q \in im.parts : q.idx = p.idx
      BY <3>1
    <3> QED
      BY <1>1, <3>2, WholeParts
  <2> QED
    BY <1>1, <2>1, WholeParts
<1>3. CanAssemble(im) => ReceivedFrom(id, im) = Intact(m)
  BY <1>1, <1>2 DEF ReceivedFrom, Intact
<1>4. im.parts = Whole(m.text) => CanAssemble(im)
  BY <1>1, WholeParts DEF CanAssemble
<1> QED
  BY <1>3, <1>4

-----------------------------------------------------------------------------
(* What only grows: the messages sent, the ids completed or evicted.       *)

Growth ==
    /\ sent \subseteq sent'
    /\ \A e \in Endpoint : Done(e) \subseteq Done(e)'
    /\ \A e \in Endpoint : evicted[e] \subseteq evicted'[e]

LEMMA CompleteGrowth ==
  ASSUME TypeInv, DedupInv, NEW e \in Endpoint, NEW d \in net,
         PollComplete(e, d)
  PROVE  /\ Growth
         /\ Done(e)' = Done(e) \cup {d.id}
         /\ \A f \in Endpoint \ {e} :
               Done(f)' = Done(f) /\ evicted'[f] = evicted[f]
<1>1. TypeOK /\ d.id \in MsgId /\ sent' = sent
  BY StoredType DEF TypeInv, PollComplete
<1>2. Remember(e, d.id) /\ d.id \notin completed[e] /\ CacheOf(e)
  BY DEF PollComplete, IsDuplicate, DedupInv
<1>3. Done(e)' = Done(e) \cup {d.id} /\ evicted[e] \subseteq evicted'[e]
  BY <1>1, <1>2, RememberCache
<1>4. ASSUME NEW f \in Endpoint \ {e}
      PROVE  Done(f)' = Done(f) /\ evicted'[f] = evicted[f]
  BY <1>1, <1>2 DEF Remember, Done, TypeOK
<1> QED
  BY <1>1, <1>3, <1>4 DEF Growth

LEMMA OtherGrowth ==
  ASSUME UNCHANGED <<completed, evicted>>, sent \subseteq sent'
  PROVE  Growth /\ \A e \in Endpoint : Done(e)' = Done(e)
BY DEF Growth, Done

-----------------------------------------------------------------------------
(* Parts of the invariant that a step carries over *)

\* What every step may rely on.
StepHyp ==
    /\ TypeInv /\ TypeInv'
    /\ DedupInv /\ DedupInv'
    /\ Genuine
    /\ Growth

LEMMA UniqueBefore ==
  ASSUME sent \subseteq sent', NEW e
  PROVE  /\ UniqueFrom(e)' => UniqueFrom(e)
         /\ UniqueTo(e)' => UniqueTo(e)
BY DEF UniqueFrom, UniqueTo

LEMMA FragmentsKept ==
  ASSUME FragmentsGenuine, sent \subseteq sent',
         \A d \in net' : d \in net \/ d.type # "data" \/
             \E m \in sent' : \E i \in Indices(m.text) : d = FragmentOf(m, i)
  PROVE  FragmentsGenuine'
BY DEF FragmentsGenuine

LEMMA AcksKept ==
  ASSUME TypeOK, AcksGenuine, Growth,
         \A d \in net' : d \in net \/ d.type # "ack" \/
             \E m \in sent' : /\ m.src = d.dst /\ m.dst = d.src /\ m.id = d.id
                              /\ d.id \in Done(d.src)'
  PROVE  AcksGenuine'
<1> SUFFICES ASSUME NEW d \in net', d.type = "ack", d \in net
             PROVE  \E m \in sent' :
                       /\ m.src = d.dst /\ m.dst = d.src /\ m.id = d.id
                       /\ d.id \in Done(d.src)'
  BY DEF AcksGenuine
<1>1. d.src \in Endpoint
  BY DEF TypeOK, Fragment, Ack
<1>2. PICK m \in sent : /\ m.src = d.dst /\ m.dst = d.src /\ m.id = d.id
                        /\ d.id \in Done(d.src)
  BY DEF AcksGenuine
<1>3. m \in sent' /\ d.id \in Done(d.src)'
  BY <1>1, <1>2 DEF Growth
<1> QED
  BY <1>2, <1>3

LEMMA ReceiverKept ==
  ASSUME NEW e \in Endpoint, ReceiverInv(e), sent \subseteq sent',
         Done(e)' = Done(e), evicted'[e] = evicted[e], inb'[e] = inb[e],
         ready'[e] = ready[e], popped'[e] = popped[e], failed' = failed
  PROVE  ReceiverInv(e)'
<1>1. PoppedIds(e)' = PoppedIds(e)
  BY DEF PoppedIds
<1>2. PartsSent(e)'
  BY DEF ReceiverInv, PartsSent, Whole, Indices, FragCount
<1>3. ASSUME ReceiverGenuine(e)
      PROVE  ReceiverGenuine(e)'
  <2>1. PartsGenuine(e)'
    BY <1>3 DEF ReceiverGenuine, PartsGenuine, Stores
  <2>2. QueuedWhole(e)'
    BY <1>1, <1>3 DEF ReceiverGenuine, QueuedWhole, StoresWhole, Stores
  <2>3. DoneAvailable(e)'
    BY <1>1, <1>3 DEF ReceiverGenuine, DoneAvailable
  <2>4. ReturnedIntact(e)'
    BY <1>3 DEF ReceiverGenuine, ReturnedIntact, Intact
  <2> QED
    BY <1>3, <2>1, <2>2, <2>3, <2>4 DEF ReceiverGenuine
<1> QED
  BY <1>2, <1>3, UniqueBefore DEF ReceiverInv

LEMMA AckedKept ==
  ASSUME TypeOK, AckedDone, Growth, acked' = acked
  PROVE  AckedDone'
<1>1. \A m \in acked : m \in Message /\ m.dst \in Endpoint
  BY DEF TypeOK, Message
<1>2. \A m \in acked : UniqueFrom(m.src)' => UniqueFrom(m.src)
  BY UniqueBefore DEF Growth
<1> QED
  BY <1>1, <1>2 DEF AckedDone, Growth

LEMMA ReturnsKept ==
  ASSUME TypeOK, Growth,
         \A e \in Endpoint :
            UniqueFrom(e) /\ sending'[e] # None /\ out'[e][sending'[e].id] = None =>
                /\ sending'[e] = sending[e]
                /\ sending[e].id \in Done(sending[e].dst)
  PROVE  ReturnsJustified'
<1> SUFFICES ASSUME NEW e \in Endpoint, UniqueFrom(e)', sending'[e] # None,
                    Pending(e)' = None
             PROVE  (sending[e].id \in Done(sending[e].dst))'
  BY DEF ReturnsJustified
<1>1. /\ sending'[e] = sending[e] /\ sending[e] \in Message
      /\ sending[e].id \in Done(sending[e].dst)
  BY UniqueBefore DEF Pending, TypeOK, Growth
<1>2. sending[e].dst \in Endpoint
  BY <1>1 DEF Message
<1> QED
  BY <1>1, <1>2 DEF Growth, Done

LEMMA SentTyped ==
  ASSUME TypeOK, NEW m \in sent
  PROVE  m \in Message /\ m.src \in Endpoint /\ m.dst \in Endpoint
         /\ m.id \in MsgId /\ m.text \in Text
BY DEF TypeOK, Message

-----------------------------------------------------------------------------
(* The sender's steps *)

LEMMA GenuineSend ==
  ASSUME StepHyp, NEW m \in Message, Send(m)
  PROVE  Genuine'
<1> DEFINE entry ==
      [message |-> m, unacked |-> Indices(m.text), attempts |-> 1]
<1>1. /\ TypeOK /\ Genuine /\ Growth
      /\ m.src \in Endpoint /\ m.id \in MsgId /\ m.text \in Text
  BY DEF StepHyp, TypeInv, Message
<1>2. /\ sent' = sent \cup {m}
      /\ net' = net \cup FragmentsOf(m, Indices(m.text))
      /\ sending' = [sending EXCEPT ![m.src] = m]
      /\ out' = [out EXCEPT ![m.src][m.id] = entry]
      /\ acked' = acked
      /\ UNCHANGED <<inb, ready, completed, popped, evicted, failed>>
  BY DEF Send, receiverVars
<1>3. entry \in OutMsg /\ entry # None /\ m # None
  BY <1>1, IndicesType, EndpointAssumption DEF OutMsg
<1>4. FragmentsGenuine'
  BY <1>1, <1>2, FragmentsKept DEF Genuine, FragmentsOf
<1>5. AcksGenuine'
  <2>1. \A d \in FragmentsOf(m, Indices(m.text)) : d.type = "data"
    BY DEF FragmentsOf, FragmentOf
  <2> QED
    BY <1>1, <1>2, <2>1, AcksKept DEF Genuine
<1>6. SendsGenuine'
  BY <1>1, <1>2 DEF Genuine, SendsGenuine, TypeOK
<1>7. EntriesGenuine'
  <2>1. /\ entry.message = m /\ entry.unacked = Indices(m.text)
    OBVIOUS
  <2> HIDE DEF entry
  <2>2. ASSUME NEW e \in Endpoint, NEW id \in MsgId, out'[e][id] # None
        PROVE  /\ out'[e][id].message \in sent'
               /\ out'[e][id].message.src = e
               /\ out'[e][id].message.id = id
               /\ out'[e][id].unacked \subseteq Indices(out'[e][id].message.text)
    <3>1. CASE e = m.src /\ id = m.id
      BY <1>1, <1>2, <2>1, <3>1 DEF TypeOK
    <3>2. CASE ~(e = m.src /\ id = m.id)
      <4>1. out'[e][id] = out[e][id]
        BY <1>1, <1>2, <3>2 DEF TypeOK
      <4> QED
        BY <1>1, <1>2, <2>2, <4>1 DEF Genuine, EntriesGenuine
    <3> QED
      BY <3>1, <3>2
  <2> QED
    BY <2>2 DEF EntriesGenuine
<1>8. ReturnsJustified'
  <2> HIDE DEF entry
  <2> SUFFICES ASSUME NEW e \in Endpoint, UniqueFrom(e), sending'[e] # None,
                      out'[e][sending'[e].id] = None
               PROVE  /\ sending'[e] = sending[e]
                      /\ sending[e].id \in Done(sending[e].dst)
    BY <1>1, ReturnsKept
  <2>1. e # m.src
    BY <1>1, <1>2, <1>3 DEF TypeOK
  <2>2. sending'[e] = sending[e] /\ out'[e] = out[e]
    BY <1>1, <1>2, <2>1 DEF TypeOK
  <2> QED
    BY <1>1, <2>2 DEF Genuine, ReturnsJustified, Pending
<1>9. ASSUME NEW e \in Endpoint
      PROVE  ReceiverInv(e)'
  BY <1>1, <1>2, ReceiverKept, OtherGrowth DEF Genuine
<1>10. AckedDone'
  BY <1>1, <1>2, AckedKept DEF Genuine
<1> QED
  BY <1>4, <1>5, <1>6, <1>7, <1>8, <1>9, <1>10 DEF Genuine

\* A call whose entry is there is sending the entry's message.
LEMMA PendingGenuine ==
  ASSUME TypeInv, Genuine, NEW e \in Endpoint, RoundDue(e)
  PROVE  /\ sending[e].id \in MsgId
         /\ Pending(e) \in OutMsg
         /\ Pending(e).message \in sent
         /\ Pending(e).message.src = e
         /\ Pending(e).message.id = sending[e].id
         /\ Pending(e).unacked \subseteq Indices(Pending(e).message.text)
BY PendingType DEF RoundDue, Genuine, EntriesGenuine, Pending

LEMMA GenuineRound ==
  ASSUME StepHyp, NEW e \in Endpoint, Retransmit(e) \/ GiveUp(e)
  PROVE  Genuine'
<1> DEFINE id == sending[e].id
           o  == Pending(e)
<1>1. TypeInv /\ TypeOK /\ Genuine /\ Growth /\ RoundDue(e)
  BY DEF StepHyp, TypeInv, Retransmit, GiveUp
<1>2. /\ id \in MsgId /\ o \in OutMsg /\ o.message \in sent
      /\ o.message.src = e /\ o.message.id = id
      /\ o.unacked \subseteq Indices(o.message.text)
  BY <1>1, PendingGenuine
<1>3. /\ sent' = sent /\ acked' = acked
      /\ net' = net \cup FragmentsOf(o.message, o.unacked)
      /\ UNCHANGED <<inb, ready, completed, popped, evicted, failed>>
  BY DEF Retransmit, GiveUp, SendRound, receiverVars, historyVars
<1>4. FragmentsGenuine'
  BY <1>1, <1>2, <1>3, FragmentsKept DEF Genuine, FragmentsOf
<1>5. AcksGenuine'
  <2>1. \A d \in FragmentsOf(o.message, o.unacked) : d.type = "data"
    BY DEF FragmentsOf, FragmentOf
  <2> QED
    BY <1>1, <1>3, <2>1, AcksKept DEF Genuine
<1>6. \A f \in Endpoint : 
         sending'[f] = sending[f] \/ (f = e /\ sending'[f] = None)
  BY <1>1 DEF Retransmit, GiveUp, TypeOK
<1>7. SendsGenuine'
  BY <1>1, <1>3, <1>6 DEF Genuine, SendsGenuine
<1> DEFINE more == [o EXCEPT !.attempts = @ + 1]
<1>8. more \in OutMsg /\ more # None /\ more.message = o.message
      /\ more.unacked = o.unacked
  BY <1>2, EndpointAssumption DEF OutMsg
<1>9. /\ Retransmit(e) => out' = [out EXCEPT ![e][id] = more]
      /\ GiveUp(e) => out' = [out EXCEPT ![e][id] = None]
  BY DEF Retransmit, GiveUp, Pending
<1> HIDE DEF more
<1>10. /\ \A f \in Endpoint, k \in MsgId :
             f # e \/ k # id => out'[f][k] = out[f][k]
       /\ Retransmit(e) => out'[e][id] = more
       /\ GiveUp(e) => out'[e][id] = None
  BY <1>1, <1>2, <1>9 DEF TypeOK
<1>11. EntriesGenuine'
  <2> SUFFICES ASSUME NEW f \in Endpoint, NEW k \in MsgId, out'[f][k] # None
               PROVE  /\ out'[f][k].message \in sent'
                      /\ out'[f][k].message.src = f
                      /\ out'[f][k].message.id = k
                      /\ out'[f][k].unacked
                            \subseteq Indices(out'[f][k].message.text)
    BY DEF EntriesGenuine
  <2>1. CASE f = e /\ k = id
    BY <1>2, <1>3, <1>8, <1>10, <2>1
  <2>2. CASE f # e \/ k # id
    BY <1>1, <1>3, <1>10, <2>2 DEF Genuine, EntriesGenuine
  <2> QED
    BY <2>1, <2>2
<1>12. ReturnsJustified'
  <2> SUFFICES ASSUME NEW f \in Endpoint, UniqueFrom(f), sending'[f] # None,
                      out'[f][sending'[f].id] = None
               PROVE  /\ sending'[f] = sending[f]
                      /\ sending[f].id \in Done(sending[f].dst)
    BY <1>1, ReturnsKept
  <2>1. /\ sending'[f] = sending[f]
        /\ sending[f].dst \in Endpoint /\ sending[f].id \in MsgId
    BY <1>1, <1>6 DEF TypeOK, Message
  <2>2. f # e
    <3>1. GiveUp(e) => sending'[e] = None
      BY <1>1 DEF GiveUp, TypeOK
    <3> QED
      BY <1>8, <1>10, <2>1, <3>1
  <2>3. out[f][sending[f].id] = None
    BY <1>10, <2>1, <2>2
  <2> QED
    BY <1>1, <2>1, <2>3 DEF Genuine, ReturnsJustified, Pending
<1>13. ASSUME NEW f \in Endpoint
       PROVE  ReceiverInv(f)'
  BY <1>1, <1>3, ReceiverKept, OtherGrowth DEF Genuine
<1>14. AckedDone'
  BY <1>1, <1>3, AckedKept DEF Genuine
<1> QED
  BY <1>4, <1>5, <1>7, <1>11, <1>12, <1>13, <1>14 DEF Genuine

\* send_message ends with nothing else changed, but that it may be acked.
LEMMA GenuineSendEnds ==
  ASSUME StepHyp, NEW e \in Endpoint, SendDeadline(e) \/ SendReturns(e)
  PROVE  Genuine'
<1>1. TypeOK /\ Genuine /\ Growth
  BY DEF StepHyp, TypeInv
<1>2. /\ sending' = [sending EXCEPT ![e] = None]
      /\ UNCHANGED <<net, out, sent, inb, ready, completed, popped, evicted,
                     failed>>
  BY DEF SendDeadline, SendReturns, receiverVars, historyVars
<1>3. FragmentsGenuine' /\ AcksGenuine'
  BY <1>1, <1>2, FragmentsKept, AcksKept DEF Genuine
<1>4. SendsGenuine' /\ EntriesGenuine'
  BY <1>1, <1>2 DEF Genuine, SendsGenuine, EntriesGenuine, TypeOK
<1>5. ReturnsJustified'
  <2> SUFFICES ASSUME NEW f \in Endpoint, UniqueFrom(f), sending'[f] # None,
                      out'[f][sending'[f].id] = None
               PROVE  /\ sending'[f] = sending[f]
                      /\ sending[f].id \in Done(sending[f].dst)
    BY <1>1, ReturnsKept
  <2>1. sending'[f] = sending[f]
    BY <1>1, <1>2 DEF TypeOK
  <2> QED
    BY <1>1, <1>2, <2>1 DEF Genuine, ReturnsJustified, Pending
<1>6. ASSUME NEW f \in Endpoint
      PROVE  ReceiverInv(f)'
  BY <1>1, <1>2, ReceiverKept, OtherGrowth DEF Genuine
<1>7. AckedDone'
  <2>1. CASE SendDeadline(e)
    BY <1>1, <2>1, AckedKept DEF Genuine, SendDeadline, historyVars
  <2>2. CASE SendReturns(e)
    <3>1. /\ acked' = acked \cup {sending[e]}
          /\ sending[e] \in sent /\ sending[e].src = e
          /\ UniqueFrom(e) => sending[e].id \in Done(sending[e].dst)
      BY <1>1, <2>2
         DEF SendReturns, Genuine, SendsGenuine, ReturnsJustified
    <3>2. \A m \in acked' :
             m \in sent /\ (UniqueFrom(m.src) => m.id \in Done(m.dst))
      BY <1>1, <3>1 DEF Genuine, AckedDone
    <3>3. \A m \in sent : m.dst \in Endpoint
      BY <1>1, SentTyped
    <3>4. \A m \in sent : UniqueFrom(m.src)' => UniqueFrom(m.src)
      BY <1>2, UniqueBefore
    <3> QED
      BY <1>1, <3>2, <3>3, <3>4 DEF AckedDone, Growth
  <2> QED
    BY <2>1, <2>2
<1> QED
  BY <1>3, <1>4, <1>5, <1>6, <1>7 DEF Genuine

-----------------------------------------------------------------------------
(* Datagrams arriving *)

\* The message an arriving fragment belongs to, unique for its id.
LEMMA FragmentOrigin ==
  ASSUME TypeOK, Genuine, NEW e \in Endpoint, NEW d \in net,
         Arrives(e, d, "data")
  PROVE  \E m \in sent : \E i \in Indices(m.text) :
             /\ d = FragmentOf(m, i)
             /\ m.dst = e /\ m.id = d.id /\ m.src = d.src
             /\ d.count = FragCount(m.text)
<1>1. PICK m \in sent : \E i \in Indices(m.text) : d = FragmentOf(m, i)
  BY DEF Genuine, FragmentsGenuine, Arrives
<1>2. PICK i \in Indices(m.text) : d = FragmentOf(m, i)
  BY <1>1
<1>3. /\ m.dst = e /\ m.id = d.id /\ m.src = d.src
      /\ d.count = FragCount(m.text)
  BY <1>2 DEF FragmentOf, Arrives
<1> QED
  BY <1>2, <1>3

LEMMA GenuinePollAck ==
  ASSUME StepHyp, NEW e \in Endpoint, NEW d \in net, PollAck(e, d)
  PROVE  Genuine'
<1> DEFINE o    == out[e][d.id]
           left == StillUnacked(o, d)
           less == [o EXCEPT !.unacked = left]
<1>1. /\ TypeOK /\ Genuine /\ Growth
      /\ d \in Ack /\ d.id \in MsgId /\ d.type = "ack" /\ d.dst = e
  BY DEF StepHyp, TypeInv, TypeOK, PollAck, Arrives, Fragment, Ack
<1>2. /\ net' \subseteq net /\ sent' = sent /\ acked' = acked
      /\ UNCHANGED <<sending, inb, ready, completed, popped, evicted, failed>>
  BY DEF PollAck, Without, receiverVars, historyVars
<1>3. FragmentsGenuine' /\ AcksGenuine'
  BY <1>1, <1>2, FragmentsKept, AcksKept DEF Genuine
<1>4. SendsGenuine'
  BY <1>1, <1>2 DEF Genuine, SendsGenuine
<1>5. \/ out' = out
      \/ o # None /\ out' = [out EXCEPT ![e][d.id] = None]
      \/ o # None /\ out' = [out EXCEPT ![e][d.id] = less]
  BY DEF PollAck
<1>6. o # None =>
         /\ o \in OutMsg /\ less \in OutMsg
         /\ less.message = o.message /\ less.unacked \subseteq o.unacked
  <2>1. o \in OutMsg \cup {None}
    BY <1>1 DEF TypeOK
  <2>2. left \subseteq o.unacked
    BY DEF StillUnacked
  <2> HIDE DEF left
  <2> QED
    BY <2>1, <2>2 DEF OutMsg
<1> HIDE DEF less
<1>7. /\ \A f \in Endpoint, k \in MsgId :
            f # e \/ k # d.id => out'[f][k] = out[f][k]
      /\ out'[e][d.id] = o \/ out'[e][d.id] = None
            \/ (o # None /\ out'[e][d.id] = less)
  BY <1>1, <1>5 DEF TypeOK
<1>8. EntriesGenuine'
  <2> SUFFICES ASSUME NEW f \in Endpoint, NEW k \in MsgId, out'[f][k] # None
               PROVE  /\ out'[f][k].message \in sent'
                      /\ out'[f][k].message.src = f
                      /\ out'[f][k].message.id = k
                      /\ out'[f][k].unacked
                            \subseteq Indices(out'[f][k].message.text)
    BY DEF EntriesGenuine
  <2>1. /\ out[f][k] # None
        /\ out'[f][k].message = out[f][k].message
        /\ out'[f][k].unacked \subseteq out[f][k].unacked
    BY <1>6, <1>7
  <2> QED
    BY <1>1, <1>2, <2>1 DEF Genuine, EntriesGenuine
<1>9. ReturnsJustified'
  <2> SUFFICES ASSUME NEW f \in Endpoint, UniqueFrom(f), sending[f] # None,
                      out'[f][sending[f].id] = None
               PROVE  sending[f].id \in Done(sending[f].dst)
    BY <1>1, <1>2, ReturnsKept
  <2>1. sending[f].id \in MsgId
    BY <1>1 DEF TypeOK, Message
  <2>2. CASE out[f][sending[f].id] = None
    BY <1>1, <2>2 DEF Genuine, ReturnsJustified, Pending
  <2>3. CASE f = e /\ sending[f].id = d.id
    <3>1. PICK m \in sent : /\ m.src = d.dst /\ m.dst = d.src /\ m.id = d.id
                            /\ d.id \in Done(d.src)
      BY <1>1 DEF Genuine, AcksGenuine
    <3>2. sending[f] \in sent /\ sending[f].src = f
      BY <1>1 DEF Genuine, SendsGenuine
    <3>3. m = sending[f]
      BY <1>1, <2>3, <3>1, <3>2 DEF UniqueFrom
    <3> QED
      BY <3>1, <3>3
  <2> QED
    BY <1>7, <2>1, <2>2, <2>3
<1>10. ASSUME NEW f \in Endpoint
       PROVE  ReceiverInv(f)'
  BY <1>1, <1>2, ReceiverKept, OtherGrowth DEF Genuine
<1>11. AckedDone'
  BY <1>1, <1>2, AckedKept DEF Genuine
<1> QED
  BY <1>3, <1>4, <1>8, <1>9, <1>10, <1>11 DEF Genuine

\* The parts of the invariant about senders, when their variables stay.
LEMMA SenderKept ==
  ASSUME TypeOK, Genuine, Growth, sent' = sent, acked' = acked,
         UNCHANGED <<sending, out>>
  PROVE  SendsGenuine' /\ EntriesGenuine' /\ ReturnsJustified' /\ AckedDone'
<1>1. SendsGenuine' /\ EntriesGenuine'
  BY DEF Genuine, SendsGenuine, EntriesGenuine
<1>2. ReturnsJustified'
  <2>1. \A e \in Endpoint :
           UniqueFrom(e) /\ sending'[e] # None /\ out'[e][sending'[e].id] = None =>
                /\ sending'[e] = sending[e]
                /\ sending[e].id \in Done(sending[e].dst)
    BY DEF Genuine, ReturnsJustified, Pending
  <2> QED
    BY <2>1, ReturnsKept
<1>3. AckedDone'
  BY AckedKept DEF Genuine
<1> QED
  BY <1>1, <1>2, <1>3

LEMMA GenuinePollDuplicate ==
  ASSUME StepHyp, NEW e \in Endpoint, NEW d \in net, PollDuplicate(e, d)
  PROVE  Genuine'
<1>1. /\ TypeOK /\ Genuine /\ Growth
      /\ Arrives(e, d, "data") /\ d.id \in completed[e]
  BY DEF StepHyp, TypeInv, PollDuplicate, IsDuplicate
<1>2. /\ net' \subseteq net \cup {AckOf(e, d.src, d.id, d.count)}
      /\ sent' = sent /\ acked' = acked /\ UNCHANGED <<sending, out>>
      /\ UNCHANGED <<inb, ready, completed, popped, evicted, failed>>
  BY DEF PollDuplicate, Without, senderVars, receiverVars, historyVars
<1> DEFINE a == AckOf(e, d.src, d.id, d.count)
<1>3. a.type = "ack" /\ a.src = e /\ a.dst = d.src /\ a.id = d.id
  BY DEF AckOf
<1> HIDE DEF a
<1>4. d.id \in Done(e)'
  BY <1>1, <1>2 DEF Done
<1>5. PICK m \in sent : m.dst = e /\ m.id = d.id /\ m.src = d.src
  BY <1>1, FragmentOrigin
<1>6. FragmentsGenuine'
  BY <1>1, <1>2, <1>3, FragmentsKept DEF Genuine, a
<1>7. AcksGenuine'
  <2>1. \A x \in net' : x \in net \/ x = a
    BY <1>2 DEF a
  <2>2. /\ m \in sent' /\ m.src = a.dst /\ m.dst = a.src /\ m.id = a.id
        /\ a.id \in Done(a.src)'
    BY <1>2, <1>3, <1>4, <1>5 DEF Done
  <2> QED
    BY <1>1, <2>1, <2>2, AcksKept DEF Genuine
<1>8. ASSUME NEW f \in Endpoint
      PROVE  ReceiverInv(f)'
  BY <1>1, <1>2, ReceiverKept, OtherGrowth DEF Genuine
<1> QED
  BY <1>1, <1>2, <1>6, <1>7, <1>8, SenderKept DEF Genuine

\* What storing a fragment does to the entries of e, whatever ids are used ...
LEMMA StoreSent ==
  ASSUME StepHyp, NEW e \in Endpoint, NEW d \in net,
         Arrives(e, d, "data"),
         inb' = [inb EXCEPT ![e][d.id] = Stored(e, d)], sent' = sent
  PROVE  /\ PartsSent(e)'
         /\ \E m \in sent : m.dst = e /\ m.id = d.id /\ m.src = Stored(e, d).src
         /\ inb'[e][d.id] = Stored(e, d) /\ inb'[e][d.id] # None
         /\ \A k \in MsgId : k # d.id => inb'[e][k] = inb[e][k]
         /\ \A f \in Endpoint : f # e => inb'[f] = inb[f]
<1>1. /\ TypeOK /\ Genuine /\ PartsSent(e)
      /\ d \in Fragment /\ d.id \in MsgId /\ Stored(e, d) \in InMsg
  BY StoredType DEF StepHyp, TypeInv, Genuine, ReceiverInv
<1>2. PICK m \in sent : \E i \in Indices(m.text) :
             /\ d = FragmentOf(m, i)
             /\ m.dst = e /\ m.id = d.id /\ m.src = d.src
  BY <1>1, FragmentOrigin
<1>3. d.part \in Whole(m.text)
  BY <1>2 DEF FragmentOf, Whole
<1>4. inb[e][d.id] \in InMsg \cup {None}
  BY <1>1 DEF TypeOK
<1>5. /\ Stored(e, d).src =
            IF inb[e][d.id] = None THEN d.src ELSE inb[e][d.id].src
      /\ \A p \in Stored(e, d).parts :
            p = d.part \/ (inb[e][d.id] # None /\ p \in inb[e][d.id].parts)
  BY <1>1, <1>4 DEF Stored, InMsg
<1>6. /\ \E n \in sent : n.dst = e /\ n.id = d.id /\ n.src = Stored(e, d).src
      /\ \A p \in Stored(e, d).parts : \E n \in sent :
            n.dst = e /\ n.id = d.id /\ p \in Whole(n.text)
  BY <1>1, <1>2, <1>3, <1>5 DEF PartsSent
<1>7. /\ inb'[e][d.id] = Stored(e, d) /\ inb'[e][d.id] # None
      /\ \A k \in MsgId : k # d.id => inb'[e][k] = inb[e][k]
      /\ \A f \in Endpoint : f # e => inb'[f] = inb[f]
  BY <1>1, EndpointAssumption DEF TypeOK
<1>8. PartsSent(e)'
  <2> SUFFICES ASSUME NEW k \in MsgId, inb'[e][k] # None
               PROVE  /\ \E n \in sent : /\ n.dst = e /\ n.id = k
                                        /\ n.src = inb'[e][k].src
                      /\ \A p \in inb'[e][k].parts : \E n \in sent :
                            n.dst = e /\ n.id = k /\ p \in Whole(n.text)
    BY DEF PartsSent, Whole, Indices, FragCount
  <2>1. CASE k = d.id
    BY <1>6, <1>7, <2>1
  <2>2. CASE k # d.id
    BY <1>1, <1>7, <2>2 DEF PartsSent
  <2> QED
    BY <2>1, <2>2
<1> QED
  BY <1>6, <1>7, <1>8

\* ... and if those of the messages to e are unique.
LEMMA StoreKept ==
  ASSUME StepHyp, NEW e \in Endpoint, NEW d \in net, UniqueTo(e),
         Arrives(e, d, "data"),
         inb' = [inb EXCEPT ![e][d.id] = Stored(e, d)], sent' = sent
  PROVE  /\ PartsGenuine(e)'
         /\ \E m \in sent :
               /\ m.dst = e /\ m.id = d.id
               /\ Stores(inb'[e][d.id], m)
               /\ inb[e][d.id] # None /\ StoresWhole(inb[e][d.id], m)
                     => StoresWhole(inb'[e][d.id], m)
<1>1. /\ TypeOK /\ Genuine /\ PartsGenuine(e) /\ d.id \in MsgId
  BY StoredType DEF StepHyp, TypeInv, Genuine, ReceiverInv, ReceiverGenuine
<1>2. PICK m \in sent : \E i \in Indices(m.text) :
             /\ d = FragmentOf(m, i)
             /\ m.dst = e /\ m.id = d.id /\ m.src = d.src
  BY <1>1, FragmentOrigin
<1>3. PICK i \in Indices(m.text) : d = FragmentOf(m, i)
  BY <1>2
<1>4. m \in Message
  BY <1>1, SentTyped
<1>5. inb[e][m.id] = None \/ Stores(inb[e][m.id], m)
  BY <1>1, <1>2 DEF PartsGenuine, UniqueTo
<1>6. /\ Stores(Stored(e, d), m)
      /\ inb[e][d.id] # None /\ StoresWhole(inb[e][d.id], m)
            => StoresWhole(Stored(e, d), m)
  BY <1>1, <1>2, <1>3, <1>4, <1>5, StoredGenuine
<1>7. /\ inb'[e][d.id] = Stored(e, d)
      /\ \A k \in MsgId : k # d.id => inb'[e][k] = inb[e][k]
  BY <1>1, StoreSent
<1>8. PartsGenuine(e)'
  <2> SUFFICES ASSUME NEW k \in MsgId, inb'[e][k] # None
               PROVE  \E x \in sent : x.dst = e /\ x.id = k /\ Stores(inb'[e][k], x)
    BY DEF PartsGenuine, Stores
  <2>1. CASE k = d.id
    BY <1>2, <1>6, <1>7, <2>1
  <2>2. CASE k # d.id
    BY <1>1, <1>7, <2>2 DEF PartsGenuine
  <2> QED
    BY <2>1, <2>2
<1> QED
  BY <1>2, <1>6, <1>7, <1>8

LEMMA GenuinePollPartial ==
  ASSUME StepHyp, NEW e \in Endpoint, NEW d \in net, PollPartial(e, d)
  PROVE  Genuine'
<1>1. TypeOK /\ Genuine /\ Growth /\ Arrives(e, d, "data")
  BY DEF StepHyp, TypeInv, PollPartial
<1>2. /\ net' \subseteq net /\ sent' = sent /\ acked' = acked
      /\ inb' = [inb EXCEPT ![e][d.id] = Stored(e, d)]
      /\ UNCHANGED <<sending, out, ready, completed, popped, evicted, failed>>
  BY DEF PollPartial, Without, senderVars, historyVars
<1>3. FragmentsGenuine' /\ AcksGenuine'
  BY <1>1, <1>2, FragmentsKept, AcksKept DEF Genuine
<1>4. /\ PartsSent(e)'
      /\ \A k \in MsgId : k # d.id => inb'[e][k] = inb[e][k]
      /\ \A f \in Endpoint : f # e => inb'[f] = inb[f]
      /\ inb'[e][d.id] # None
  BY <1>1, <1>2, StoreSent
<1>5. ASSUME UniqueTo(e)
      PROVE  ReceiverGenuine(e)'
  <2>1. /\ ReceiverGenuine(e)
        /\ PoppedIds(e)' = PoppedIds(e) /\ Done(e)' = Done(e)
        /\ Range(ready[e]) \subseteq MsgId
    BY <1>1, <1>2, <1>5, RangeOfSeq DEF Genuine, ReceiverInv, PoppedIds, Done, TypeOK
  <2>2. PICK m \in sent :
           /\ m.dst = e /\ m.id = d.id
           /\ inb[e][d.id] # None /\ StoresWhole(inb[e][d.id], m)
                 => StoresWhole(inb'[e][d.id], m)
    BY <1>1, <1>2, <1>5, StoreKept
  <2>3. PartsGenuine(e)'
    BY <1>1, <1>2, <1>5, StoreKept
  <2>4. QueuedWhole(e)'
    <3> SUFFICES ASSUME NEW id \in Range(ready[e]) \ PoppedIds(e)
                 PROVE  /\ inb'[e][id] # None
                        /\ \E x \in sent :
                              x.dst = e /\ x.id = id /\ StoresWhole(inb'[e][id], x)
      BY <1>2, <2>1 DEF QueuedWhole, StoresWhole, Stores
    <3>1. PICK x \in sent :
             /\ inb[e][id] # None
             /\ x.dst = e /\ x.id = id /\ StoresWhole(inb[e][id], x)
      BY <2>1 DEF ReceiverGenuine, QueuedWhole
    <3>2. CASE id = d.id
      <4>1. x = m
        BY <1>5, <2>2, <3>1, <3>2 DEF UniqueTo
      <4> QED
        BY <1>4, <2>2, <3>1, <3>2, <4>1
    <3>3. CASE id # d.id
      BY <1>4, <2>1, <3>1, <3>3
    <3> QED
      BY <3>2, <3>3
  <2>5. DoneAvailable(e)' /\ ReturnedIntact(e)'
    BY <1>2, <2>1 DEF ReceiverGenuine, DoneAvailable, ReturnedIntact, Intact
  <2> QED
    BY <1>2, <2>1, <2>3, <2>4, <2>5 DEF ReceiverGenuine
<1>6. ReceiverInv(e)'
  BY <1>2, <1>4, <1>5, UniqueBefore DEF ReceiverInv
<1>7. ASSUME NEW f \in Endpoint, f # e
      PROVE  ReceiverInv(f)'
  BY <1>1, <1>2, <1>4, <1>7, ReceiverKept, OtherGrowth DEF Genuine
<1> QED
  BY <1>1, <1>2, <1>3, <1>6, <1>7, SenderKept DEF Genuine

LEMMA GenuinePollComplete ==
  ASSUME StepHyp, NEW e \in Endpoint, NEW d \in net, PollComplete(e, d)
  PROVE  Genuine'
<1> DEFINE im == Stored(e, d)
<1>0. PICK a : a = AckOf(e, im.src, d.id, im.count)
  OBVIOUS
<1>1. /\ TypeInv /\ TypeOK /\ DedupInv /\ Genuine /\ Growth
      /\ Arrives(e, d, "data") /\ Complete(im)
  BY DEF StepHyp, TypeInv, PollComplete
<1>2. /\ net' \subseteq net \cup {a} /\ sent' = sent /\ acked' = acked
      /\ inb' = [inb EXCEPT ![e][d.id] = im]
      /\ ready' = [ready EXCEPT ![e] = Append(@, d.id)]
      /\ UNCHANGED <<sending, out, popped, failed>>
  BY <1>0 DEF PollComplete, Without, senderVars
<1>3. /\ Done(e)' = Done(e) \cup {d.id}
      /\ \A f \in Endpoint \ {e} :
            Done(f)' = Done(f) /\ evicted'[f] = evicted[f]
  BY <1>1, CompleteGrowth
<1>4. PICK n \in sent : n.dst = e /\ n.id = d.id /\ n.src = im.src
  BY <1>1, <1>2, StoreSent
<1>5. /\ PartsSent(e)'
      /\ inb'[e][d.id] = im /\ inb'[e][d.id] # None
      /\ \A k \in MsgId : k # d.id => inb'[e][k] = inb[e][k]
      /\ \A f \in Endpoint : f # e => inb'[f] = inb[f]
  BY <1>1, <1>2, StoreSent
<1>6. a.type = "ack" /\ a.src = e /\ a.dst = im.src /\ a.id = d.id
  BY <1>0 DEF AckOf
<1>7. FragmentsGenuine'
  BY <1>1, <1>2, <1>6, FragmentsKept DEF Genuine
<1>8. AcksGenuine'
  <2>1. \A x \in net' : x \in net \/ x = a
    BY <1>2
  <2>2. /\ n \in sent' /\ n.src = a.dst /\ n.dst = a.src /\ n.id = a.id
        /\ a.id \in Done(a.src)'
    BY <1>2, <1>3, <1>4, <1>6 DEF Done
  <2> QED
    BY <1>1, <2>1, <2>2, AcksKept DEF Genuine
<1>9. ASSUME UniqueTo(e)
      PROVE  ReceiverGenuine(e)'
  <2>1. /\ ReceiverGenuine(e) /\ PoppedIds(e)' = PoppedIds(e)
        /\ ready[e] \in Seq(MsgId) /\ d.id \in MsgId
        /\ ready'[e] = Append(ready[e], d.id)
    BY <1>1, <1>2, <1>9, StoredType DEF Genuine, ReceiverInv, PoppedIds, TypeOK
  <2>2. /\ Range(ready'[e]) = Range(ready[e]) \cup {d.id}
        /\ Range(ready[e]) \subseteq MsgId
    BY <2>1, AppendRange, RangeOfSeq
  <2>3. PICK m \in sent : m.dst = e /\ m.id = d.id /\ Stores(inb'[e][d.id], m)
    BY <1>1, <1>2, <1>9, StoreKept
  <2>4. StoresWhole(inb'[e][d.id], m)
    BY <1>1, <1>5, <2>3, CompleteIsWhole, SentTyped DEF StoresWhole
  <2>5. QueuedWhole(e)'
    <3> SUFFICES ASSUME NEW id \in (Range(ready[e]) \cup {d.id}) \ PoppedIds(e)
                 PROVE  /\ inb'[e][id] # None
                        /\ \E x \in sent :
                              x.dst = e /\ x.id = id /\ StoresWhole(inb'[e][id], x)
      BY <1>2, <2>1, <2>2 DEF QueuedWhole, StoresWhole, Stores
    <3>1. CASE id = d.id
      BY <1>5, <2>3, <2>4, <3>1
    <3>2. CASE id # d.id
      BY <1>5, <2>1, <2>2, <3>2 DEF ReceiverGenuine, QueuedWhole
    <3> QED
      BY <3>1, <3>2
  <2>6. DoneAvailable(e)'
    BY <1>3, <2>1, <2>2 DEF ReceiverGenuine, DoneAvailable
  <2>7. ReturnedIntact(e)'
    BY <1>2, <2>1 DEF ReceiverGenuine, ReturnedIntact, Intact
  <2>8. e \in failed' => evicted'[e] # {}
    BY <1>1, <1>2, <2>1 DEF ReceiverGenuine, Growth
  <2>9. PartsGenuine(e)'
    BY <1>1, <1>2, <1>9, StoreKept
  <2> QED
    BY <2>5, <2>6, <2>7, <2>8, <2>9 DEF ReceiverGenuine
<1>10. ReceiverInv(e)'
  BY <1>2, <1>5, <1>9, UniqueBefore DEF ReceiverInv
<1>11. ASSUME NEW f \in Endpoint, f # e
       PROVE  ReceiverInv(f)'
  <2>1. ready'[f] = ready[f]
    BY <1>1, <1>2, <1>11 DEF TypeOK
  <2> QED
    BY <1>1, <1>2, <1>3, <1>5, <1>11, <2>1, ReceiverKept DEF Genuine
<1> QED
  BY <1>1, <1>2, <1>7, <1>8, <1>10, <1>11, SenderKept DEF Genuine

-----------------------------------------------------------------------------
(* recv_message *)

\* What popping the oldest id of e does to the entries and the queues.
LEMMA PopEffect ==
  ASSUME TypeInv, NEW e \in Endpoint, PopReady(e)
  PROVE  /\ net' = net /\ sent' = sent /\ acked' = acked
         /\ ready[e] \in Seq(MsgId) /\ Head(ready[e]) \in MsgId
         /\ Range(ready[e]) = {Head(ready[e])} \cup Range(Tail(ready[e]))
         /\ Range(ready[e]) \subseteq MsgId
         /\ ready'[e] = Tail(ready[e])
         /\ inb'[e][Head(ready[e])] = None
         /\ \A k \in MsgId : k # Head(ready[e]) => inb'[e][k] = inb[e][k]
         /\ \A f \in Endpoint : f # e => inb'[f] = inb[f] /\ ready'[f] = ready[f]
         /\ UNCHANGED <<sending, out, completed, evicted>>
         /\ \A f \in Endpoint : Done(f)' = Done(f)
<1>1. /\ TypeOK /\ ready[e] \in Seq(MsgId) /\ ready[e] # <<>>
      /\ Head(ready[e]) \in MsgId
  BY HeadTailProperties DEF TypeInv, TypeOK, PopReady
<1>2. /\ inb' = [inb EXCEPT ![e][Head(ready[e])] = None]
      /\ ready' = [ready EXCEPT ![e] = Tail(@)]
      /\ net' = net /\ sent' = sent /\ acked' = acked
      /\ UNCHANGED <<sending, out, completed, evicted>>
  BY DEF PopReady, senderVars
<1>3. /\ Range(ready[e]) = {Head(ready[e])} \cup Range(Tail(ready[e]))
      /\ Range(ready[e]) \subseteq MsgId
  BY <1>1, HeadTailRange, RangeOfSeq
<1>4. /\ inb'[e][Head(ready[e])] = None
      /\ \A k \in MsgId : k # Head(ready[e]) => inb'[e][k] = inb[e][k]
      /\ \A f \in Endpoint : f # e => inb'[f] = inb[f]
  BY <1>1, <1>2 DEF TypeOK
<1>5. ready'[e] = Tail(ready[e]) /\ \A f \in Endpoint : f # e => ready'[f] = ready[f]
  BY <1>1, <1>2 DEF TypeOK
<1>6. \A f \in Endpoint : Done(f)' = Done(f)
  BY <1>2 DEF Done
<1> QED
  BY <1>1, <1>2, <1>3, <1>4, <1>5, <1>6

\* With unique ids, the message popped is intact, or its id was evicted.
LEMMA PopGenuine ==
  ASSUME StepHyp, NEW e \in Endpoint, UniqueTo(e), Recv(e) \/ RecvKeyError(e)
  PROVE  ReceiverGenuine(e)'
<1> DEFINE q  == ready[e]
           id == Head(q)
           im == inb[e][id]
<1>1. /\ TypeInv /\ TypeOK /\ DedupInv /\ Genuine /\ PopReady(e)
      /\ ReceiverGenuine(e) /\ QueueConsistent(e)
  BY DEF StepHyp, TypeInv, Recv, RecvKeyError, Genuine, ReceiverInv, DedupInv
<1>2. /\ sent' = sent /\ id \in MsgId
      /\ Range(q) = {id} \cup Range(Tail(q)) /\ Range(q) \subseteq MsgId
      /\ ready'[e] = Tail(q) /\ evicted' = evicted /\ Done(e)' = Done(e)
      /\ inb'[e][id] = None
      /\ \A k \in MsgId : k # id => inb'[e][k] = inb[e][k]
  BY <1>1, PopEffect
<1>3. PartsGenuine(e)'
  BY <1>1, <1>2 DEF ReceiverGenuine, PartsGenuine, Stores
\* The id popped now was returned, now or before.
<1>4. /\ PoppedIds(e)' = PoppedIds(e) \cup {id}
      /\ ReturnedIntact(e)'
      /\ e \in failed' => evicted[e] # {}
  <2>1. CASE Recv(e)
    <3> DEFINE p == popped[e]
               r == NextReceived(e)
    <3>1. /\ CanAssemble(im) /\ failed' = failed
          /\ popped' = [popped EXCEPT ![e] = Append(@, r)]
      BY <2>1 DEF Recv
    <3>2. im \in InMsg
      BY <1>1, <1>2, <3>1 DEF CanAssemble, TypeOK
    <3>3. PICK m \in sent : m.dst = e /\ m.id = id /\ Stores(im, m)
      BY <1>1, <1>2, <3>1 DEF ReceiverGenuine, PartsGenuine, CanAssemble
    <3>4. r = Intact(m)
      BY <1>1, <3>1, <3>2, <3>3, AssembleGenuine, SentTyped DEF NextReceived
    <3>5. r \in Received /\ r.id = id
      BY <1>2, <3>2 DEF NextReceived, ReceivedFrom, Received, InMsg
    <3>6. p \in Seq(Received) /\ popped'[e] = Append(p, r)
      BY <1>1, <3>1 DEF TypeOK
    <3> DEFINE pp == popped'[e]
    <3>7. /\ 1 .. Len(pp) = (1 .. Len(p)) \cup {Len(p) + 1}
          /\ \A i \in 1 .. Len(p) : pp[i] = p[i]
          /\ pp[Len(p) + 1] = r
      BY <3>5, <3>6, AppendIndices, LenProperties
    <3> HIDE DEF r, pp
    <3>8. PoppedIds(e)' = {pp[i].id : i \in 1 .. Len(pp)}
      BY DEF PoppedIds, pp
    <3>9. PoppedIds(e)' = PoppedIds(e) \cup {id}
      BY <3>5, <3>7, <3>8 DEF PoppedIds
    <3>10. ReturnedIntact(e)'
      <4>1. \A i \in 1 .. Len(p) : \E x \in sent : x.dst = e /\ pp[i] = Intact(x)
        BY <1>1, <3>7 DEF ReceiverGenuine, ReturnedIntact
      <4>2. \A i \in 1 .. Len(pp) : \E x \in sent : x.dst = e /\ pp[i] = Intact(x)
        BY <3>3, <3>4, <3>7, <4>1
      <4> QED
        BY <1>2, <4>2 DEF ReturnedIntact, Intact, pp
    <3> QED
      BY <1>1, <3>1, <3>9, <3>10 DEF ReceiverGenuine
  <2>2. CASE RecvKeyError(e)
    <3>1. /\ ~CanAssemble(im) /\ failed' = failed \cup {e} /\ popped' = popped
      BY <2>2 DEF RecvKeyError
    <3>2. id \in PoppedIds(e)
      <4> SUFFICES ASSUME id \notin PoppedIds(e)
                   PROVE  FALSE
        OBVIOUS
      <4>1. PICK m \in sent :
               /\ im # None
               /\ m.dst = e /\ m.id = id /\ StoresWhole(im, m)
        BY <1>1, <1>2 DEF ReceiverGenuine, QueuedWhole
      <4>2. im \in InMsg
        BY <1>1, <1>2, <4>1 DEF TypeOK
      <4> QED
        BY <1>1, <3>1, <4>1, <4>2, AssembleGenuine, SentTyped DEF StoresWhole
    <3>3. id \in evicted[e]
      BY <1>1, <1>2, <3>2 DEF QueueConsistent
    <3>4. PoppedIds(e)' = PoppedIds(e)
      BY <3>1 DEF PoppedIds
    <3>5. ReturnedIntact(e)'
      BY <1>1, <1>2, <3>1 DEF ReceiverGenuine, ReturnedIntact, Intact
    <3> QED
      BY <3>2, <3>3, <3>4, <3>5
  <2> QED
    BY <2>1, <2>2
<1>5. QueuedWhole(e)'
  <2> SUFFICES ASSUME NEW k \in Range(Tail(q)) \ (PoppedIds(e) \cup {id})
               PROVE  /\ inb'[e][k] # None
                      /\ \E x \in sent :
                            x.dst = e /\ x.id = k /\ StoresWhole(inb'[e][k], x)
    BY <1>2, <1>4 DEF QueuedWhole, StoresWhole, Stores
  <2>1. inb'[e][k] = inb[e][k] /\ k \in Range(q) \ PoppedIds(e)
    BY <1>2
  <2> QED
    BY <1>1, <2>1 DEF ReceiverGenuine, QueuedWhole
<1>6. DoneAvailable(e)'
  BY <1>1, <1>2, <1>4 DEF ReceiverGenuine, DoneAvailable
<1> QED
  BY <1>2, <1>3, <1>4, <1>5, <1>6 DEF ReceiverGenuine

LEMMA GenuinePop ==
  ASSUME StepHyp, NEW e \in Endpoint, Recv(e) \/ RecvKeyError(e)
  PROVE  Genuine'
<1>1. TypeInv /\ TypeOK /\ Genuine /\ Growth /\ PopReady(e) /\ PartsSent(e)
  BY DEF StepHyp, TypeInv, Recv, RecvKeyError, Genuine, ReceiverInv
<1>2. /\ net' = net /\ sent' = sent /\ acked' = acked
      /\ inb'[e][Head(ready[e])] = None
      /\ \A k \in MsgId : k # Head(ready[e]) => inb'[e][k] = inb[e][k]
      /\ \A f \in Endpoint : f # e => inb'[f] = inb[f] /\ ready'[f] = ready[f]
      /\ UNCHANGED <<sending, out, completed, evicted>>
      /\ \A f \in Endpoint : Done(f)' = Done(f)
  BY <1>1, PopEffect
<1>3. FragmentsGenuine' /\ AcksGenuine'
  BY <1>1, <1>2, FragmentsKept, AcksKept DEF Genuine
<1>4. PartsSent(e)'
  BY <1>1, <1>2 DEF PartsSent, Whole, Indices, FragCount
<1>5. ReceiverInv(e)'
  BY <1>2, <1>4, PopGenuine, UniqueBefore DEF ReceiverInv
<1>6. ASSUME NEW f \in Endpoint, f # e
      PROVE  ReceiverInv(f)'
  <2>1. popped'[f] = popped[f] /\ (f \in failed' => f \in failed)
    BY <1>1, <1>6 DEF Recv, RecvKeyError, TypeOK
  <2>2. /\ ReceiverInv(f) /\ inb'[f] = inb[f] /\ ready'[f] = ready[f]
        /\ Done(f)' = Done(f) /\ PoppedIds(f)' = PoppedIds(f)
    BY <1>1, <1>2, <1>6, <2>1 DEF Genuine, PoppedIds
  <2>3. PartsSent(f)'
    BY <1>2, <2>2 DEF ReceiverInv, PartsSent, Whole, Indices, FragCount
  <2>4. ASSUME ReceiverGenuine(f)
        PROVE  ReceiverGenuine(f)'
    <3>1. PartsGenuine(f)' /\ QueuedWhole(f)'
      BY <1>2, <2>2, <2>4
         DEF ReceiverGenuine, PartsGenuine, QueuedWhole, StoresWhole, Stores
    <3>2. DoneAvailable(f)' /\ ReturnedIntact(f)'
      BY <1>2, <2>1, <2>2, <2>4
         DEF ReceiverGenuine, DoneAvailable, ReturnedIntact, Intact
    <3> QED
      BY <1>2, <2>1, <2>4, <3>1, <3>2 DEF ReceiverGenuine
  <2> QED
    BY <1>2, <2>2, <2>3, <2>4, UniqueBefore DEF ReceiverInv
<1> QED
  BY <1>1, <1>2, <1>3, <1>5, <1>6, SenderKept DEF Genuine

-----------------------------------------------------------------------------
(* The theorems *)

LEMMA GenuineOther ==
  ASSUME StepHyp, (\E d \in net : Lose(d)) \/ UNCHANGED endpointVars
  PROVE  Genuine'
<1>1. TypeOK /\ Genuine /\ Growth
  BY DEF StepHyp, TypeInv
<1>2. /\ net' \subseteq net /\ sent' = sent /\ acked' = acked
      /\ UNCHANGED <<sending, out>>
      /\ UNCHANGED <<inb, ready, completed, popped, evicted, failed>>
  BY DEF Lose, endpointVars, senderVars, receiverVars, historyVars
<1>3. FragmentsGenuine' /\ AcksGenuine'
  BY <1>1, <1>2, FragmentsKept, AcksKept DEF Genuine
<1>4. ASSUME NEW f \in Endpoint
      PROVE  ReceiverInv(f)'
  BY <1>1, <1>2, ReceiverKept, OtherGrowth DEF Genuine
<1> QED
  BY <1>1, <1>2, <1>3, <1>4, SenderKept DEF Genuine

LEMMA GrowthStep ==
  ASSUME TypeInv, DedupInv, [Next]_endpointVars
  PROVE  Growth
<1> DEFINE frame == UNCHANGED <<completed, evicted>> /\ sent \subseteq sent'
<1>1. ASSUME NEW m \in Message, Send(m)
      PROVE  frame
  BY <1>1 DEF Send, receiverVars
<1>2. ASSUME NEW e \in Endpoint, Retransmit(e) \/ GiveUp(e)
      PROVE  frame
  BY <1>2 DEF Retransmit, GiveUp, receiverVars, historyVars
<1>3. ASSUME NEW e \in Endpoint, SendDeadline(e) \/ SendReturns(e)
      PROVE  frame
  BY <1>3 DEF SendDeadline, SendReturns, receiverVars, historyVars
<1>4. ASSUME NEW e \in Endpoint, NEW d \in net,
             PollAck(e, d) \/ PollDuplicate(e, d) \/ PollPartial(e, d)
      PROVE  frame
  BY <1>4 DEF PollAck, PollDuplicate, PollPartial, receiverVars, historyVars
<1>5. ASSUME NEW e \in Endpoint, Recv(e) \/ RecvKeyError(e)
      PROVE  frame
  BY <1>5 DEF Recv, RecvKeyError, PopReady
<1>6. ASSUME (\E d \in net : Lose(d)) \/ UNCHANGED endpointVars
      PROVE  frame
  BY <1>6 DEF Lose, endpointVars, receiverVars, historyVars
<1> QED
  BY <1>1, <1>2, <1>3, <1>4, <1>5, <1>6, OtherGrowth, CompleteGrowth
     DEF Next, Step, Poll

LEMMA GenuineStep ==
  ASSUME TypeInv, TypeInv', DedupInv, DedupInv', Genuine, [Next]_endpointVars
  PROVE  Genuine'
<1>1. StepHyp
  BY GrowthStep DEF StepHyp
<1> QED
  BY <1>1, GenuineSend, GenuineRound, GenuineSendEnds, GenuinePollAck,
     GenuinePollDuplicate, GenuinePollPartial, GenuinePollComplete, GenuinePop,
     GenuineOther
     DEF Next, Step, Poll

LEMMA GenuineInit == Init => Genuine
<1> SUFFICES ASSUME Init
             PROVE  Genuine
  OBVIOUS
<1>1. /\ FragmentsGenuine /\ AcksGenuine /\ SendsGenuine /\ EntriesGenuine
      /\ ReturnsJustified /\ AckedDone
  BY DEF Init, FragmentsGenuine, AcksGenuine, SendsGenuine, EntriesGenuine,
         ReturnsJustified, AckedDone
<1>2. ASSUME NEW e \in Endpoint
      PROVE  ReceiverInv(e)
  <2>1. /\ completed[e] = {} /\ evicted[e] = {} /\ ready[e] = <<>>
        /\ popped[e] = <<>> /\ failed = {}
        /\ \A id \in MsgId : inb[e][id] = None
    BY DEF Init
  <2>2. Range(ready[e]) = {} /\ 1 .. Len(popped[e]) = {}
    BY <2>1 DEF Range
  <2> QED
    BY <2>1, <2>2 DEF ReceiverInv, PartsSent, ReceiverGenuine, PartsGenuine,
                      QueuedWhole, DoneAvailable, ReturnedIntact, Done
<1> QED
  BY <1>1, <1>2 DEF Genuine

LEMMA UniqueEverywhere ==
  ASSUME IdsUnique, NEW e
  PROVE  UniqueFrom(e) /\ UniqueTo(e)
BY DEF IdsUnique, UniqueFrom, UniqueTo

\* The invariant holds whatever ids the callers of send_message use.
THEOREM TransportGenuine == Spec => [](TypeInv /\ DedupInv /\ Genuine)
BY TypeInit, TypeStep, DedupInit, DedupStep, GenuineInit, GenuineStep, PTL DEF Spec

\* With unique ids, recv_message returns messages that were sent to this
\* endpoint, whole and not mixed with any other.
THEOREM DeliveredIntact == Spec => []MessageIntegrity
<1>1. Genuine => MessageIntegrity
  BY UniqueEverywhere
     DEF Genuine, ReceiverInv, ReceiverGenuine, ReturnedIntact, MessageIntegrity
<1> QED
  BY <1>1, TransportGenuine, PTL

\* With unique ids, a send_message that returned was delivered in full.
THEOREM AckedDelivered == Spec => []AckedMeansDelivered
<1>1. TypeInv /\ Genuine => AckedMeansDelivered
  <2> SUFFICES ASSUME TypeInv, Genuine, IdsUnique, NEW m \in acked
               PROVE  \/ m.id \in Range(ready[m.dst])
                      \/ Intact(m) \in Range(popped[m.dst])
    BY DEF AckedMeansDelivered
  <2> DEFINE e == m.dst
  <2>1. TypeOK /\ m \in sent /\ m.id \in Done(e)
    BY UniqueEverywhere DEF TypeInv, Genuine, AckedDone
  <2>2. e \in Endpoint /\ ReceiverGenuine(e)
    BY <2>1, UniqueEverywhere, SentTyped DEF Genuine, ReceiverInv
  <2>3. CASE m.id \in PoppedIds(e)
    <3>1. PICK i \in 1 .. Len(popped[e]) : popped[e][i].id = m.id
      BY <2>3 DEF PoppedIds
    <3>2. PICK n \in sent : n.dst = e /\ popped[e][i] = Intact(n)
      BY <2>2, <3>1 DEF ReceiverGenuine, ReturnedIntact
    <3>3. n = m
      BY <2>1, <3>1, <3>2 DEF IdsUnique, Intact
    <3>4. DOMAIN popped[e] = 1 .. Len(popped[e])
      BY <2>1, <2>2, LenProperties DEF TypeOK
    <3> QED
      BY <3>2, <3>3, <3>4 DEF Range
  <2> QED
    BY <2>1, <2>2, <2>3 DEF ReceiverGenuine, DoneAvailable
<1> QED
  BY <1>1, TransportGenuine, PTL

\* With unique ids, recv_message raises KeyError only at an endpoint whose
\* duplicate cache has dropped an id.
THEOREM NoKeyErrorBeforeEviction == Spec => []NoKeyError
<1>1. TypeInv /\ Genuine => NoKeyError
  BY UniqueEverywhere
     DEF TypeInv, TypeOK, Genuine, ReceiverInv, ReceiverGenuine, NoKeyError
<1> QED
  BY <1>1, TransportGenuine, PTL
=============================================================================
