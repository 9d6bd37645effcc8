-------------------------- MODULE ShmSessionProofs --------------------------
(***************************************************************************)
(* What a shared-memory session keeps whatever times out, on either        *)
(* platform and for every size of the rings and the pool: its types, and   *)
(* on Linux the agreement of each eventfd with its ring.                   *)
(*                                                                         *)
(* The inductive invariant is SessionInv.  Types are not inductive alone:  *)
(* that a descriptor read lies in the pool needs every slot to hold one    *)
(* (RingsOK), and that a call finds its ring idle needs the program        *)
(* counters of both processes to agree with those of the rings (Control).  *)
(* RequestsCounted and ResponsesCounted relate the cursors to the turns,   *)
(* which is what keeps seq_no, read from a slot given back, a number.      *)
(***************************************************************************)
EXTENDS ShmSession, SequenceTheorems, TLAPS

(***************************************************************************)
(* The rings of Windows, by themselves.                                    *)
(*                                                                         *)
(* A ring of the shared region is a bounded first-in first-out queue, for  *)
(* every capacity and any set of items: Spec of ShmRing implements Spec of *)
(* BoundedFifo, the queue being the unread descriptors.                    *)
(*                                                                         *)
(* The inductive invariant RingInv is what makes two processes safe        *)
(* without a lock: at most Capacity descriptors are unread, the producer   *)
(* past its wait has a slot of its own, the consumer's cached tail is the  *)
(* tail, and the descriptor it has read is still in its slot.              *)
(***************************************************************************)

UnreadItem(r, i) == slot[r][SlotOf(tail[r] + i - 1)]

ProducerOK ==
    \A r \in Ring :
        /\ ppc[r] \in {"waiting", "written"} => item[r] \in Item
        /\ ppc[r] = "written" =>
              /\ head[r] - tail[r] < Capacity
              /\ slot[r][SlotOf(head[r])] = item[r]

ConsumerOK ==
    \A r \in Ring :
        /\ cpc[r] \in {"polling", "read"} => localTail[r] = tail[r]
        /\ cpc[r] = "read" =>
              /\ head[r] > tail[r]
              /\ got[r] = slot[r][SlotOf(tail[r])]

RingInv == RingTypeOK /\ CursorsInBounds /\ ProducerOK /\ ConsumerOK

-----------------------------------------------------------------------------
(* Arithmetic of the slots *)

LEMMA DivMod ==
    ASSUME NEW i \in Nat, NEW C \in Nat \ {0}
    PROVE  /\ i \div C \in Nat
           /\ i % C \in 0 .. C - 1
           /\ i = C * (i \div C) + (i % C)
BY SMT

\* Two positions less than Capacity apart have different slots.
LEMMA ModDistinct ==
    ASSUME NEW i \in Nat, NEW j \in Nat, NEW C \in Nat \ {0},
           i < j, j - i < C
    PROVE  i % C # j % C
<1> SUFFICES ASSUME i % C = j % C PROVE FALSE
    OBVIOUS
<1> DEFINE p == i \div C
           q == j \div C
<1>1. p \in Nat /\ q \in Nat /\ i = C * p + (i % C) /\ j = C * q + (j % C)
    BY DivMod
<1>2. j - i = C * q - C * p
    BY <1>1, DivMod
<1> HIDE DEF p, q
<1>3. CASE q <= p
    <2>1. C * q <= C * p
        BY <1>1, <1>3
    <2> QED
        BY <2>1, <1>1, <1>2
<1>4. CASE q >= p + 1
    <2>1. C * q >= C * (p + 1)
        BY <1>1, <1>4
    <2>2. C * (p + 1) = C * p + C
        BY <1>1
    <2> QED
        BY <2>1, <2>2, <1>1, <1>2
<1> QED
    BY <1>1, <1>3, <1>4

LEMMA SlotInRange ==
    ASSUME NEW i \in Nat
    PROVE  SlotOf(i) \in 0 .. Capacity - 1
BY DivMod, RingAssumption DEF SlotOf

-----------------------------------------------------------------------------
(* The invariant *)

LEMMA InitInv == Init => RingInv
BY RingAssumption
   DEF Init, RingInv, RingTypeOK, CursorsInBounds, ProducerOK, ConsumerOK

\* Filling in the slot at the head disturbs no unread descriptor.
LEMMA WriteKeepsUnread ==
    ASSUME RingTypeOK, CursorsInBounds, NEW r \in Ring, WriteDescriptor(r),
           NEW s \in Ring, NEW i \in 1 .. head[s] - tail[s]
    PROVE  slot'[s][SlotOf(tail[s] + i - 1)] = slot[s][SlotOf(tail[s] + i - 1)]
<1>1. /\ head[s] \in Nat /\ tail[s] \in Nat /\ tail[s] <= head[s]
      /\ head[s] - tail[s] <= Capacity /\ Capacity \in Nat \ {0}
    BY RingAssumption DEF RingTypeOK, CursorsInBounds
<1>2. CASE s # r
    BY <1>2 DEF WriteDescriptor, RingTypeOK
<1>3. CASE s = r
    <2>1. head[s] - tail[s] < Capacity
        BY <1>1, <1>3 DEF WriteDescriptor, RingFull
    <2> DEFINE k == tail[s] + i - 1
    <2>2. k \in Nat /\ k < head[s] /\ head[s] - k < Capacity
        BY <1>1, <2>1
    <2>3. SlotOf(k) # SlotOf(head[s])
        BY <2>2, <1>1, ModDistinct DEF SlotOf
    <2>4. SlotOf(k) \in 0 .. Capacity - 1
        BY <2>2, SlotInRange
    <2> HIDE DEF k
    <2>5. slot[s] \in [0 .. Capacity - 1 -> Item \cup {None}]
        BY DEF RingTypeOK
    <2>6. slot' = [slot EXCEPT ![s][SlotOf(head[s])] = item[s]]
        BY <1>3 DEF WriteDescriptor
    <2>7. slot'[s] = [slot[s] EXCEPT ![SlotOf(head[s])] = item[s]]
        BY <2>6 DEF RingTypeOK
    <2>8. slot'[s][SlotOf(k)] = slot[s][SlotOf(k)]
        BY <2>3, <2>4, <2>5, <2>7
    <2> QED
        BY <2>8 DEF k
<1> QED
    BY <1>2, <1>3

LEMMA NextInv == RingInv /\ [Next]_ringVars => RingInv'
<1> SUFFICES ASSUME RingInv, [Next]_ringVars
             PROVE  RingInv'
    OBVIOUS
<1> USE RingAssumption
<1>0. RingTypeOK /\ CursorsInBounds /\ ProducerOK /\ ConsumerOK
    BY DEF RingInv
<1>t. \A r \in Ring :
         /\ head[r] \in Nat /\ tail[r] \in Nat /\ localTail[r] \in Nat
         /\ slot[r] \in [0 .. Capacity - 1 -> Item \cup {None}]
         /\ item[r] \in Item \cup {None} /\ got[r] \in Item \cup {None}
         /\ delivered[r] \in Seq(Item \cup {None})
    BY <1>0 DEF RingTypeOK
<1>1. ASSUME NEW r \in Ring, NEW x \in Item, EnqueueCall(r, x)
      PROVE  RingInv'
    BY <1>0, <1>1 DEF RingInv, RingTypeOK, CursorsInBounds, ProducerOK, ConsumerOK,
                      EnqueueCall, consumerVars
<1>2. ASSUME NEW r \in Ring, WriteDescriptor(r)
      PROVE  RingInv'
    <2>1. SlotOf(head[r]) \in 0 .. Capacity - 1
        BY <1>t, SlotInRange
    <2>2. RingTypeOK'
        BY <1>0, <1>2, <2>1 DEF RingTypeOK, WriteDescriptor, consumerVars
    <2>3. CursorsInBounds'
        BY <1>0, <1>2 DEF CursorsInBounds, WriteDescriptor, consumerVars
    <2>4. slot'[r][SlotOf(head[r])] = item[r]
        BY <1>0, <1>2, <2>1 DEF RingTypeOK, WriteDescriptor
    <2>5. ProducerOK'
        BY <1>0, <1>2, <1>t, <2>4
           DEF RingTypeOK, CursorsInBounds, ProducerOK, WriteDescriptor, RingFull,
               consumerVars
    <2>6. ASSUME NEW s \in Ring, cpc[s] = "read"
          PROVE  slot'[s][SlotOf(tail[s])] = slot[s][SlotOf(tail[s])]
        <3>1. 1 \in 1 .. head[s] - tail[s] /\ tail[s] + 1 - 1 = tail[s]
            BY <1>0, <1>t, <2>6 DEF ConsumerOK
        <3> QED
            BY <3>1, <1>0, <1>2, WriteKeepsUnread
    <2>7. ConsumerOK'
        BY <1>0, <1>2, <2>6 DEF ConsumerOK, WriteDescriptor, consumerVars
    <2> QED
        BY <2>2, <2>3, <2>5, <2>7 DEF RingInv
<1>3. ASSUME NEW r \in Ring, Publish(r)
      PROVE  RingInv'
    <2>1. RingTypeOK'
        BY <1>0, <1>3 DEF RingTypeOK, Publish, consumerVars
    <2>2. CursorsInBounds' /\ ProducerOK'
        BY <1>0, <1>3, <1>t
           DEF RingTypeOK, CursorsInBounds, ProducerOK, Publish, consumerVars
    <2>3. ConsumerOK'
        BY <1>0, <1>3, <1>t
           DEF RingTypeOK, ConsumerOK, Publish, consumerVars
    <2> QED
        BY <2>1, <2>2, <2>3 DEF RingInv
<1>4. ASSUME NEW r \in Ring, EnqueueReturn(r)
      PROVE  RingInv'
    BY <1>0, <1>4 DEF RingInv, RingTypeOK, CursorsInBounds, ProducerOK, ConsumerOK,
                      EnqueueReturn, consumerVars
<1>5. ASSUME NEW r \in Ring, DequeueCall(r)
      PROVE  RingInv'
    BY <1>0, <1>5 DEF RingInv, RingTypeOK, CursorsInBounds, ProducerOK, ConsumerOK,
                      DequeueCall, producerVars
<1>6. ASSUME NEW r \in Ring, DequeueTimeout(r)
      PROVE  RingInv'
    BY <1>0, <1>6 DEF RingInv, RingTypeOK, CursorsInBounds, ProducerOK, ConsumerOK,
                      DequeueTimeout, producerVars
<1>7. ASSUME NEW r \in Ring, ReadDescriptor(r)
      PROVE  RingInv'
    <2>1. localTail[r] = tail[r] /\ SlotOf(tail[r]) \in 0 .. Capacity - 1
        BY <1>0, <1>7, <1>t, SlotInRange DEF ConsumerOK, ReadDescriptor
    <2>2. RingTypeOK'
        BY <1>0, <1>7, <2>1 DEF RingTypeOK, ReadDescriptor, producerVars
    <2>3. CursorsInBounds' /\ ProducerOK'
        BY <1>0, <1>7 DEF CursorsInBounds, ProducerOK, ReadDescriptor, producerVars
    <2>4. ConsumerOK'
        BY <1>0, <1>7, <2>1
           DEF RingTypeOK, ConsumerOK, ReadDescriptor, Available, producerVars
    <2> QED
        BY <2>2, <2>3, <2>4 DEF RingInv
<1>8. ASSUME NEW r \in Ring, Release(r)
      PROVE  RingInv'
    <2>1. localTail[r] = tail[r] /\ head[r] > tail[r]
        BY <1>0, <1>8 DEF ConsumerOK, Release
    <2>2. tail' = [tail EXCEPT ![r] = tail[r] + 1]
        BY <1>8, <2>1 DEF Release
    <2>3. RingTypeOK'
        BY <1>0, <1>8, <1>t, <2>2
           DEF RingTypeOK, Release, producerVars
    <2>4. CursorsInBounds' /\ ProducerOK'
        BY <1>0, <1>8, <1>t, <2>1, <2>2
           DEF RingTypeOK, CursorsInBounds, ProducerOK, Release, producerVars
    <2>5. ConsumerOK'
        BY <1>0, <1>8, <2>2 DEF RingTypeOK, ConsumerOK, Release, producerVars
    <2> QED
        BY <2>3, <2>4, <2>5 DEF RingInv
<1>9. ASSUME NEW r \in Ring, DequeueReturn(r)
      PROVE  RingInv'
    BY <1>0, <1>9 DEF RingInv, RingTypeOK, CursorsInBounds, ProducerOK, ConsumerOK,
                      DequeueReturn, producerVars
<1>10. CASE UNCHANGED ringVars
    BY <1>0, <1>10 DEF RingInv, RingTypeOK, CursorsInBounds, ProducerOK, ConsumerOK,
                       ringVars, producerVars, consumerVars
<1> QED
    BY <1>1, <1>2, <1>3, <1>4, <1>5, <1>6, <1>7, <1>8, <1>9, <1>10
       DEF Next, ProducerStep, ConsumerStep

\* Type correctness of the rings, for every capacity.
THEOREM RingTypeCorrect == Spec => []RingTypeOK
<1>1. Spec => []RingInv
    BY InitInv, NextInv, PTL DEF Spec
<1>2. RingInv => RingTypeOK
    BY DEF RingInv
<1> QED
    BY <1>1, <1>2, PTL

\* No cursor overtakes the other: at most Capacity descriptors are unread.
THEOREM CursorsCorrect == Spec => []CursorsInBounds
<1>1. Spec => []RingInv
    BY InitInv, NextInv, PTL DEF Spec
<1>2. RingInv => CursorsInBounds
    BY DEF RingInv
<1> QED
    BY <1>1, <1>2, PTL
-----------------------------------------------------------------------------
(* The refinement *)

LEMMA UnreadSeq ==
    ASSUME RingInv, NEW r \in Ring
    PROVE  /\ Unread[r] \in Seq(Item \cup {None})
           /\ Len(Unread[r]) = head[r] - tail[r]
           /\ \A i \in 1 .. head[r] - tail[r] : Unread[r][i] = UnreadItem(r, i)
<1>1. /\ head[r] \in Nat /\ tail[r] \in Nat /\ head[r] - tail[r] \in Nat
      /\ slot[r] \in [0 .. Capacity - 1 -> Item \cup {None}]
    BY DEF RingInv, RingTypeOK, CursorsInBounds
<1>2. \A i \in 1 .. head[r] - tail[r] :
         slot[r][SlotOf(tail[r] + i - 1)] \in Item \cup {None}
    <2> TAKE i \in 1 .. head[r] - tail[r]
    <2>1. tail[r] + i - 1 \in Nat
        BY <1>1
    <2>2. SlotOf(tail[r] + i - 1) \in 0 .. Capacity - 1
        BY <2>1, SlotInRange
    <2> QED
        BY <1>1, <2>2
<1>3. Unread[r] =
         [i \in 1 .. head[r] - tail[r] |-> slot[r][SlotOf(tail[r] + i - 1)]]
    BY DEF Unread
<1> QED
    BY <1>1, <1>2, <1>3 DEF UnreadItem

LEMMA InitFifo == Init => Fifo!Init
<1> SUFFICES ASSUME Init
             PROVE  Fifo!Init
    OBVIOUS
<1>1. \A r \in Ring : head[r] = 0 /\ tail[r] = 0
    BY DEF Init
<1>2. ASSUME NEW r \in Ring
      PROVE  Unread[r] = <<>>
    <2>1. 1 .. head[r] - tail[r] = {}
        BY <1>1
    <2> QED
        BY <2>1 DEF Unread
<1>3. Unread = [r \in Ring |-> <<>>]
    BY <1>2 DEF Unread
<1> QED
    BY <1>3 DEF Init, Fifo!Init

\* A step that leaves the cursors and the unread descriptors alone.
LEMMA StutterFifo ==
    ASSUME RingInv, UNCHANGED <<head, tail, delivered>>,
           \A r \in Ring : \A i \in 1 .. head[r] - tail[r] :
              slot'[r][SlotOf(tail[r] + i - 1)] = slot[r][SlotOf(tail[r] + i - 1)]
    PROVE  UNCHANGED Fifo!fifoVars
<1>1. ASSUME NEW r \in Ring
      PROVE  [i \in 1 .. head'[r] - tail'[r] |->
                 slot'[r][SlotOf(tail'[r] + i - 1)]]
             = [i \in 1 .. head[r] - tail[r] |->
                 slot[r][SlotOf(tail[r] + i - 1)]]
    OBVIOUS
<1>2. Unread' = Unread
    BY <1>1 DEF Unread, SlotOf
<1> QED
    BY <1>2 DEF Fifo!fifoVars

\* Advancing the head appends the producer's item to the queue.
LEMMA PublishIsPut ==
    ASSUME RingInv, RingInv', NEW r \in Ring, Publish(r)
    PROVE  Fifo!Put(r, item[r]) /\ item[r] \in Item
<1>1. /\ head[r] \in Nat /\ tail[r] \in Nat /\ head[r] - tail[r] < Capacity
      /\ head[r] - tail[r] \in Nat
      /\ slot[r][SlotOf(head[r])] = item[r] /\ item[r] \in Item
    BY DEF RingInv, RingTypeOK, CursorsInBounds, ProducerOK, Publish
<1>2. /\ head'[r] = head[r] + 1 /\ slot' = slot /\ tail' = tail
      /\ delivered' = delivered
      /\ \A s \in Ring \ {r} : head'[s] = head[s]
    BY DEF Publish, RingInv, RingTypeOK, consumerVars
<1>3. /\ Unread[r] \in Seq(Item \cup {None})
      /\ Len(Unread[r]) = head[r] - tail[r]
      /\ \A i \in 1 .. head[r] - tail[r] : Unread[r][i] = UnreadItem(r, i)
    BY UnreadSeq
<1>4. Unread'[r] = [i \in 1 .. head[r] + 1 - tail[r] |-> UnreadItem(r, i)]
    <2>1. Unread'[r] = [i \in 1 .. head'[r] - tail'[r] |->
                           slot'[r][SlotOf(tail'[r] + i - 1)]]
        BY DEF Unread, SlotOf
    <2>2. /\ head'[r] = head[r] + 1 /\ tail'[r] = tail[r] /\ slot'[r] = slot[r]
        BY <1>2
    <2>3. 1 .. head'[r] - tail'[r] = 1 .. head[r] + 1 - tail[r]
        BY <1>1, <2>2
    <2>4. \A i : slot'[r][SlotOf(tail'[r] + i - 1)]
                   = slot[r][SlotOf(tail[r] + i - 1)]
        BY <2>2
    <2> QED
        BY <2>1, <2>3, <2>4 DEF UnreadItem
<1>5. Append(Unread[r], item[r]) = Unread'[r]
    <2> DEFINE q == Append(Unread[r], item[r])
               n == head[r] - tail[r]
    <2>1. q = [i \in 1 .. n + 1 |-> IF i = n + 1 THEN item[r] ELSE Unread[r][i]]
        BY <1>1, <1>3
    <2>2. \A i \in 1 .. n + 1 : q[i] = UnreadItem(r, i)
        <3> TAKE i \in 1 .. n + 1
        <3>1. CASE i = n + 1
            <4>1. tail[r] + i - 1 = head[r]
                BY <1>1, <3>1
            <4> QED
                BY <1>1, <2>1, <3>1, <4>1 DEF UnreadItem
        <3>2. CASE i # n + 1
            <4>1. i \in 1 .. n
                BY <1>1, <3>2
            <4> QED
                BY <1>3, <2>1, <3>2, <4>1
        <3> QED
            BY <3>1, <3>2
    <2>3. head[r] + 1 - tail[r] = n + 1
        BY <1>1
    <2> HIDE DEF n
    <2>4. Unread'[r] = [i \in 1 .. n + 1 |-> UnreadItem(r, i)]
        BY <1>4, <2>3
    <2> QED
        BY <2>1, <2>2, <2>4
<1>6. \A s \in Ring \ {r} : Unread'[s] = Unread[s]
    BY <1>2 DEF Unread, SlotOf
<1>7. Unread' = [Unread EXCEPT ![r] = Append(@, item[r])]
    BY <1>5, <1>6 DEF Unread
<1> QED
    BY <1>1, <1>2, <1>3, <1>7 DEF Fifo!Put

\* Advancing the tail takes the first item of the queue, which is the one read.
LEMMA ReleaseIsTake ==
    ASSUME RingInv, RingInv', NEW r \in Ring, Release(r)
    PROVE  Fifo!Take(r)
<1>1. /\ head[r] \in Nat /\ tail[r] \in Nat /\ head[r] > tail[r]
      /\ localTail[r] = tail[r] /\ got[r] = slot[r][SlotOf(tail[r])]
    BY DEF RingInv, RingTypeOK, CursorsInBounds, ConsumerOK, Release
<1>2. /\ tail'[r] = tail[r] + 1 /\ slot' = slot /\ head' = head
      /\ delivered' = [delivered EXCEPT ![r] = Append(@, got[r])]
      /\ \A s \in Ring \ {r} : tail'[s] = tail[s]
    BY <1>1 DEF Release, RingInv, RingTypeOK, producerVars
<1>3. /\ Unread[r] \in Seq(Item \cup {None})
      /\ Len(Unread[r]) = head[r] - tail[r]
      /\ \A i \in 1 .. head[r] - tail[r] : Unread[r][i] = UnreadItem(r, i)
    BY UnreadSeq
<1>4. Unread[r] # <<>>
    BY <1>1, <1>3
<1>5. Head(Unread[r]) = got[r]
    <2>1. 1 \in 1 .. head[r] - tail[r] /\ tail[r] + 1 - 1 = tail[r]
        BY <1>1
    <2>2. Unread[r][1] = UnreadItem(r, 1)
        BY <1>3, <2>1
    <2> QED
        BY <1>1, <1>3, <1>4, <2>1, <2>2 DEF UnreadItem
<1>6. Unread'[r] = [i \in 1 .. head[r] - (tail[r] + 1) |->
                       slot[r][SlotOf(tail[r] + 1 + i - 1)]]
    BY <1>2 DEF Unread, SlotOf
<1>7. Tail(Unread[r]) = Unread'[r]
    <2> DEFINE n == head[r] - (tail[r] + 1)
    <2>1. n \in Nat /\ Len(Unread[r]) - 1 = n
        BY <1>1, <1>3
    <2>2. Tail(Unread[r]) = [i \in 1 .. n |-> Unread[r][i + 1]]
        BY <1>3, <1>4, <2>1
    <2>3. \A i \in 1 .. n :
             Unread[r][i + 1] = slot[r][SlotOf(tail[r] + 1 + i - 1)]
        <3> TAKE i \in 1 .. n
        <3>1. /\ i + 1 \in 1 .. head[r] - tail[r]
              /\ tail[r] + (i + 1) - 1 = tail[r] + 1 + i - 1
            BY <1>1, <2>1
        <3> QED
            BY <1>3, <3>1 DEF UnreadItem
    <2> QED
        BY <1>6, <2>2, <2>3
<1>8. \A s \in Ring \ {r} : Unread'[s] = Unread[s]
    BY <1>2 DEF Unread, SlotOf
<1>9. Unread' = [Unread EXCEPT ![r] = Tail(@)]
    BY <1>7, <1>8 DEF Unread
<1> QED
    BY <1>2, <1>4, <1>5, <1>9 DEF Fifo!Take

LEMMA NextFifo ==
    RingInv /\ RingInv' /\ [Next]_ringVars => [Fifo!Next]_(Fifo!fifoVars)
<1> SUFFICES ASSUME RingInv, RingInv', [Next]_ringVars
             PROVE  [Fifo!Next]_(Fifo!fifoVars)
    OBVIOUS
<1>1. ASSUME NEW r \in Ring, Publish(r)
      PROVE  Fifo!Next
    BY <1>1, PublishIsPut DEF Fifo!Next
<1>2. ASSUME NEW r \in Ring, Release(r)
      PROVE  Fifo!Next
    BY <1>2, ReleaseIsTake DEF Fifo!Next
<1>3. ASSUME NEW r \in Ring, WriteDescriptor(r)
      PROVE  UNCHANGED Fifo!fifoVars
    <2>1. UNCHANGED <<head, tail, delivered>>
        BY <1>3 DEF WriteDescriptor, consumerVars
    <2>2. \A s \in Ring : \A i \in 1 .. head[s] - tail[s] :
             slot'[s][SlotOf(tail[s] + i - 1)] = slot[s][SlotOf(tail[s] + i - 1)]
        BY <1>3, WriteKeepsUnread DEF RingInv
    <2> QED
        BY <2>1, <2>2, StutterFifo
<1>4. ASSUME UNCHANGED <<head, tail, slot, delivered>>
      PROVE  UNCHANGED Fifo!fifoVars
    BY <1>4, StutterFifo
<1>5. ASSUME NEW r \in Ring,
             \/ \E x \in Item : EnqueueCall(r, x)
             \/ EnqueueReturn(r)
             \/ DequeueCall(r)
             \/ DequeueTimeout(r)
             \/ ReadDescriptor(r)
             \/ DequeueReturn(r)
      PROVE  UNCHANGED <<head, tail, slot, delivered>>
    BY <1>5 DEF EnqueueCall, EnqueueReturn, DequeueCall, DequeueTimeout,
                ReadDescriptor, DequeueReturn, producerVars, consumerVars
<1>6. CASE UNCHANGED ringVars
    BY <1>6, <1>4 DEF ringVars, producerVars, consumerVars
<1> QED
    BY <1>1, <1>2, <1>3, <1>4, <1>5, <1>6
       DEF Next, ProducerStep, ConsumerStep

\* Every ring of the Windows edition is a bounded FIFO queue: what dequeue
\* returns is what was enqueued, all of it, once, in order.
THEOREM RingIsFifo == Spec => IsFifo
<1>1. Spec => []RingInv
    BY InitInv, NextInv, PTL DEF Spec
<1>2. RingInv /\ [Next]_ringVars => [Fifo!Next]_(Fifo!fifoVars)
    BY NextInv, NextFifo
<1> QED
    BY <1>1, <1>2, InitFifo, PTL DEF Spec, IsFifo, Fifo!Spec
-----------------------------------------------------------------------------
(* The session *)

Cell   == {None} \cup (Texts \X Nat)
Body   == Seq(Cell)
Write  == [text : Texts, off : 0 .. PoolSize - 1, filled : BOOLEAN]
Result == [reply : Body, since : 0 .. Turns \cup {None}]

\* A payload or a descriptor on its way to the head of the ring.
InTransit(p, r) == writing[p] # None \/ ppc[r] \in {"waiting", "written"}

PoolTypes ==
    /\ dataOffset \in 0 .. PoolSize
    /\ pool \in [0 .. PoolSize - 1 -> Cell]
    /\ writing \in [Process -> Write \cup {None}]
    /\ \A p \in Process :
          writing[p] # None =>
              writing[p].off \in 0 .. PoolSize - Size[writing[p].text]

ClientTypes ==
    /\ pc \in {"idle", "sending", "closing", "receiving", "done"}
    /\ turn \in 0 .. Turns
    /\ lastRequest \in 0 .. Turns \cup {None}
    /\ outcome \in Seq(Result)

ServerTypes ==
    /\ spc \in {"receiving", "generating", "replying", "stopped", "dead"}
    /\ seq \in 0 .. Turns \cup {None}
    /\ history \in Seq(Body)

Types ==
    /\ RingTypeOK
    /\ evt \in [Ring -> Nat]
    /\ setting \in Settings
    /\ text \in [Process -> Body]
    /\ PoolTypes /\ ClientTypes /\ ServerTypes

RingsOK ==
    \A r \in Ring :
        /\ tail[r] <= head[r]
        /\ ppc[r] # "idle" => item[r] \in Item
        /\ \A i \in 0 .. head[r] - 1 : slot[r][SlotOf(i)] \in Item
        /\ ppc[r] = "written" => slot[r][SlotOf(head[r])] = item[r]
        /\ cpc[r] \in {"polling", "read"} => localTail[r] = tail[r]
        /\ cpc[r] = "read" => head[r] > tail[r] /\ got[r] \in Item
        /\ cpc[r] = "released" => tail[r] = localTail[r] + 1

Control ==
    /\ writing["client"] # None => ppc["req"] = "idle"
    /\ pc \in {"sending", "closing"} <=>
          writing["client"] # None \/ ppc["req"] # "idle"
    /\ cpc["resp"] # "idle" => pc = "receiving"
    /\ writing["server"] # None => ppc["resp"] = "idle"
    /\ spc = "replying" <=> writing["server"] # None \/ ppc["resp"] # "idle"
    /\ cpc["req"] # "idle" => spc = "receiving"

Closing == pc \in {"closing", "done"}
Current == IF Closing THEN Shutdown ELSE Prompt(turn)

RequestsCounted ==
    /\ turn <= Prompts
    /\ Closing => turn = Prompts
    /\ pc \in {"sending", "receiving"} => turn > 0
    /\ head["req"] = turn + (IF Closing THEN 1 ELSE 0)
                          - (IF InTransit("client", "req") THEN 1 ELSE 0)
    /\ ppc["req"] \in {"waiting", "written"} => item["req"].seq = head["req"]
    /\ ppc["req"] = "published" => item["req"].seq = head["req"] - 1
    /\ pc = "receiving" => lastRequest = turn - 1
    /\ writing["client"] # None => writing["client"].text = Current

Serving == spc = "generating" \/ InTransit("server", "resp")

ResponsesCounted ==
    /\ head["resp"] <= tail["req"]
    /\ Serving => tail["req"] = head["resp"] + 1 /\ seq \in 0 .. Turns
    /\ ppc["resp"] = "published" => tail["req"] = head["resp"]
    /\ spc = "receiving" =>
          tail["req"] = head["resp"] + (IF cpc["req"] = "released" THEN 1 ELSE 0)

SessionInv == Types /\ RingsOK /\ Control /\ RequestsCounted /\ ResponsesCounted

-----------------------------------------------------------------------------
(* Constants, payloads and the pool *)

LEMMA Rings ==
    /\ Ring = {"req", "resp"}
    /\ Process = {"client", "server"}
    /\ Item = Descriptor
BY ShmSessionAssumption DEF Process

LEMMA Sizes ==
    /\ PoolSize \in Nat \ {0} /\ Turns \in Nat \ {0}
    /\ \A t \in Texts : Size[t] \in 1 .. PoolSize
BY ShmSessionAssumption

LEMMA TurnTypes ==
    ASSUME Types
    PROVE  turn \in 0 .. Turns /\ turn \in Nat /\ Prompts \in 1 .. Turns
BY Sizes, ShmSessionAssumption DEF Types, ClientTypes, Prompts

LEMMA NotNone == \A w \in Write : w # None
BY ShmSessionAssumption DEF Write

LEMMA TextTypes ==
    /\ \A t \in 1 .. Turns : Prompt(t) \in Texts
    /\ \A t \in 0 .. Turns : ReplyTo(t) \in Texts
    /\ Shutdown \in Texts /\ GarbledReply \in Texts
BY ShmSessionAssumption DEF Texts, GarbledReply, ReplyTo

LEMMA BytesType ==
    ASSUME NEW t \in Texts
    PROVE  Bytes(t) \in Body
<1>1. Size[t] \in Nat
    BY Sizes
<1>2. \A i \in 1 .. Size[t] : <<t, i>> \in Cell
    BY <1>1 DEF Cell
<1>3. Bytes(t) \in [1 .. Size[t] -> Cell]
    BY <1>2 DEF Bytes
<1> QED
    BY <1>1, <1>3 DEF Body

LEMMA ReadDataType ==
    ASSUME Types, NEW d \in Item
    PROVE  ReadData(d) \in Body
<1>1. /\ d.len \in Nat /\ d.off \in Nat /\ d.off + d.len <= PoolSize
      /\ PoolSize \in Nat
    BY Rings, Sizes DEF Descriptor
<1>2. \A i \in 1 .. d.len : d.off + i - 1 \in 0 .. PoolSize - 1
    BY <1>1
<1>3. ReadData(d) \in [1 .. d.len -> Cell]
    BY <1>2 DEF ReadData, Types, PoolTypes
<1> QED
    BY <1>1, <1>3 DEF Body

LEMMA OffsetFits ==
    ASSUME Types, NEW t \in Texts
    PROVE  OffsetFor(t) \in 0 .. PoolSize - Size[t]
BY Sizes DEF OffsetFor, Types, PoolTypes

LEMMA ReserveEffect ==
    ASSUME Types, NEW p \in Process, NEW t \in Texts, Reserve(p, t)
    PROVE  /\ writing[p] = None
           /\ writing'[p] = [text |-> t, off |-> OffsetFor(t), filled |-> FALSE]
           /\ writing'[p] \in Write /\ writing'[p] # None
           /\ writing'[p].text = t /\ writing'[p].filled = FALSE
           /\ writing'[p].off \in 0 .. PoolSize - Size[t]
           /\ \A q \in Process : q # p => writing'[q] = writing[q]
           /\ writing' \in [Process -> Write \cup {None}]
           /\ UNCHANGED <<dataOffset, pool>>
<1> DEFINE w == [text |-> t, off |-> OffsetFor(t), filled |-> FALSE]
<1>1. OffsetFor(t) \in 0 .. PoolSize - Size[t]
    BY OffsetFits
<1>2. w \in Write /\ w.off \in 0 .. PoolSize - Size[t]
    BY <1>1, Sizes DEF Write
<1>3. w # None
    BY <1>2, NotNone
<1>4. writing' = [writing EXCEPT ![p] = w] /\ writing[p] = None
    BY DEF Reserve
<1> HIDE DEF w
<1>5. /\ writing'[p] = w
      /\ \A q \in Process : q # p => writing'[q] = writing[q]
      /\ writing' \in [Process -> Write \cup {None}]
    BY <1>2, <1>4 DEF Types, PoolTypes
<1> QED
    BY <1>2, <1>3, <1>4, <1>5 DEF Reserve, w

LEMMA FillEffect ==
    ASSUME Types, NEW p \in Process, Fill(p)
    PROVE  /\ writing[p] # None
           /\ writing'[p] \in Write /\ writing'[p] # None
           /\ writing'[p] = [writing[p] EXCEPT !.filled = TRUE]
           /\ writing'[p].text = writing[p].text
           /\ writing'[p].off = writing[p].off
           /\ writing'[p].filled = TRUE
           /\ \A q \in Process : q # p => writing'[q] = writing[q]
           /\ writing' \in [Process -> Write \cup {None}]
           /\ pool' \in [0 .. PoolSize - 1 -> Cell]
           /\ UNCHANGED dataOffset
<1> DEFINE w == [writing[p] EXCEPT !.filled = TRUE]
<1>1. writing[p] # None /\ writing[p] \in Write
    BY DEF Fill, Types, PoolTypes
<1>2. /\ w \in Write /\ w.text = writing[p].text /\ w.off = writing[p].off
      /\ w.filled = TRUE
    BY <1>1 DEF Write
<1>3. w # None
    BY <1>2, NotNone
<1>4. writing' = [writing EXCEPT ![p] = w]
    BY DEF Fill, Types, PoolTypes
<1>5. pool' \in [0 .. PoolSize - 1 -> Cell]
    <2>1. writing[p].text \in Texts /\ writing[p].off \in Nat /\ Size[writing[p].text] \in Nat
        BY <1>1, Sizes DEF Write
    <2>2. \A k \in 0 .. PoolSize - 1 :
             k \in writing[p].off .. writing[p].off + Size[writing[p].text] - 1
               => <<writing[p].text, k - writing[p].off + 1>> \in Cell
        BY <2>1 DEF Cell
    <2>3. DOMAIN pool = 0 .. PoolSize - 1
          /\ \A k \in 0 .. PoolSize - 1 : pool[k] \in Cell
        BY DEF Types, PoolTypes
    <2> QED
        BY <2>2, <2>3 DEF Fill
<1> HIDE DEF w
<1>6. /\ writing'[p] = w
      /\ \A q \in Process : q # p => writing'[q] = writing[q]
      /\ writing' \in [Process -> Write \cup {None}]
    BY <1>2, <1>4 DEF Types, PoolTypes
<1> QED
    BY <1>1, <1>2, <1>3, <1>5, <1>6 DEF Fill, w

LEMMA AdvanceEffect ==
    ASSUME Types, NEW p \in Process, Advance(p)
    PROVE  /\ writing[p] # None /\ writing[p] \in Write
           /\ writing'[p] = None
           /\ \A q \in Process : q # p => writing'[q] = writing[q]
           /\ writing' \in [Process -> Write \cup {None}]
           /\ dataOffset' \in 0 .. PoolSize
           /\ \A s \in 0 .. Turns : DescriptorFor(p, s) \in Item
           /\ UNCHANGED pool
<1>1. writing[p] # None /\ writing[p] \in Write
    BY DEF Advance, Types, PoolTypes
<1>2. writing[p].off \in 0 .. PoolSize - Size[writing[p].text]
    BY <1>1 DEF Types, PoolTypes
<1>3. /\ Size[writing[p].text] \in 1 .. PoolSize /\ PoolSize \in Nat
      /\ writing[p].off \in 0 .. PoolSize - 1
    BY <1>1, Sizes DEF Write
<1>4. \A s \in 0 .. Turns : DescriptorFor(p, s) \in Item
    BY <1>2, <1>3, Rings DEF DescriptorFor, Descriptor
<1>5. dataOffset' \in 0 .. PoolSize
    BY <1>2, <1>3 DEF Advance
<1>6. writing' = [writing EXCEPT ![p] = None]
    BY DEF Advance
<1> QED
    BY <1>1, <1>4, <1>5, <1>6 DEF Advance, Types, PoolTypes

-----------------------------------------------------------------------------
(* A step of a session is a step of its rings *)

PlatformStep ==
    IF Linux THEN [LinuxNext]_linuxVars ELSE [Next]_ringVars /\ UNCHANGED evt

\* A step of a ring on either platform.
RingAction(r) == ProducerStep(r) \/ ConsumerStep(r) \/ LinuxStep(r)

LEMMA ClientRings ==
    ASSUME SessionInv, ClientStep
    PROVE  PlatformStep
<1> USE Rings
<1>1. CASE StartTurn \/ StartShutdown
    BY <1>1 DEF StartTurn, StartShutdown, PlatformStep, linuxVars
<1>2. CASE EnqueueRequest
    <2>1. head["req"] \in 0 .. Turns
        <3>1. Advance("client") /\ writing["client"] # None
            BY <1>2 DEF EnqueueRequest, StartEnqueue, Advance
        <3>2. turn \in Nat /\ head["req"] \in Nat /\ Prompts \in 1 .. Turns
            BY TurnTypes DEF SessionInv, Types, RingTypeOK
        <3> QED
            BY <3>1, <3>2, Sizes DEF SessionInv, RequestsCounted, InTransit
    <2>2. DescriptorFor("client", head["req"]) \in Item
        BY <1>2, <2>1, AdvanceEffect DEF EnqueueRequest, StartEnqueue, SessionInv
    <2> QED
        BY <1>2, <2>2
           DEF EnqueueRequest, StartEnqueue, PlatformStep, LinuxNext, LinuxStep,
               Next, ProducerStep
<1>3. CASE RequestSent
    BY <1>3 DEF RequestSent, EndEnqueue, PlatformStep, LinuxNext, LinuxStep,
                Next, ProducerStep
<1>4. CASE AwaitResponse
    BY <1>4 DEF AwaitResponse, StartDequeue, PlatformStep, LinuxNext, LinuxStep,
                Next, ConsumerStep
<1>5. CASE CheckResponse
    BY <1>5 DEF CheckResponse, PlatformStep, LinuxNext, LinuxStep
<1>6. CASE ReadResponse
    BY <1>6 DEF ReadResponse, Take, TakeLinux, PlatformStep, LinuxNext, LinuxStep,
                Next, ConsumerStep
<1>7. CASE ResponseReturned
    BY <1>7 DEF ResponseReturned, ReturnLinux, PlatformStep, LinuxNext, LinuxStep,
                Next, ConsumerStep
<1>8. CASE ResponseTimeout
    BY <1>8 DEF ResponseTimeout, Expire, PlatformStep, LinuxNext, LinuxStep,
                Next, ConsumerStep
<1> QED
    BY <1>1, <1>2, <1>3, <1>4, <1>5, <1>6, <1>7, <1>8 DEF ClientStep

LEMMA ServerRings ==
    ASSUME SessionInv, ServerStep
    PROVE  PlatformStep
<1> USE Rings
<1>1. CASE Generate \/ GenerateRaises
    BY <1>1 DEF Generate, GenerateRaises, PlatformStep, linuxVars
<1>2. CASE EnqueueResponse
    <2>1. seq \in 0 .. Turns
        BY <1>2 DEF EnqueueResponse, StartEnqueue, Advance, SessionInv,
                    ResponsesCounted, Serving, InTransit
    <2>2. DescriptorFor("server", seq) \in Item
        BY <1>2, <2>1, AdvanceEffect DEF EnqueueResponse, StartEnqueue, SessionInv
    <2> QED
        BY <1>2, <2>2
           DEF EnqueueResponse, StartEnqueue, PlatformStep, LinuxNext, LinuxStep,
               Next, ProducerStep
<1>3. CASE ResponseSent
    BY <1>3 DEF ResponseSent, EndEnqueue, PlatformStep, LinuxNext, LinuxStep,
                Next, ProducerStep
<1>4. CASE AwaitRequest
    BY <1>4 DEF AwaitRequest, StartDequeue, PlatformStep, LinuxNext, LinuxStep,
                Next, ConsumerStep
<1>5. CASE CheckRequest
    BY <1>5 DEF CheckRequest, PlatformStep, LinuxNext, LinuxStep
<1>6. CASE ReadRequest
    BY <1>6 DEF ReadRequest, Take, TakeLinux, PlatformStep, LinuxNext, LinuxStep,
                Next, ConsumerStep
<1>7. CASE RequestReturned
    BY <1>7 DEF RequestReturned, ReturnLinux, PlatformStep, LinuxNext, LinuxStep,
                Next, ConsumerStep
<1>8. CASE IdleTimeout
    BY <1>8 DEF IdleTimeout, Expire, PlatformStep, LinuxNext, LinuxStep,
                Next, ConsumerStep
<1> QED
    BY <1>1, <1>2, <1>3, <1>4, <1>5, <1>6, <1>7, <1>8 DEF ServerStep

LEMMA SessionRings ==
    ASSUME SessionInv, [SessionNext]_vars
    PROVE  PlatformStep /\ setting' = setting
<1>1. CASE ClientStep
    BY <1>1, ClientRings DEF ClientStep
<1>2. CASE ServerStep
    BY <1>2, ServerRings DEF ServerStep
<1>3. ASSUME NEW p \in Process, FillOne(p)
      PROVE  PlatformStep /\ setting' = setting
    BY <1>3 DEF FillOne, PlatformStep, linuxVars
<1>4. ASSUME NEW r \in Ring, RingStep(r)
      PROVE  PlatformStep /\ setting' = setting
    BY <1>4 DEF RingStep, Put, Move, PublishLinux, ReleaseLinux, PlatformStep,
                LinuxNext, LinuxStep, Next, ProducerStep, ConsumerStep
<1>5. CASE UNCHANGED vars
    BY <1>5 DEF vars, PlatformStep, linuxVars
<1> QED
    BY <1>1, <1>2, <1>3, <1>4, <1>5 DEF SessionNext, Finished

LEMMA SessionRingAction ==
    ASSUME SessionInv, [SessionNext]_vars
    PROVE  (\E r \in Ring : RingAction(r)) \/ UNCHANGED ringVars
BY SessionRings DEF PlatformStep, LinuxNext, Next, RingAction, linuxVars

-----------------------------------------------------------------------------
(* The rings, whether or not enqueue waits for room *)

LEMMA FilledKept ==
    ASSUME RingTypeOK, NEW r \in Ring, item[r] \in Item,
           slot' = [slot EXCEPT ![r][SlotOf(head[r])] = item[r]]
    PROVE  /\ slot' \in [Ring -> [0 .. Capacity - 1 -> Item \cup {None}]]
           /\ slot'[r][SlotOf(head[r])] = item[r]
           /\ \A s \in Ring : s # r => slot'[s] = slot[s]
           /\ \A k \in 0 .. Capacity - 1 :
                 k # SlotOf(head[r]) => slot'[r][k] = slot[r][k]
<1>1. SlotOf(head[r]) \in 0 .. Capacity - 1
    BY SlotInRange DEF RingTypeOK
<1> QED
    BY <1>1 DEF RingTypeOK

LEMMA RingActionInv ==
    ASSUME RingTypeOK, RingsOK, (\E r \in Ring : RingAction(r)) \/ UNCHANGED ringVars
    PROVE  RingTypeOK' /\ RingsOK'
<1> USE RingAssumption
<1>t. \A r \in Ring :
         /\ head[r] \in Nat /\ tail[r] \in Nat /\ localTail[r] \in Nat
         /\ item[r] \in Item \cup {None} /\ got[r] \in Item \cup {None}
         /\ delivered[r] \in Seq(Item \cup {None})
    BY DEF RingTypeOK
<1>1. ASSUME NEW r \in Ring, NEW x \in Item, EnqueueCall(r, x)
      PROVE  RingTypeOK' /\ RingsOK'
    BY <1>1, <1>t DEF RingTypeOK, RingsOK, EnqueueCall, consumerVars
<1>2. ASSUME NEW r \in Ring, WriteDescriptor(r) \/ WriteDescriptorLinux(r)
      PROVE  RingTypeOK' /\ RingsOK'
    <2>1. /\ ppc[r] = "waiting" /\ item[r] \in Item
          /\ slot' = [slot EXCEPT ![r][SlotOf(head[r])] = item[r]]
          /\ ppc' = [ppc EXCEPT ![r] = "written"]
          /\ UNCHANGED <<head, item, tail, cpc, localTail, got, delivered>>
        BY <1>2 DEF WriteDescriptor, WriteDescriptorLinux, RingsOK, consumerVars
    <2>2. /\ slot' \in [Ring -> [0 .. Capacity - 1 -> Item \cup {None}]]
          /\ slot'[r][SlotOf(head[r])] = item[r]
          /\ \A s \in Ring : s # r => slot'[s] = slot[s]
          /\ \A k \in 0 .. Capacity - 1 :
                k # SlotOf(head[r]) => slot'[r][k] = slot[r][k]
        BY <2>1, FilledKept
    <2>3. RingTypeOK'
        BY <2>1, <2>2 DEF RingTypeOK
    <2>4. ASSUME NEW s \in Ring, NEW i \in 0 .. head[s] - 1
          PROVE  slot'[s][SlotOf(i)] \in Item
        <3>1. i \in Nat /\ slot[s][SlotOf(i)] \in Item
            BY <1>t DEF RingsOK
        <3>2. SlotOf(i) \in 0 .. Capacity - 1
            BY <3>1, SlotInRange
        <3>3. CASE s = r /\ SlotOf(i) = SlotOf(head[r])
            BY <2>1, <2>2, <3>3
        <3>4. CASE ~(s = r /\ SlotOf(i) = SlotOf(head[r]))
            BY <2>2, <3>1, <3>2, <3>4
        <3> QED
            BY <3>3, <3>4
    <2>5. \A s \in Ring : ppc'[s] = "written" => slot'[s][SlotOf(head[s])] = item[s]
        BY <2>1, <2>2 DEF RingsOK, RingTypeOK
    <2>6. \A s \in Ring : ppc'[s] # "idle" => item[s] \in Item
        BY <2>1 DEF RingsOK, RingTypeOK
    <2>7. UNCHANGED <<head, item, tail, cpc, localTail, got>>
        BY <2>1
    <2> QED
        BY <2>3, <2>4, <2>5, <2>6, <2>7 DEF RingsOK, SlotOf
<1>3. ASSUME NEW r \in Ring, Publish(r)
      PROVE  RingTypeOK' /\ RingsOK'
    <2>1. /\ ppc[r] = "written" /\ head'[r] = head[r] + 1
          /\ \A s \in Ring : s # r => head'[s] = head[s] /\ ppc'[s] = ppc[s]
          /\ ppc'[r] = "published"
          /\ UNCHANGED <<slot, item, tail, cpc, localTail, got, delivered>>
        BY <1>3 DEF Publish, consumerVars, RingTypeOK
    <2>2. RingTypeOK'
        BY <1>3, <1>t DEF RingTypeOK, Publish, consumerVars
    <2>3. ASSUME NEW s \in Ring, NEW i \in 0 .. head'[s] - 1
          PROVE  slot'[s][SlotOf(i)] \in Item
        <3>1. CASE i \in 0 .. head[s] - 1
            BY <2>1, <3>1 DEF RingsOK
        <3>2. CASE s = r /\ i = head[r]
            BY <2>1, <3>2 DEF RingsOK
        <3> QED
            BY <2>1, <3>1, <3>2, <1>t
    <2>4. \A s \in Ring : tail[s] <= head'[s]
        BY <2>1, <1>t DEF RingsOK
    <2>5. \A s \in Ring : head'[s] >= head[s]
        BY <2>1, <1>t
    <2>6. \A s \in Ring : ppc'[s] = "written" => slot'[s][SlotOf(head'[s])] = item'[s]
        BY <2>1 DEF RingsOK
    <2>7. \A s \in Ring : cpc[s] = "read" => head'[s] > tail[s]
        BY <2>1, <1>t DEF RingsOK
    <2>8. \A s \in Ring : ppc'[s] # "idle" => item[s] \in Item
        BY <2>1 DEF RingsOK
    <2> QED
        BY <2>1, <2>2, <2>3, <2>4, <2>6, <2>7, <2>8 DEF RingsOK, SlotOf
<1>4. ASSUME NEW r \in Ring, EnqueueReturn(r)
      PROVE  RingTypeOK' /\ RingsOK'
    BY <1>4, <1>t DEF RingTypeOK, RingsOK, EnqueueReturn, consumerVars
<1>5. ASSUME NEW r \in Ring,
             \/ DequeueTimeout(r) \/ Select(r) \/ SelectTimeout(r)
             \/ Wake(r) \/ DequeueReturn(r)
      PROVE  RingTypeOK' /\ RingsOK'
    <2>1. PICK v \in {"idle", "selecting", "woken"} :
             /\ cpc' = [cpc EXCEPT ![r] = v]
             /\ UNCHANGED <<tail, localTail, got, delivered, producerVars>>
        BY <1>5 DEF DequeueTimeout, Select, SelectTimeout, Wake, DequeueReturn
    <2> QED
        BY <2>1, <1>t DEF RingTypeOK, RingsOK, producerVars
<1>10. ASSUME NEW r \in Ring, DequeueCall(r)
      PROVE  RingTypeOK' /\ RingsOK'
    BY <1>10, <1>t DEF RingTypeOK, RingsOK, DequeueCall, producerVars
<1>6. ASSUME NEW r \in Ring, CheckCursors(r)
      PROVE  RingTypeOK' /\ RingsOK'
    BY <1>6, <1>t DEF RingTypeOK, RingsOK, CheckCursors, producerVars
<1>7. ASSUME NEW r \in Ring, ReadDescriptor(r)
      PROVE  RingTypeOK' /\ RingsOK'
    <2>1. localTail[r] = tail[r] /\ head[r] > tail[r]
        BY <1>7 DEF ReadDescriptor, Available, RingsOK
    <2>2. tail[r] \in 0 .. head[r] - 1
        BY <2>1, <1>t
    <2>3. slot[r][SlotOf(localTail[r])] \in Item
        BY <2>1, <2>2 DEF RingsOK
    <2> QED
        BY <1>7, <1>t, <2>1, <2>3 DEF RingTypeOK, RingsOK, ReadDescriptor, producerVars
<1>8. ASSUME NEW r \in Ring, Release(r)
      PROVE  RingTypeOK' /\ RingsOK'
    <2>1. localTail[r] = tail[r] /\ head[r] > tail[r] /\ got[r] \in Item
        BY <1>8 DEF Release, RingsOK
    <2>2. RingTypeOK'
        BY <1>8, <1>t DEF RingTypeOK, Release, producerVars
    <2> QED
        BY <1>8, <1>t, <2>1, <2>2 DEF RingTypeOK, RingsOK, Release, producerVars
<1>9. CASE UNCHANGED ringVars
    BY <1>9 DEF RingTypeOK, RingsOK, ringVars, producerVars, consumerVars
<1> QED
    BY <1>1, <1>2, <1>3, <1>4, <1>5, <1>6, <1>7, <1>8, <1>9, <1>10
       DEF RingAction, ProducerStep, ConsumerStep, LinuxStep, PublishLinux, Notify,
           TakeLinux, ReleaseLinux, ReturnLinux

-----------------------------------------------------------------------------
(* Wake-ups *)

LEMMA EvtType ==
    ASSUME evt \in [Ring -> Nat], PlatformStep
    PROVE  evt' \in [Ring -> Nat]
<1>1. ASSUME NEW r \in Ring, Notify(r) \/ Wake(r)
      PROVE  evt' \in [Ring -> Nat]
    BY <1>1 DEF Notify, Wake
<1>2. ASSUME NEW r \in Ring, LinuxStep(r), ~(Notify(r) \/ Wake(r))
      PROVE  evt' = evt
    BY <1>2 DEF LinuxStep, WriteDescriptorLinux, PublishLinux, Select, SelectTimeout,
                CheckCursors, TakeLinux, ReleaseLinux, ReturnLinux
<1>3. \/ \E r \in Ring : LinuxStep(r)
      \/ UNCHANGED evt
    BY DEF PlatformStep, LinuxNext, linuxVars
<1>4. CASE UNCHANGED evt
    BY <1>4
<1> QED
    BY <1>1, <1>2, <1>3, <1>4

LEMMA WakeupsInit == LinuxInit => WakeupsMatch
<1> SUFFICES ASSUME LinuxInit, NEW r \in Ring
             PROVE  head[r] - tail[r] =
                       evt[r] + (IF ppc[r] = "published" THEN 1 ELSE 0)
                              + (IF cpc[r] \in {"woken", "polling", "read"}
                                 THEN 1 ELSE 0)
    BY DEF WakeupsMatch
<1>1. /\ head[r] = 0 /\ tail[r] = 0 /\ evt[r] = 0 
      /\ ppc[r] = "idle" /\ cpc[r] = "idle"
    BY DEF LinuxInit, Init
<1> QED
    BY <1>1

LEMMA WakeupsStep ==
    ASSUME RingTypeOK, evt \in [Ring -> Nat], RingsOK, WakeupsMatch,
           [LinuxNext]_linuxVars
    PROVE  WakeupsMatch'
<1>t. \A r \in Ring : head[r] \in Nat /\ tail[r] \in Nat /\ evt[r] \in Nat
    BY DEF RingTypeOK
<1> USE DEF RingTypeOK, WakeupsMatch
<1>1. ASSUME NEW r \in Ring, NEW x \in Item, EnqueueCall(r, x), UNCHANGED evt
      PROVE  WakeupsMatch'
    BY <1>1, <1>t DEF EnqueueCall, consumerVars
<1>2. ASSUME NEW r \in Ring, WriteDescriptorLinux(r)
      PROVE  WakeupsMatch'
    BY <1>2, <1>t DEF WriteDescriptorLinux, consumerVars
<1>3. ASSUME NEW r \in Ring, PublishLinux(r)
      PROVE  WakeupsMatch'
    BY <1>3, <1>t DEF PublishLinux, Publish, consumerVars
<1>4. ASSUME NEW r \in Ring, Notify(r)
      PROVE  WakeupsMatch'
    BY <1>4, <1>t DEF Notify, EnqueueReturn, consumerVars
<1>5. ASSUME NEW r \in Ring, Select(r) \/ SelectTimeout(r)
      PROVE  WakeupsMatch'
    BY <1>5, <1>t DEF Select, SelectTimeout, producerVars
<1>6. ASSUME NEW r \in Ring, Wake(r)
      PROVE  WakeupsMatch'
    BY <1>6, <1>t DEF Wake, producerVars
\* A consumer that was woken finds a descriptor.
<1>7. ASSUME NEW r \in Ring, CheckCursors(r)
      PROVE  WakeupsMatch'
    <2>1. cpc[r] = "woken"
        BY <1>7 DEF CheckCursors
    <2>2. head[r] - tail[r] = evt[r] + (IF ppc[r] = "published" THEN 1 ELSE 0) + 1
        BY <2>1
    <2>3. ~Empty(r)
        BY <2>2, <1>t DEF Empty
    <2> QED
        BY <1>7, <1>t, <2>3 DEF CheckCursors, producerVars
<1>8. ASSUME NEW r \in Ring, TakeLinux(r)
      PROVE  WakeupsMatch'
    BY <1>8, <1>t DEF TakeLinux, ReadDescriptor, producerVars
<1>9. ASSUME NEW r \in Ring, ReleaseLinux(r)
      PROVE  WakeupsMatch'
    <2>1. localTail[r] = tail[r]
        BY <1>9 DEF ReleaseLinux, Release, RingsOK
    <2> QED
        BY <1>9, <1>t, <2>1 DEF ReleaseLinux, Release, producerVars
<1>10. ASSUME NEW r \in Ring, ReturnLinux(r)
      PROVE  WakeupsMatch'
    BY <1>10, <1>t DEF ReturnLinux, DequeueReturn, producerVars
<1>11. CASE UNCHANGED linuxVars
    BY <1>11 DEF linuxVars, ringVars, producerVars, consumerVars
<1> QED
    BY <1>1, <1>2, <1>3, <1>4, <1>5, <1>6, <1>7, <1>8, <1>9, <1>10, <1>11
       DEF LinuxNext, LinuxStep

-----------------------------------------------------------------------------
(* Types of the session *)

LEMMA ResultType ==
    ASSUME Types, NEW r \in Body, NEW s \in 0 .. Turns \cup {None}, Returned(r, s)
    PROVE  outcome' \in Seq(Result)
BY DEF Returned, Types, ClientTypes, Result

LEMMA NothingType == Nothing \in Body
BY DEF Nothing, Body

LEMMA TakeType ==
    ASSUME Types, RingsOK, NEW p \in Process, NEW r \in Ring, Take(p, r)
    PROVE  text' \in [Process -> Body]
<1>1. /\ head[r] \in Nat /\ tail[r] \in Nat /\ localTail[r] = tail[r]
      /\ tail[r] \in 0 .. head[r] - 1
    BY DEF Take, TakeLinux, ReadDescriptor, Available, RingsOK, Types, PoolTypes,
           RingTypeOK
<1>2. got'[r] \in Item
    BY <1>1 DEF Take, TakeLinux, ReadDescriptor, RingsOK, Types, PoolTypes,
                RingTypeOK
<1>3. ReadData(got'[r]) \in Body
    BY <1>2, ReadDataType
<1> QED
    BY <1>3 DEF Take, Types, PoolTypes

LEMMA LateItem ==
    ASSUME Types, RingsOK, NEW r \in Ring, cpc[r] = "released"
    PROVE  LateDescriptor(r) \in Item
<1>1. localTail[r] \in 0 .. head[r] - 1
    BY DEF RingsOK, Types, PoolTypes, RingTypeOK
<1> QED
    BY <1>1 DEF LateDescriptor, RingsOK

LEMMA ReplyTextType ==
    ASSUME NEW body
    PROVE  ReplyText(body) \in Texts
<1>1. CASE \E t \in 1 .. Turns : body = Bytes(Prompt(t))
    <2> DEFINE c == CHOOSE t \in 1 .. Turns : body = Bytes(Prompt(t))
    <2>1. c \in 1 .. Turns
        BY <1>1
    <2>2. c \in 0 .. Turns
        BY <2>1, Sizes
    <2> QED
        BY <1>1, <2>2, TextTypes DEF ReplyText
<1>2. CASE ~\E t \in 1 .. Turns : body = Bytes(Prompt(t))
    BY <1>2, TextTypes DEF ReplyText
<1> QED
    BY <1>1, <1>2

LEMMA PoolTypesStep ==
    ASSUME Types, NEW p \in Process,
           \/ \E t \in Texts : Reserve(p, t)
           \/ Fill(p)
           \/ Advance(p)
    PROVE  PoolTypes'
<1>1. ASSUME NEW t \in Texts, Reserve(p, t)
      PROVE  PoolTypes'
    <2>1. /\ writing'[p].text = t
          /\ writing'[p].off \in 0 .. PoolSize - Size[t]
          /\ \A q \in Process : q # p => writing'[q] = writing[q]
          /\ writing' \in [Process -> Write \cup {None}]
          /\ UNCHANGED <<dataOffset, pool>>
        BY <1>1, ReserveEffect
    <2> QED
        BY <2>1 DEF Types, PoolTypes
<1>2. CASE Fill(p)
    BY <1>2, FillEffect DEF Types, PoolTypes
<1>3. CASE Advance(p)
    <2>1. /\ writing'[p] = None
          /\ \A q \in Process : q # p => writing'[q] = writing[q]
          /\ writing' \in [Process -> Write \cup {None}]
          /\ dataOffset' \in 0 .. PoolSize /\ UNCHANGED pool
        BY <1>3, AdvanceEffect
    <2> QED
        BY <2>1 DEF Types, PoolTypes
<1> QED
    BY <1>1, <1>2, <1>3

LEMMA PoolTypesClient ==
    ASSUME SessionInv, ClientStep
    PROVE  PoolTypes'
<1>1. CASE StartTurn
    <2>1. turn + 1 \in 1 .. Turns
        BY <1>1, TurnTypes, Sizes DEF StartTurn, SessionInv
    <2> QED
        BY <1>1, <2>1, TextTypes, PoolTypesStep, Rings DEF StartTurn, SessionInv
<1>2. CASE StartShutdown
    BY <1>2, TextTypes, PoolTypesStep, Rings DEF StartShutdown, SessionInv
<1>3. CASE EnqueueRequest
    BY <1>3, PoolTypesStep, Rings DEF EnqueueRequest, StartEnqueue, SessionInv
<1>4. CASE ~(StartTurn \/ StartShutdown \/ EnqueueRequest)
    <2>1. UNCHANGED poolVars
        BY <1>4 DEF ClientStep, RequestSent, AwaitResponse, CheckResponse,
                    ReadResponse, ResponseReturned, ResponseTimeout
    <2> QED
        BY <2>1 DEF poolVars, PoolTypes, SessionInv, Types
<1> QED
    BY <1>1, <1>2, <1>3, <1>4

LEMMA PoolTypesServer ==
    ASSUME SessionInv, ServerStep
    PROVE  PoolTypes'
<1>1. CASE Generate
    BY <1>1, ReplyTextType, PoolTypesStep, Rings DEF Generate, SessionInv
<1>2. CASE EnqueueResponse
    BY <1>2, PoolTypesStep, Rings DEF EnqueueResponse, StartEnqueue, SessionInv
<1>3. CASE ~(Generate \/ EnqueueResponse)
    <2>1. UNCHANGED poolVars
        BY <1>3 DEF ServerStep, AwaitRequest, CheckRequest, ReadRequest,
                    RequestReturned, IdleTimeout, GenerateRaises, ResponseSent
    <2> QED
        BY <2>1 DEF poolVars, PoolTypes, SessionInv, Types
<1> QED
    BY <1>1, <1>2, <1>3

LEMMA ClientTypesStep ==
    ASSUME SessionInv, ClientStep
    PROVE  ClientTypes' /\ text' \in [Process -> Body] /\ UNCHANGED serverVars
<1> USE Rings
<1>1. Types /\ ClientTypes /\ RingsOK /\ RequestsCounted /\ Control
    BY DEF SessionInv, Types
<1>2. turn \in 0 .. Turns /\ turn \in Nat /\ Prompts \in 1 .. Turns /\ Turns \in Nat
    BY <1>1, TurnTypes, Sizes
<1>3. CASE StartTurn
    <2>1. turn' \in 0 .. Turns
        BY <1>2, <1>3 DEF StartTurn
    <2> QED
        BY <1>1, <1>3, <2>1 DEF StartTurn, Types, ClientTypes
<1>4. CASE StartShutdown \/ EnqueueRequest \/ AwaitResponse
    BY <1>1, <1>4 DEF StartShutdown, EnqueueRequest, AwaitResponse, clientVars, Types,
                      ClientTypes
<1>5. CASE RequestSent
    <2>1. ppc["req"] = "published" /\ item["req"] \in Item
        BY <1>1, <1>5 DEF RequestSent, EndEnqueue, Notify, EnqueueReturn, RingsOK
    <2>2. item["req"].seq \in 0 .. Turns
        BY <2>1 DEF Descriptor
    <2> QED
        BY <1>1, <1>5, <2>2 DEF RequestSent, Types, ClientTypes
<1>6. CASE CheckResponse
    <2>1. outcome' \in Seq(Result)
        BY <1>1, <1>6, ResultType, NothingType DEF CheckResponse, ClientTypes
    <2> QED
        BY <1>1, <1>6, <2>1 DEF CheckResponse, Types, ClientTypes, poolVars
<1>7. CASE ReadResponse
    BY <1>1, <1>7, TakeType DEF ReadResponse, clientVars, Types, ClientTypes
<1>8. CASE ResponseReturned
    <2>1. text["client"] \in Body /\ lastRequest \in 0 .. Turns \cup {None}
        BY <1>1 DEF Types, ClientTypes
    <2>2. outcome' \in Seq(Result)
        BY <1>1, <1>8, <2>1, ResultType DEF ResponseReturned
    <2> QED
        BY <1>1, <1>8, <2>2 DEF ResponseReturned, Types, ClientTypes
<1>9. CASE ResponseTimeout
    <2>1. outcome' \in Seq(Result)
        BY <1>1, <1>9, ResultType, NothingType DEF ResponseTimeout
    <2> QED
        BY <1>1, <1>9, <2>1 DEF ResponseTimeout, Types, ClientTypes
<1>10. UNCHANGED serverVars
    BY DEF ClientStep, StartTurn, StartShutdown, EnqueueRequest, RequestSent,
           AwaitResponse, CheckResponse, ReadResponse, ResponseReturned,
           ResponseTimeout
<1> QED
    BY <1>3, <1>4, <1>5, <1>6, <1>7, <1>8, <1>9, <1>10 DEF ClientStep

LEMMA ServerTypesStep ==
    ASSUME SessionInv, ServerStep
    PROVE  ServerTypes' /\ text' \in [Process -> Body] /\ UNCHANGED clientVars
<1> USE Rings
<1>1. Types /\ ServerTypes /\ RingsOK /\ text["server"] \in Body
    BY DEF SessionInv, Types
<1>2. CASE AwaitRequest \/ CheckRequest \/ IdleTimeout \/ GenerateRaises
           \/ EnqueueResponse \/ ResponseSent
    BY <1>1, <1>2 DEF AwaitRequest, CheckRequest, IdleTimeout, GenerateRaises,
                      EnqueueResponse, ResponseSent, serverVars, Types, ServerTypes
<1>3. CASE ReadRequest
    BY <1>1, <1>3, TakeType DEF ReadRequest, serverVars, Types, ServerTypes
<1>4. CASE RequestReturned
    <2>1. cpc["req"] = "released"
        BY <1>4 DEF RequestReturned, ReturnLinux, DequeueReturn
    <2>2. LateDescriptor("req").seq \in 0 .. Turns
        BY <1>1, <2>1, LateItem DEF Descriptor
    <2>3. Append(history, text["server"]) \in Seq(Body)
        BY <1>1 DEF ServerTypes
    <2> QED
        BY <1>1, <1>4, <2>2, <2>3 DEF RequestReturned, Types, ServerTypes
<1>5. CASE Generate
    <2> DEFINE b == Bytes(ReplyText(text["server"]))
    <2>1. b \in Body
        BY ReplyTextType, BytesType
    <2>2. history' = Append(history, b)
        BY <1>5 DEF Generate
    <2> HIDE DEF b
    <2>3. history' \in Seq(Body)
        BY <1>1, <2>1, <2>2 DEF ServerTypes
    <2> QED
        BY <1>1, <1>5, <2>3 DEF Generate, Types, ServerTypes
<1>6. UNCHANGED clientVars
    BY DEF ServerStep, AwaitRequest, CheckRequest, ReadRequest, RequestReturned,
           IdleTimeout, Generate, GenerateRaises, EnqueueResponse, ResponseSent
<1> QED
    BY <1>2, <1>3, <1>4, <1>5, <1>6 DEF ServerStep

LEMMA TypesStep ==
    ASSUME SessionInv, [SessionNext]_vars
    PROVE  Types' /\ RingsOK'
<1>1. RingTypeOK' /\ RingsOK'
    BY SessionRingAction, RingActionInv DEF SessionInv, Types
<1>2. evt' \in [Ring -> Nat] /\ setting' \in Settings
    BY SessionRings, EvtType DEF SessionInv, Types
<1>3. CASE ClientStep
    <2>1. ServerTypes'
        BY <1>3, ClientTypesStep DEF serverVars, ServerTypes, SessionInv, Types
    <2> QED
        BY <1>1, <1>2, <1>3, <2>1, PoolTypesClient, ClientTypesStep DEF Types
<1>4. CASE ServerStep
    <2>1. ClientTypes'
        BY <1>4, ServerTypesStep DEF clientVars, ClientTypes, SessionInv, Types
    <2> QED
        BY <1>1, <1>2, <1>4, <2>1, PoolTypesServer, ServerTypesStep DEF Types
<1>5. ASSUME NEW p \in Process, FillOne(p)
      PROVE  Types'
    <2>1. PoolTypes'
        BY <1>5, PoolTypesStep DEF FillOne, SessionInv
    <2> QED
        BY <1>1, <1>2, <1>5, <2>1
           DEF FillOne, Types, SessionInv, clientVars, serverVars, ClientTypes,
               ServerTypes
<1>6. ASSUME UNCHANGED <<poolVars, text, clientVars, serverVars>>
      PROVE  Types'
    BY <1>1, <1>2, <1>6
       DEF Types, SessionInv, poolVars, clientVars, serverVars, PoolTypes,
           ClientTypes, ServerTypes
<1> QED
    BY <1>1, <1>3, <1>4, <1>5, <1>6 DEF SessionNext, RingStep, Finished, vars

-----------------------------------------------------------------------------
(* Where the two processes are *)

\* The values a step reads and writes.
LEMMA Shape ==
    ASSUME Types
    PROVE  /\ ppc \in [Ring -> {"idle", "waiting", "written", "published"}]
           /\ cpc \in [Ring -> {"idle", "selecting", "woken", "polling", "read",
                                "released"}]
           /\ head \in [Ring -> Nat] /\ tail \in [Ring -> Nat]
           /\ item \in [Ring -> Item \cup {None}]
           /\ Ring = {"req", "resp"}
BY Rings DEF Types, RingTypeOK

LEMMA ControlClient ==
    ASSUME SessionInv, ClientStep
    PROVE  Control'
<1>1. Types /\ Control
    BY DEF SessionInv
<1>2. /\ ppc \in [Ring -> {"idle", "waiting", "written", "published"}]
      /\ cpc \in [Ring -> {"idle", "selecting", "woken", "polling", "read",
                           "released"}]
      /\ Ring = {"req", "resp"} /\ Process = {"client", "server"}
    BY <1>1, Shape, Rings
<1>3. CASE StartTurn \/ StartShutdown
    <2>1. PICK t \in Texts : Reserve("client", t)
        BY <1>1, <1>3, TextTypes, TurnTypes, Sizes DEF StartTurn, StartShutdown
    <2>2. writing'["client"] # None /\ writing'["server"] = writing["server"]
        BY <1>1, <1>2, <2>1, ReserveEffect
    <2> QED
        BY <1>1, <1>2, <1>3, <2>2
           DEF StartTurn, StartShutdown, Control, linuxVars, ringVars, producerVars,
               consumerVars, serverVars
<1>4. CASE EnqueueRequest
    <2>1. /\ writing["client"] # None /\ writing'["client"] = None
          /\ writing'["server"] = writing["server"]
        BY <1>1, <1>2, <1>4, AdvanceEffect DEF EnqueueRequest, StartEnqueue
    <2> QED
        BY <1>1, <1>2, <1>4, <2>1
           DEF EnqueueRequest, StartEnqueue, EnqueueCall, Control, consumerVars,
               clientVars, serverVars
<1>5. CASE RequestSent
    BY <1>1, <1>2, <1>5
       DEF RequestSent, EndEnqueue, Notify, EnqueueReturn, Control, consumerVars,
           serverVars, poolVars
<1>6. CASE AwaitResponse
    BY <1>1, <1>2, <1>6
       DEF AwaitResponse, StartDequeue, Select, DequeueCall, Control, producerVars,
           clientVars, serverVars, poolVars
<1>7. CASE CheckResponse
    BY <1>1, <1>2, <1>7
       DEF CheckResponse, CheckCursors, Empty, Control, producerVars, serverVars, poolVars
<1>8. CASE ReadResponse
    BY <1>1, <1>2, <1>8
       DEF ReadResponse, Take, TakeLinux, ReadDescriptor, Control, producerVars,
           clientVars, serverVars, poolVars
<1>9. CASE ResponseReturned
    BY <1>1, <1>2, <1>9
       DEF ResponseReturned, ReturnLinux, DequeueReturn, Control, producerVars,
           serverVars, poolVars
<1>10. CASE ResponseTimeout
    BY <1>1, <1>2, <1>10
       DEF ResponseTimeout, Expire, SelectTimeout, DequeueTimeout, Control,
           producerVars, serverVars, poolVars
<1> QED
    BY <1>3, <1>4, <1>5, <1>6, <1>7, <1>8, <1>9, <1>10 DEF ClientStep

LEMMA ControlServer ==
    ASSUME SessionInv, ServerStep
    PROVE  Control'
<1>1. Types /\ Control
    BY DEF SessionInv
<1>2. /\ ppc \in [Ring -> {"idle", "waiting", "written", "published"}]
      /\ cpc \in [Ring -> {"idle", "selecting", "woken", "polling", "read",
                           "released"}]
      /\ Ring = {"req", "resp"} /\ Process = {"client", "server"}
    BY <1>1, Shape, Rings
<1>3. CASE AwaitRequest
    BY <1>1, <1>2, <1>3
       DEF AwaitRequest, StartDequeue, Select, DequeueCall, Control, producerVars,
           clientVars, serverVars, poolVars
<1>4. CASE CheckRequest
    BY <1>1, <1>2, <1>4
       DEF CheckRequest, CheckCursors, Empty, Control, producerVars, clientVars, poolVars
<1>5. CASE ReadRequest
    BY <1>1, <1>2, <1>5
       DEF ReadRequest, Take, TakeLinux, ReadDescriptor, Control, producerVars,
           clientVars, serverVars, poolVars
<1>6. CASE RequestReturned
    BY <1>1, <1>2, <1>6
       DEF RequestReturned, ReturnLinux, DequeueReturn, Control, producerVars,
           clientVars, poolVars
<1>7. CASE IdleTimeout
    BY <1>1, <1>2, <1>7
       DEF IdleTimeout, Expire, SelectTimeout, DequeueTimeout, Control,
           producerVars, clientVars, poolVars
<1>8. CASE Generate
    <2>1. PICK t \in Texts : Reserve("server", t)
        BY <1>8, ReplyTextType DEF Generate
    <2>2. writing'["server"] # None /\ writing'["client"] = writing["client"]
        BY <1>1, <1>2, <2>1, ReserveEffect
    <2> QED
        BY <1>1, <1>2, <1>8, <2>2
           DEF Generate, Control, linuxVars, ringVars, producerVars, consumerVars,
               clientVars
<1>9. CASE GenerateRaises
    BY <1>1, <1>2, <1>9
       DEF GenerateRaises, Control, linuxVars, ringVars, producerVars, consumerVars,
           clientVars, poolVars
<1>10. CASE EnqueueResponse
    <2>1. /\ writing["server"] # None /\ writing'["server"] = None
          /\ writing'["client"] = writing["client"]
        BY <1>1, <1>2, <1>10, AdvanceEffect DEF EnqueueResponse, StartEnqueue
    <2> QED
        BY <1>1, <1>2, <1>10, <2>1
           DEF EnqueueResponse, StartEnqueue, EnqueueCall, Control, consumerVars,
               clientVars, serverVars
<1>11. CASE ResponseSent
    BY <1>1, <1>2, <1>11
       DEF ResponseSent, EndEnqueue, Notify, EnqueueReturn, Control, consumerVars,
           clientVars, poolVars
<1> QED
    BY <1>3, <1>4, <1>5, <1>6, <1>7, <1>8, <1>9, <1>10, <1>11 DEF ServerStep

LEMMA ControlStep ==
    ASSUME SessionInv, [SessionNext]_vars
    PROVE  Control'
<1>1. Types /\ Control
    BY DEF SessionInv
<1>2. /\ ppc \in [Ring -> {"idle", "waiting", "written", "published"}]
      /\ cpc \in [Ring -> {"idle", "selecting", "woken", "polling", "read",
                           "released"}]
      /\ Ring = {"req", "resp"} /\ Process = {"client", "server"}
    BY <1>1, Shape, Rings
<1>3. ASSUME NEW p \in Process, FillOne(p)
      PROVE  Control'
    <2>1. \A q \in Process : writing'[q] # None <=> writing[q] # None
        BY <1>1, <1>3, FillEffect DEF FillOne
    <2> QED
        BY <1>1, <1>2, <1>3, <2>1
           DEF FillOne, Control, linuxVars, ringVars, producerVars, consumerVars,
               clientVars, serverVars
<1>4. ASSUME NEW r \in Ring, RingStep(r), Put(r)
      PROVE  Control'
    <2>1. PICK v \in {"written", "published"} :
             ppc[r] \in {"waiting", "written"} /\ ppc' = [ppc EXCEPT ![r] = v]
        BY <1>4 DEF Put, WriteDescriptor, WriteDescriptorLinux, PublishLinux, Publish
    <2>2. UNCHANGED <<cpc, pc, spc, writing>>
        BY <1>4 DEF RingStep, Put, WriteDescriptor, WriteDescriptorLinux,
                    PublishLinux, Publish, consumerVars, poolVars, clientVars,
                    serverVars
    <2> QED
        BY <1>1, <1>2, <2>1, <2>2 DEF Control
<1>5. ASSUME NEW r \in Ring, RingStep(r), Move(r)
      PROVE  Control'
    <2>1. PICK v \in {"woken", "released"} :
             cpc[r] # "idle" /\ cpc' = [cpc EXCEPT ![r] = v]
        BY <1>5 DEF Move, Wake, ReleaseLinux, Release
    <2>2. UNCHANGED <<ppc, pc, spc, writing>>
        BY <1>5 DEF RingStep, Move, Wake, ReleaseLinux, Release, producerVars,
                    poolVars, clientVars, serverVars
    <2> QED
        BY <1>1, <1>2, <2>1, <2>2 DEF Control
<1>6. CASE UNCHANGED vars
    BY <1>1, <1>6 DEF Control, vars, linuxVars, ringVars, producerVars, consumerVars,
                      poolVars, clientVars, serverVars
<1> QED
    BY <1>3, <1>4, <1>5, <1>6, ControlClient, ControlServer
       DEF SessionNext, RingStep, Finished

\* What a step of the client leaves alone.
LEMMA ClientLeaves ==
    ASSUME SessionInv, ClientStep
    PROVE  /\ UNCHANGED <<setting, serverVars, pool, head, slot>>
           /\ writing'["server"] = writing["server"]
           /\ text'["server"] = text["server"]
           /\ ppc'["resp"] = ppc["resp"] /\ item'["resp"] = item["resp"]
           /\ tail'["req"] = tail["req"] /\ cpc'["req"] = cpc["req"]
           /\ localTail'["req"] = localTail["req"] /\ got'["req"] = got["req"]
           /\ delivered'["req"] = delivered["req"]
<1>1. Types
    BY DEF SessionInv
<1>2. /\ ppc \in [Ring -> {"idle", "waiting", "written", "published"}]
      /\ cpc \in [Ring -> {"idle", "selecting", "woken", "polling", "read",
                           "released"}]
      /\ item \in [Ring -> Item \cup {None}] /\ got \in [Ring -> Item \cup {None}]
      /\ localTail \in [Ring -> Nat] /\ tail \in [Ring -> Nat]
      /\ delivered \in [Ring -> Seq(Item \cup {None})]
      /\ text \in [Process -> Body]
      /\ Ring = {"req", "resp"} /\ Process = {"client", "server"}
    BY <1>1, Rings DEF Types, RingTypeOK
<1>3. UNCHANGED <<setting, serverVars>>
    BY ClientTypesStep DEF ClientStep
<1>4. pool' = pool /\ writing'["server"] = writing["server"]
    <2>1. CASE StartTurn \/ StartShutdown
        <3>1. PICK t \in Texts : Reserve("client", t)
            BY <1>1, <2>1, TextTypes, TurnTypes, Sizes DEF StartTurn, StartShutdown
        <3> QED
            BY <1>1, <1>2, <3>1, ReserveEffect
    <2>2. CASE EnqueueRequest
        BY <1>1, <1>2, <2>2, AdvanceEffect DEF EnqueueRequest, StartEnqueue
    <2>3. CASE ~(StartTurn \/ StartShutdown \/ EnqueueRequest)
        BY <2>3 DEF ClientStep, RequestSent, AwaitResponse, CheckResponse,
                    ReadResponse, ResponseReturned, ResponseTimeout, poolVars
    <2> QED
        BY <2>1, <2>2, <2>3
<1>5. CASE EnqueueRequest
    BY <1>2, <1>3, <1>4, <1>5
       DEF EnqueueRequest, StartEnqueue, EnqueueCall, consumerVars
<1>6. CASE RequestSent
    BY <1>2, <1>3, <1>4, <1>6
       DEF RequestSent, EndEnqueue, Notify, EnqueueReturn, consumerVars
<1>7. CASE StartTurn \/ StartShutdown
    BY <1>3, <1>4, <1>7
       DEF StartTurn, StartShutdown, linuxVars, ringVars, producerVars, consumerVars
<1>8. CASE AwaitResponse
    BY <1>2, <1>3, <1>4, <1>8
       DEF AwaitResponse, StartDequeue, Select, DequeueCall, producerVars
<1>9. CASE CheckResponse
    BY <1>2, <1>3, <1>4, <1>9
       DEF CheckResponse, CheckCursors, producerVars
<1>10. CASE ReadResponse
    BY <1>2, <1>3, <1>4, <1>10
       DEF ReadResponse, Take, TakeLinux, ReadDescriptor, producerVars
<1>11. CASE ResponseReturned
    BY <1>2, <1>3, <1>4, <1>11
       DEF ResponseReturned, ReturnLinux, DequeueReturn, producerVars
<1>12. CASE ResponseTimeout
    BY <1>2, <1>3, <1>4, <1>12
       DEF ResponseTimeout, Expire, SelectTimeout, DequeueTimeout, producerVars
<1> QED
    BY <1>5, <1>6, <1>7, <1>8, <1>9, <1>10, <1>11, <1>12 DEF ClientStep

\* What a step of the server leaves alone.
LEMMA ServerLeaves ==
    ASSUME SessionInv, ServerStep
    PROVE  /\ UNCHANGED <<setting, clientVars, pool, head, slot>>
           /\ writing'["client"] = writing["client"]
           /\ text'["client"] = text["client"]
           /\ ppc'["req"] = ppc["req"] /\ item'["req"] = item["req"]
           /\ tail'["resp"] = tail["resp"] /\ cpc'["resp"] = cpc["resp"]
           /\ localTail'["resp"] = localTail["resp"] /\ got'["resp"] = got["resp"]
           /\ delivered'["resp"] = delivered["resp"]
<1>1. Types
    BY DEF SessionInv
<1>2. /\ ppc \in [Ring -> {"idle", "waiting", "written", "published"}]
      /\ cpc \in [Ring -> {"idle", "selecting", "woken", "polling", "read",
                           "released"}]
      /\ item \in [Ring -> Item \cup {None}] /\ got \in [Ring -> Item \cup {None}]
      /\ localTail \in [Ring -> Nat] /\ tail \in [Ring -> Nat]
      /\ delivered \in [Ring -> Seq(Item \cup {None})]
      /\ text \in [Process -> Body]
      /\ Ring = {"req", "resp"} /\ Process = {"client", "server"}
    BY <1>1, Rings DEF Types, RingTypeOK
<1>3. UNCHANGED <<setting, clientVars>>
    BY ServerTypesStep DEF ServerStep
<1>4. pool' = pool /\ writing'["client"] = writing["client"]
    <2>1. CASE Generate
        BY <1>1, <1>2, <2>1, ReplyTextType, ReserveEffect DEF Generate
    <2>2. CASE EnqueueResponse
        BY <1>1, <1>2, <2>2, AdvanceEffect DEF EnqueueResponse, StartEnqueue
    <2>3. CASE ~(Generate \/ EnqueueResponse)
        BY <2>3 DEF ServerStep, AwaitRequest, CheckRequest, ReadRequest,
                    RequestReturned, IdleTimeout, GenerateRaises, ResponseSent, poolVars
    <2> QED
        BY <2>1, <2>2, <2>3
<1>5. CASE EnqueueResponse
    BY <1>2, <1>3, <1>4, <1>5
       DEF EnqueueResponse, StartEnqueue, EnqueueCall, consumerVars
<1>6. CASE ResponseSent
    BY <1>2, <1>3, <1>4, <1>6
       DEF ResponseSent, EndEnqueue, Notify, EnqueueReturn, consumerVars
<1>7. CASE Generate \/ GenerateRaises
    BY <1>3, <1>4, <1>7
       DEF Generate, GenerateRaises, linuxVars, ringVars, producerVars, consumerVars
<1>8. CASE AwaitRequest
    BY <1>2, <1>3, <1>4, <1>8
       DEF AwaitRequest, StartDequeue, Select, DequeueCall, producerVars
<1>9. CASE CheckRequest
    BY <1>2, <1>3, <1>4, <1>9
       DEF CheckRequest, CheckCursors, producerVars
<1>10. CASE ReadRequest
    BY <1>2, <1>3, <1>4, <1>10
       DEF ReadRequest, Take, TakeLinux, ReadDescriptor, producerVars
<1>11. CASE RequestReturned
    BY <1>2, <1>3, <1>4, <1>11
       DEF RequestReturned, ReturnLinux, DequeueReturn, producerVars
<1>12. CASE IdleTimeout
    BY <1>2, <1>3, <1>4, <1>12
       DEF IdleTimeout, Expire, SelectTimeout, DequeueTimeout, producerVars
<1> QED
    BY <1>5, <1>6, <1>7, <1>8, <1>9, <1>10, <1>11, <1>12 DEF ServerStep

-----------------------------------------------------------------------------
(* How many requests and responses there are *)

\* What RequestsCounted speaks of is left alone.
LEMMA RequestsFrame ==
    ASSUME RequestsCounted,
           UNCHANGED <<setting, pc, turn, lastRequest>>,
           head'["req"] = head["req"], ppc'["req"] = ppc["req"],
           item'["req"] = item["req"], writing'["client"] = writing["client"]
    PROVE  RequestsCounted'
BY DEF RequestsCounted, InTransit, Closing, Current, Prompts

LEMMA RequestsClient ==
    ASSUME SessionInv, ClientStep
    PROVE  RequestsCounted'
<1>1. Types /\ Control /\ RequestsCounted
    BY DEF SessionInv
<1>2. /\ ppc \in [Ring -> {"idle", "waiting", "written", "published"}]
      /\ head \in [Ring -> Nat] /\ item \in [Ring -> Item \cup {None}]
      /\ Ring = {"req", "resp"} /\ Process = {"client", "server"}
      /\ turn \in Nat /\ Prompts \in Nat /\ setting' = setting
      /\ Prompts' = Prompts
    BY <1>1, Shape, Rings, TurnTypes, Sizes DEF ClientStep, Prompts
<1>3. CASE StartTurn
    <2>1. turn < Prompts /\ Reserve("client", Prompt(turn + 1)) /\ pc = "idle"
        BY <1>3 DEF StartTurn
    <2>2. Prompt(turn + 1) \in Texts
        BY <1>1, <1>2, <2>1, TextTypes, TurnTypes, Sizes
    <2>3. /\ writing["client"] = None /\ writing'["client"] # None
          /\ writing'["client"].text = Prompt(turn + 1)
        BY <1>1, <1>2, <2>1, <2>2, ReserveEffect
    <2>4. ppc["req"] = "idle"
        BY <1>1, <1>2, <2>1 DEF Control
    <2>5. /\ turn' = turn + 1 /\ pc' = "sending"
          /\ UNCHANGED <<head, ppc, item, lastRequest>>
        BY <1>3 DEF StartTurn, linuxVars, ringVars, producerVars
    <2> QED
        BY <1>1, <1>2, <2>1, <2>3, <2>4, <2>5
           DEF RequestsCounted, InTransit, Closing, Current
<1>4. CASE StartShutdown
    <2>1. turn = Prompts /\ Reserve("client", Shutdown) /\ pc = "idle"
        BY <1>4 DEF StartShutdown
    <2>2. /\ writing["client"] = None /\ writing'["client"] # None
          /\ writing'["client"].text = Shutdown
        BY <1>1, <1>2, <2>1, TextTypes, ReserveEffect
    <2>3. ppc["req"] = "idle"
        BY <1>1, <1>2, <2>1 DEF Control
    <2>4. /\ turn' = turn /\ pc' = "closing"
          /\ UNCHANGED <<head, ppc, item, lastRequest>>
        BY <1>4 DEF StartShutdown, linuxVars, ringVars, producerVars
    <2> QED
        BY <1>1, <1>2, <2>1, <2>2, <2>3, <2>4
           DEF RequestsCounted, InTransit, Closing, Current
<1>5. CASE EnqueueRequest
    <2>1. writing["client"] # None /\ writing'["client"] = None
        BY <1>1, <1>2, <1>5, AdvanceEffect DEF EnqueueRequest, StartEnqueue
    <2>2. /\ ppc["req"] = "idle" /\ ppc'["req"] = "waiting"
          /\ item'["req"] = DescriptorFor("client", head["req"])
          /\ UNCHANGED <<head, pc, turn, lastRequest>>
        BY <1>2, <1>5 DEF EnqueueRequest, StartEnqueue, EnqueueCall, clientVars
    <2>3. item'["req"].seq = head["req"]
        BY <2>2 DEF DescriptorFor
    <2> QED
        BY <1>1, <1>2, <2>1, <2>2, <2>3
           DEF RequestsCounted, InTransit, Closing, Current
<1>6. CASE RequestSent
    <2>1. /\ ppc["req"] = "published" /\ ppc'["req"] = "idle"
          /\ lastRequest' = item["req"].seq
          /\ pc' = IF pc = "closing" THEN "done" ELSE "receiving"
          /\ UNCHANGED <<head, item, turn, writing>>
        BY <1>2, <1>6 DEF RequestSent, EndEnqueue, Notify, EnqueueReturn, poolVars
    <2>2. pc \in {"sending", "closing"} /\ writing["client"] = None
        BY <1>1, <1>2, <2>1 DEF Control
    <2> QED
        BY <1>1, <1>2, <2>1, <2>2 DEF RequestsCounted, InTransit, Closing, Current
<1>7. CASE AwaitResponse \/ ReadResponse
    BY <1>1, <1>7, <1>2, RequestsFrame
       DEF AwaitResponse, StartDequeue, Select, DequeueCall, ReadResponse, Take,
           TakeLinux, ReadDescriptor, producerVars, clientVars, poolVars
<1>8. CASE CheckResponse \/ ResponseReturned \/ ResponseTimeout
    <2>1. UNCHANGED <<head, ppc, item, writing, turn, lastRequest>>
        BY <1>8 DEF CheckResponse, CheckCursors, ResponseReturned, ReturnLinux,
                    DequeueReturn, ResponseTimeout, Expire, SelectTimeout,
                    DequeueTimeout, producerVars, poolVars
    <2>2. pc = "receiving"
        BY <1>1, <1>8 DEF CheckResponse, CheckCursors, ResponseReturned, ReturnLinux,
                    DequeueReturn, ResponseTimeout, Expire, SelectTimeout,
                    DequeueTimeout, Control
    <2>3. pc' \in {"receiving", "idle"}
        BY <1>8, <2>2 DEF CheckResponse, ResponseReturned, ResponseTimeout
    <2> QED
        BY <1>1, <1>2, <2>1, <2>2, <2>3 DEF RequestsCounted, InTransit, Closing, Current
<1> QED
    BY <1>3, <1>4, <1>5, <1>6, <1>7, <1>8 DEF ClientStep

LEMMA RequestsServer ==
    ASSUME SessionInv, ServerStep
    PROVE  RequestsCounted'
BY ServerLeaves, RequestsFrame DEF SessionInv, clientVars

LEMMA RequestsStep ==
    ASSUME SessionInv, [SessionNext]_vars
    PROVE  RequestsCounted'
<1>1. Types /\ RingsOK /\ Control /\ RequestsCounted
    BY DEF SessionInv
<1>2. /\ ppc \in [Ring -> {"idle", "waiting", "written", "published"}]
      /\ head \in [Ring -> Nat]
      /\ Ring = {"req", "resp"} /\ Process = {"client", "server"}
      /\ turn \in Nat /\ Prompts \in Nat
    BY <1>1, Shape, Rings, TurnTypes, Sizes
<1>3. ASSUME NEW p \in Process, FillOne(p)
      PROVE  RequestsCounted'
    <2>1. /\ writing'["client"] # None <=> writing["client"] # None
          /\ writing'["client"] # None =>
                writing'["client"].text = writing["client"].text
        BY <1>1, <1>2, <1>3, FillEffect DEF FillOne
    <2>2. UNCHANGED <<setting, head, ppc, item, pc, turn, lastRequest>>
        BY <1>3 DEF FillOne, linuxVars, ringVars, producerVars, clientVars
    <2> QED
        BY <1>1, <2>1, <2>2 DEF RequestsCounted, InTransit, Closing, Current, Prompts
<1>4. ASSUME NEW r \in Ring, RingStep(r)
      PROVE  RequestsCounted'
    <2>1. UNCHANGED <<setting, writing, pc, turn, lastRequest>>
        BY <1>4 DEF RingStep, poolVars, clientVars
    <2>2. CASE r = "req" /\ Publish(r)
        <3>1. /\ ppc["req"] = "written" /\ ppc'["req"] = "published"
              /\ head'["req"] = head["req"] + 1 /\ item' = item
            BY <1>2, <2>2 DEF Publish
        <3>2. writing["client"] = None
            BY <1>1, <3>1 DEF Control
        <3> QED
            BY <1>1, <1>2, <2>1, <3>1, <3>2
               DEF RequestsCounted, InTransit, Closing, Current, Prompts
    <2>3. CASE r = "req" /\ (WriteDescriptor(r) \/ WriteDescriptorLinux(r))
        <3>1. /\ ppc["req"] = "waiting" /\ ppc'["req"] = "written"
              /\ head' = head /\ item' = item
            BY <1>2, <2>3 DEF WriteDescriptor, WriteDescriptorLinux
        <3> QED
            BY <1>1, <1>2, <2>1, <3>1
               DEF RequestsCounted, InTransit, Closing, Current, Prompts
    <2>4. CASE r = "resp" /\ Put(r)
        <3>1. ppc'["req"] = ppc["req"] /\ item' = item
            BY <1>2, <2>4 DEF Put, WriteDescriptor, WriteDescriptorLinux, PublishLinux,
                              Publish
        <3>2. head'["req"] = head["req"]
            BY <1>2, <2>4 DEF Put, WriteDescriptor, WriteDescriptorLinux, PublishLinux,
                              Publish
        <3> QED
            BY <1>1, <2>1, <3>1, <3>2, RequestsFrame
    <2>5. CASE Move(r)
        <3>1. UNCHANGED <<head, ppc, item>>
            BY <2>5 DEF Move, Wake, ReleaseLinux, Release, producerVars
        <3> QED
            BY <1>1, <2>1, <3>1, RequestsFrame
    <2> QED
        BY <1>2, <1>4, <2>2, <2>3, <2>4, <2>5 DEF RingStep, Put, PublishLinux
<1>5. CASE UNCHANGED vars
    BY <1>1, <1>5, RequestsFrame
       DEF vars, linuxVars, ringVars, producerVars, poolVars, clientVars
<1> QED
    BY <1>3, <1>4, <1>5, RequestsClient, RequestsServer DEF SessionNext, Finished

\* What ResponsesCounted speaks of is left alone.
LEMMA ResponsesFrame ==
    ASSUME ResponsesCounted, UNCHANGED <<spc, seq>>,
           head'["resp"] = head["resp"], ppc'["resp"] = ppc["resp"],
           tail'["req"] = tail["req"], cpc'["req"] = cpc["req"],
           writing'["server"] = writing["server"]
    PROVE  ResponsesCounted'
BY DEF ResponsesCounted, Serving, InTransit

LEMMA ResponsesServer ==
    ASSUME SessionInv, ServerStep
    PROVE  ResponsesCounted'
<1>1. Types /\ RingsOK /\ Control /\ ResponsesCounted
    BY DEF SessionInv
<1>2. /\ ppc \in [Ring -> {"idle", "waiting", "written", "published"}]
      /\ cpc \in [Ring -> {"idle", "selecting", "woken", "polling", "read",
                           "released"}]
      /\ head \in [Ring -> Nat] /\ tail \in [Ring -> Nat]
      /\ Ring = {"req", "resp"} /\ Process = {"client", "server"}
    BY <1>1, Shape, Rings
<1>3. head' = head
    BY ServerLeaves
<1>4. CASE AwaitRequest
    <2>1. /\ cpc'["req"] \in {"selecting", "polling"} /\ cpc["req"] = "idle"
          /\ UNCHANGED <<tail, ppc, writing, spc, seq>>
        BY <1>2, <1>4 DEF AwaitRequest, StartDequeue, Select, DequeueCall,
                          producerVars, poolVars, serverVars
    <2> QED
        BY <1>1, <1>3, <2>1 DEF ResponsesCounted, Serving, InTransit
<1>5. CASE CheckRequest
    <2>1. /\ cpc["req"] = "woken" /\ cpc'["req"] \in {"idle", "polling"}
          /\ spc' \in {spc, "stopped"}
          /\ UNCHANGED <<tail, ppc, writing, seq>>
        BY <1>2, <1>5 DEF CheckRequest, CheckCursors, producerVars, poolVars
    <2>2. spc = "receiving"
        BY <1>1, <2>1 DEF Control
    <2> QED
        BY <1>1, <1>2, <1>3, <2>1, <2>2 DEF ResponsesCounted, Serving, InTransit
<1>6. CASE ReadRequest
    <2>1. /\ cpc["req"] = "polling" /\ cpc'["req"] = "read"
          /\ UNCHANGED <<tail, ppc, writing, spc, seq>>
        BY <1>2, <1>6 DEF ReadRequest, Take, TakeLinux, ReadDescriptor,
                          producerVars, poolVars, serverVars
    <2> QED
        BY <1>1, <1>3, <2>1 DEF ResponsesCounted, Serving, InTransit
<1>7. CASE RequestReturned
    <2>1. /\ cpc["req"] = "released" /\ cpc'["req"] = "idle"
          /\ spc' \in {"stopped", "generating"}
          /\ seq' = LateDescriptor("req").seq
          /\ UNCHANGED <<tail, ppc, writing>>
        BY <1>2, <1>7 DEF RequestReturned, ReturnLinux, DequeueReturn,
                          producerVars, poolVars
    <2>2. spc = "receiving"
        BY <1>1, <2>1 DEF Control
    <2>3. seq' \in 0 .. Turns
        BY <1>1, <1>2, <2>1, LateItem, Rings DEF Descriptor
    <2>4. ppc["resp"] = "idle" /\ writing["server"] = None
        BY <1>1, <2>2 DEF Control
    <2> QED
        BY <1>1, <1>2, <1>3, <2>1, <2>2, <2>3, <2>4
           DEF ResponsesCounted, Serving, InTransit
<1>8. CASE IdleTimeout
    <2>1. /\ cpc["req"] \in {"selecting", "polling"} /\ spc' = "stopped"
          /\ UNCHANGED <<tail, ppc, writing, seq>>
        BY <1>2, <1>8 DEF IdleTimeout, Expire, SelectTimeout, DequeueTimeout,
                          producerVars, poolVars
    <2>2. spc = "receiving"
        BY <1>1, <2>1 DEF Control
    <2> QED
        BY <1>1, <1>2, <1>3, <2>1, <2>2 DEF ResponsesCounted, Serving, InTransit
<1>9. CASE Generate
    <2>1. /\ spc = "generating" /\ spc' = "replying"
          /\ UNCHANGED <<tail, ppc, cpc, seq>>
        BY <1>9 DEF Generate, linuxVars, ringVars, producerVars, consumerVars
    <2>2. ppc["resp"] = "idle"
        BY <1>1, <1>2, <2>1 DEF Control
    <2> QED
        BY <1>1, <1>2, <1>3, <2>1, <2>2 DEF ResponsesCounted, Serving, InTransit
<1>10. CASE GenerateRaises
    <2>1. /\ spc = "generating" /\ spc' = "dead"
          /\ UNCHANGED <<tail, ppc, cpc, seq, writing>>
        BY <1>10 DEF GenerateRaises, linuxVars, ringVars, producerVars, consumerVars,
                     poolVars
    <2> QED
        BY <1>1, <1>2, <1>3, <2>1 DEF ResponsesCounted, Serving, InTransit
<1>11. CASE EnqueueResponse
    <2>1. writing["server"] # None /\ writing'["server"] = None
        BY <1>1, <1>2, <1>11, AdvanceEffect DEF EnqueueResponse, StartEnqueue
    <2>2. /\ ppc'["resp"] = "waiting"
          /\ UNCHANGED <<tail, cpc, spc, seq>>
        BY <1>2, <1>11 DEF EnqueueResponse, StartEnqueue, EnqueueCall, consumerVars,
                           serverVars
    <2> QED
        BY <1>1, <1>2, <1>3, <2>1, <2>2 DEF ResponsesCounted, Serving, InTransit
<1>12. CASE ResponseSent
    <2>1. /\ ppc["resp"] = "published" /\ ppc'["resp"] = "idle"
          /\ spc' = "receiving"
          /\ UNCHANGED <<tail, cpc, seq, writing>>
        BY <1>2, <1>12 DEF ResponseSent, EndEnqueue, Notify, EnqueueReturn,
                           consumerVars, poolVars
    <2>2. writing["server"] = None /\ cpc["req"] # "released"
        BY <1>1, <2>1 DEF Control
    <2> QED
        BY <1>1, <1>2, <1>3, <2>1, <2>2 DEF ResponsesCounted, Serving, InTransit
<1> QED
    BY <1>4, <1>5, <1>6, <1>7, <1>8, <1>9, <1>10, <1>11, <1>12 DEF ServerStep

LEMMA ResponsesStep ==
    ASSUME SessionInv, [SessionNext]_vars
    PROVE  ResponsesCounted'
<1>1. Types /\ RingsOK /\ Control /\ ResponsesCounted
    BY DEF SessionInv
<1>2. /\ ppc \in [Ring -> {"idle", "waiting", "written", "published"}]
      /\ cpc \in [Ring -> {"idle", "selecting", "woken", "polling", "read",
                           "released"}]
      /\ head \in [Ring -> Nat] /\ tail \in [Ring -> Nat]
      /\ Ring = {"req", "resp"} /\ Process = {"client", "server"}
    BY <1>1, Shape, Rings
<1>3. ASSUME NEW p \in Process, FillOne(p)
      PROVE  ResponsesCounted'
    <2>1. writing'["server"] # None <=> writing["server"] # None
        BY <1>1, <1>2, <1>3, FillEffect DEF FillOne
    <2>2. UNCHANGED <<head, ppc, tail, cpc, spc, seq>>
        BY <1>3 DEF FillOne, linuxVars, ringVars, producerVars, consumerVars, serverVars
    <2> QED
        BY <1>1, <2>1, <2>2 DEF ResponsesCounted, Serving, InTransit
<1>4. ASSUME NEW r \in Ring, RingStep(r)
      PROVE  ResponsesCounted'
    <2>1. UNCHANGED <<writing, spc, seq>>
        BY <1>4 DEF RingStep, poolVars, serverVars
    <2>2. CASE r = "resp" /\ Publish(r)
        <3>1. /\ ppc["resp"] = "written" /\ ppc'["resp"] = "published"
              /\ head'["resp"] = head["resp"] + 1
              /\ UNCHANGED <<tail, cpc>>
            BY <1>2, <2>2 DEF Publish, consumerVars
        <3>2. writing["server"] = None /\ spc = "replying"
            BY <1>1, <3>1 DEF Control
        <3> QED
            BY <1>1, <1>2, <2>1, <3>1, <3>2 DEF ResponsesCounted, Serving, InTransit
    <2>3. CASE r = "resp" /\ (WriteDescriptor(r) \/ WriteDescriptorLinux(r))
        <3>1. /\ ppc["resp"] = "waiting" /\ ppc'["resp"] = "written"
              /\ UNCHANGED <<head, tail, cpc>>
            BY <1>2, <2>3 DEF WriteDescriptor, WriteDescriptorLinux, consumerVars
        <3> QED
            BY <1>1, <1>2, <2>1, <3>1 DEF ResponsesCounted, Serving, InTransit
    <2>4. CASE r = "req" /\ Put(r)
        <3>1. CASE Publish(r)
            BY <1>1, <1>2, <2>1, <2>4, <3>1, ResponsesFrame DEF Publish, consumerVars
        <3>2. CASE WriteDescriptor(r) \/ WriteDescriptorLinux(r)
            BY <1>1, <1>2, <2>1, <2>4, <3>2, ResponsesFrame
               DEF WriteDescriptor, WriteDescriptorLinux, consumerVars
        <3> QED
            BY <2>4, <3>1, <3>2 DEF Put, PublishLinux
    <2>5. CASE r = "req" /\ Release(r)
        <3>1. /\ cpc["req"] = "read" /\ cpc'["req"] = "released"
              /\ tail'["req"] = tail["req"] + 1
              /\ UNCHANGED <<head, ppc>>
            BY <1>1, <1>2, <2>5 DEF Release, RingsOK, producerVars
        <3>2. spc = "receiving" /\ ppc["resp"] = "idle" /\ writing["server"] = None
            BY <1>1, <3>1 DEF Control
        <3> QED
            BY <1>1, <1>2, <2>1, <3>1, <3>2 DEF ResponsesCounted, Serving, InTransit
    <2>6. CASE r = "req" /\ Wake(r)
        <3>1. /\ cpc["req"] = "selecting" /\ cpc'["req"] = "woken"
              /\ UNCHANGED <<head, ppc, tail>>
            BY <1>2, <2>6 DEF Wake, producerVars
        <3> QED
            BY <1>1, <2>1, <3>1 DEF ResponsesCounted, Serving, InTransit
    <2>7. CASE r = "resp" /\ (Wake(r) \/ Release(r))
        <3>1. tail'["req"] = tail["req"] /\ cpc'["req"] = cpc["req"]
            BY <1>2, <2>7 DEF Wake, Release
        <3>2. UNCHANGED <<head, ppc>>
            BY <2>7 DEF Wake, Release, producerVars
        <3> QED
            BY <1>1, <2>1, <3>1, <3>2, ResponsesFrame
    <2> QED
        BY <1>2, <1>4, <2>2, <2>3, <2>4, <2>5, <2>6, <2>7
           DEF RingStep, Put, PublishLinux, Move, ReleaseLinux
<1>5. CASE UNCHANGED vars
    BY <1>1, <1>5, ResponsesFrame
       DEF vars, linuxVars, ringVars, producerVars, consumerVars, poolVars, serverVars
<1>6. CASE ClientStep
    BY <1>1, <1>6, ClientLeaves, ResponsesFrame DEF serverVars
<1> QED
    BY <1>3, <1>4, <1>5, <1>6, ResponsesServer DEF SessionNext, Finished

-----------------------------------------------------------------------------
(* The theorems for every session *)

LEMMA SessionInvInit == SessionInit => SessionInv /\ WakeupsMatch
<1> SUFFICES ASSUME SessionInit
             PROVE  SessionInv
    BY WakeupsInit DEF SessionInit
<1>1. /\ Ring = {"req", "resp"} /\ Process = {"client", "server"}
      /\ PoolSize \in Nat \ {0} /\ Turns \in Nat \ {0}
    BY Rings, Sizes
<1>2. /\ RingTypeOK /\ RingsOK /\ evt \in [Ring -> Nat]
    <2>1. LinuxInit
        BY DEF SessionInit
    <2> QED
        BY <2>1 DEF LinuxInit, Init, RingTypeOK, RingsOK
<1>3. PoolTypes /\ ClientTypes /\ ServerTypes
    BY <1>1 DEF SessionInit, PoolTypes, ClientTypes, ServerTypes, Cell
<1>4. text \in [Process -> Body]
    BY NothingType DEF SessionInit
<1>5. Types
    BY <1>2, <1>3, <1>4 DEF Types, SessionInit
<1>6. \A r \in Ring : head[r] = 0 /\ tail[r] = 0 /\ ppc[r] = "idle" /\ cpc[r] = "idle"
    BY DEF SessionInit, LinuxInit, Init
<1>7. Control
    BY <1>1, <1>6 DEF SessionInit, Control
<1>8. RequestsCounted
    <2>1. Prompts \in Nat
        BY <1>5, TurnTypes, Sizes
    <2> QED
        BY <1>1, <1>6, <2>1 DEF SessionInit, RequestsCounted, InTransit, Closing
<1>9. ResponsesCounted
    BY <1>1, <1>6 DEF SessionInit, ResponsesCounted, Serving, InTransit
<1> QED
    BY <1>2, <1>5, <1>7, <1>8, <1>9 DEF SessionInv

LEMMA SessionInvStep == SessionInv /\ [SessionNext]_vars => SessionInv'
BY TypesStep, ControlStep, RequestsStep, ResponsesStep DEF SessionInv

\* The inductive invariant of every session, in time or not.
THEOREM SessionInvariant == SessionSpec => []SessionInv
BY SessionInvInit, SessionInvStep, PTL DEF SessionSpec

\* The rings, the pool and both processes keep their types; no payload that
\* is being written reaches past the end of the pool.
THEOREM SessionTypeCorrect == SessionSpec => []SessionTypeOK
<1>1. SessionInv => SessionTypeOK
    BY DEF SessionInv, Types, PoolTypes, ClientTypes, ServerTypes, SessionTypeOK
<1> QED
    BY <1>1, SessionInvariant, PTL

\* On Linux the eventfd of each ring counts the descriptors nobody has woken
\* up for, whatever times out and however often the ring is overrun.
THEOREM WakeupsCounted == SessionSpec => []SessionWakeups
<1> DEFINE W == SessionInv /\ SessionWakeups
<1>1. SessionInit => W
    BY SessionInvInit DEF SessionWakeups
<1>2. W /\ [SessionNext]_vars => W'
    <2> SUFFICES ASSUME W, [SessionNext]_vars, Linux'
                 PROVE  WakeupsMatch'
        BY SessionInvStep DEF SessionWakeups
    <2>1. Linux /\ PlatformStep
        BY SessionRings DEF Linux
    <2> QED
        BY <2>1, WakeupsStep DEF SessionWakeups, PlatformStep, SessionInv, Types
<1>3. W => SessionWakeups
    OBVIOUS
<1> QED
    BY <1>1, <1>2, <1>3, PTL DEF SessionSpec
=============================================================================
