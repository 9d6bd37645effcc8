------------------------------ MODULE ShmRing ------------------------------
(***************************************************************************)
(* The descriptor rings of memllm_region.py, one shared-memory access at a *)
(* time: enqueue_request and enqueue_response are the same code on two     *)
(* rings, and so are dequeue_request and dequeue_response.  A ring has one *)
(* producer and one consumer process, which share its two cursors and its  *)
(* slots and nothing else; neither takes a lock.                           *)
(*                                                                         *)
(* An item is what a descriptor holds.  The cursors are 64-bit and never   *)
(* wrap in practice; here they are naturals.  Stores are seen in program   *)
(* order, as on the x86 machines the region is written for.                *)
(***************************************************************************)
EXTENDS Integers, Sequences

CONSTANTS
    Ring,        \* the request ring and the response ring
    Item,        \* contents of a descriptor
    Capacity,    \* RING_CAPACITY, slots in a ring
    None

ASSUME RingAssumption == Capacity \in Nat \ {0} /\ None \notin Item

VARIABLES
    head,        \* ring_head, resp_head: written by the producer
    tail,        \* ring_tail, resp_tail: written by the consumer
    slot,        \* the descriptors
    ppc, item,   \* the producer's call in progress, and its argument
    cpc,         \* the consumer's call in progress
    localTail,   \* the tail it read on entry
    got,         \* and the descriptor it read
    delivered    \* history: what dequeue calls took, in order

producerVars == <<head, slot, ppc, item>>
consumerVars == <<tail, cpc, localTail, got, delivered>>
ringVars     == <<producerVars, consumerVars>>

SlotOf(i) == i % Capacity

-----------------------------------------------------------------------------
(* enqueue, once the payload is in the data pool *)

EnqueueCall(r, x) ==
    /\ ppc[r] = "idle"
    /\ ppc' = [ppc EXCEPT ![r] = "waiting"]
    /\ item' = [item EXCEPT ![r] = x]
    /\ UNCHANGED <<head, slot, consumerVars>>

\* Mutant: one descriptor too many.
RingOverfull(r) == head[r] - tail[r] > Capacity

\* Mutant: one slot is always left free.
RingFullEarly(r) == head[r] - tail[r] >= Capacity - 1

RingFull(r) == head[r] - tail[r] >= Capacity

\* The wait for room is over, and the descriptor is filled in.
WriteDescriptor(r) ==
    /\ ppc[r] = "waiting"
    /\ ~RingFull(r)
    /\ slot' = [slot EXCEPT ![r][SlotOf(head[r])] = item[r]]
    /\ ppc' = [ppc EXCEPT ![r] = "written"]
    /\ UNCHANGED <<head, item, consumerVars>>

\* "release: increment head AFTER writing descriptor"
Publish(r) ==
    /\ ppc[r] = "written"
    /\ head' = [head EXCEPT ![r] = @ + 1]
    /\ ppc' = [ppc EXCEPT ![r] = "published"]
    /\ UNCHANGED <<slot, item, consumerVars>>

EnqueueReturn(r) ==
    /\ ppc[r] = "published"
    /\ ppc' = [ppc EXCEPT ![r] = "idle"]
    /\ UNCHANGED <<head, slot, item, consumerVars>>

-----------------------------------------------------------------------------
(* dequeue *)

\* The tail is read once, before the polling loop.
DequeueCall(r) ==
    /\ cpc[r] = "idle"
    /\ localTail' = [localTail EXCEPT ![r] = tail[r]]
    /\ cpc' = [cpc EXCEPT ![r] = "polling"]
    /\ UNCHANGED <<tail, got, delivered, producerVars>>

\* The deadline passes: None is returned.
DequeueTimeout(r) ==
    /\ cpc[r] = "polling"
    /\ cpc' = [cpc EXCEPT ![r] = "idle"]
    /\ UNCHANGED <<tail, localTail, got, delivered, producerVars>>

Available(r) == head[r] > localTail[r]

ReadDescriptor(r) ==
    /\ cpc[r] = "polling"
    /\ Available(r)
    /\ got' = [got EXCEPT ![r] = slot[r][SlotOf(localTail[r])]]
    /\ cpc' = [cpc EXCEPT ![r] = "read"]
    /\ UNCHANGED <<tail, localTail, delivered, producerVars>>

\* The slot is the producer's again.
Release(r) ==
    /\ cpc[r] = "read"
    /\ tail' = [tail EXCEPT ![r] = localTail[r] + 1]
    /\ delivered' = [delivered EXCEPT ![r] = Append(@, got[r])]
    /\ cpc' = [cpc EXCEPT ![r] = "released"]
    /\ UNCHANGED <<localTail, got, producerVars>>

\* What dequeue_request returns as seq_no and timestamp_ns is read from the
\* slot now, after the release.
LateDescriptor(r) == slot[r][SlotOf(localTail[r])]

DequeueReturn(r) ==
    /\ cpc[r] = "released"
    /\ cpc' = [cpc EXCEPT ![r] = "idle"]
    /\ UNCHANGED <<tail, localTail, got, delivered, producerVars>>

-----------------------------------------------------------------------------
Init ==
    /\ head = [r \in Ring |-> 0]
    /\ tail = [r \in Ring |-> 0]
    /\ slot = [r \in Ring |-> [i \in 0 .. Capacity - 1 |-> None]]
    /\ ppc = [r \in Ring |-> "idle"]
    /\ item = [r \in Ring |-> None]
    /\ cpc = [r \in Ring |-> "idle"]
    /\ localTail = [r \in Ring |-> 0]
    /\ got = [r \in Ring |-> None]
    /\ delivered = [r \in Ring |-> <<>>]

ProducerStep(r) ==
    \/ \E x \in Item : EnqueueCall(r, x)
    \/ WriteDescriptor(r)
    \/ Publish(r)
    \/ EnqueueReturn(r)

ConsumerStep(r) ==
    \/ DequeueCall(r)
    \/ DequeueTimeout(r)
    \/ ReadDescriptor(r)
    \/ Release(r)
    \/ DequeueReturn(r)

Next == \E r \in Ring : ProducerStep(r) \/ ConsumerStep(r)

Spec == Init /\ [][Next]_ringVars

-----------------------------------------------------------------------------
(* Properties *)

\* Every variable stays in its range.
RingTypeOK ==
    /\ head \in [Ring -> Nat]
    /\ tail \in [Ring -> Nat]
    /\ slot \in [Ring -> [0 .. Capacity - 1 -> Item \cup {None}]]
    /\ ppc \in [Ring -> {"idle", "waiting", "written", "published"}]
    /\ item \in [Ring -> Item \cup {None}]
    /\ cpc \in [Ring -> {"idle", "selecting", "woken", "polling", "read",
                         "released"}]
    /\ localTail \in [Ring -> Nat]
    /\ got \in [Ring -> Item \cup {None}]
    /\ delivered \in [Ring -> Seq(Item \cup {None})]

\* The head never overtakes the tail by more than the slots there are, and the
\* tail never overtakes the head, although each cursor is tested against a
\* copy of the other that may be out of date.
CursorsInBounds ==
    \A r \in Ring : tail[r] <= head[r] /\ head[r] - tail[r] <= Capacity

\* The unread descriptors of each ring, oldest first.
Unread ==
    [r \in Ring |->
        [i \in 1 .. head[r] - tail[r] |-> slot[r][SlotOf(tail[r] + i - 1)]]]

Fifo == INSTANCE BoundedFifo WITH queue <- Unread

\* A ring is a bounded first-in first-out queue: nothing published is lost,
\* overwritten, reordered or taken twice, however the two processes'
\* accesses interleave.
IsFifo == Fifo!Spec
=============================================================================
