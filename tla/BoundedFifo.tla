---------------------------- MODULE BoundedFifo ----------------------------
(***************************************************************************)
(* What a ring of the shared region promises its two users: a first-in     *)
(* first-out queue of at most Capacity items.  `delivered` is what the     *)
(* consumer has taken, in order.  Each element of Ring is a queue of its   *)
(* own.                                                                    *)
(***************************************************************************)
EXTENDS Naturals, Sequences

CONSTANTS Ring, Item, Capacity

VARIABLES queue, delivered

fifoVars == <<queue, delivered>>

Init ==
    /\ queue = [r \in Ring |-> <<>>]
    /\ delivered = [r \in Ring |-> <<>>]

Put(r, x) ==
    /\ Len(queue[r]) < Capacity
    /\ queue' = [queue EXCEPT ![r] = Append(@, x)]
    /\ UNCHANGED delivered

Take(r) ==
    /\ queue[r] # <<>>
    /\ delivered' = [delivered EXCEPT ![r] = Append(@, Head(queue[r]))]
    /\ queue' = [queue EXCEPT ![r] = Tail(@)]

Next == \E r \in Ring : Take(r) \/ \E x \in Item : Put(r, x)

Spec == Init /\ [][Next]_fifoVars
=============================================================================
