--------------------------- MODULE MCErpcEndpoint ---------------------------
(***************************************************************************)
(* ErpcEndpoint for TLC: a fixed set of send_message calls, each made at   *)
(* most once in any order, between two endpoints whose duplicate caches    *)
(* are small enough to overflow.                                           *)
(***************************************************************************)
EXTENDS ErpcEndpoint, TLC

CONSTANTS
    a, b,           \* the endpoints
    long, short,    \* a payload of two fragments, and the empty payload
    MaxDelivered    \* bound on the messages one endpoint completes

MCSize == (long :> MaxChunk + 1) @@ (short :> 0)

Call(from, to, id, flags, text) ==
    [src |-> from, dst |-> to, id |-> id, flags |-> flags, text |-> text]

\* a asks b, b answers under the id it was asked with, a asks again.
Calls ==
    { Call(a, b, 1, "REQUEST", long),
      Call(b, a, 1, "RESPONSE", short),
      Call(a, b, 2, "REQUEST", short) }

MCNext ==
    \/ \E m \in Calls \ sent : Send(m)
    \/ \E e \in Endpoint :
          /\ Step(e)
          /\ Len(ready'[e]) + Len(popped'[e]) <= MaxDelivered

MCSpec == Init /\ [][MCNext]_endpointVars
=============================================================================
