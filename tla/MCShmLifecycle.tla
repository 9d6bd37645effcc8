--------------------------- MODULE MCShmLifecycle ---------------------------
(***************************************************************************)
(* ShmLifecycle for TLC.  Clients are alike and servers are alike: it is   *)
(* enough that the first of each is the first to be started.               *)
(***************************************************************************)
EXTENDS ShmLifecycle

CONSTANTS c1, c2, s1, s2

InOrder ==
    /\ pc[c2] # "off" => pc[c1] # "off"
    /\ spc[s2] # "off" => spc[s1] # "off"

MCSpec == Init /\ [][Next /\ InOrder']_vars /\ Fairness
=============================================================================
