---------------------------- MODULE MCShmSession ----------------------------
(***************************************************************************)
(* ShmSession for TLC: prompts and replies of one to three cells in a pool *)
(* they do not divide, so that the allocator starts over inside a turn.    *)
(***************************************************************************)
EXTENDS ShmSession

MCRing == {"req", "resp"}
MCItem == Descriptor

Session(linux, timely, fails, turns) ==
    [linux |-> linux, timely |-> timely, fails |-> fails, turns |-> turns]

\* Four turns in time on either platform; turns in time with a model that may
\* raise in any of them; and turns cut short by timeouts.  Where requests may be
\* left unread there are as many of them as slots, and on Windows also more, so
\* that enqueue waits for room.
MCSettings ==
    { Session(FALSE, TRUE, FALSE, 4), Session(TRUE, TRUE, FALSE, 4),
      Session(FALSE, TRUE, TRUE, 4), Session(TRUE, TRUE, TRUE, 2),
      Session(FALSE, FALSE, TRUE, 2), Session(FALSE, FALSE, TRUE, 3),
      Session(TRUE, FALSE, TRUE, 2) }

MCSize ==
    [t \in Texts |->
        CASE t[1] = "user"      -> 1 + (t[2] % 2)
          [] t[1] = "assistant" -> 3 - (t[2] % 2)
          [] t[1] = "shutdown"  -> 1]
=============================================================================
