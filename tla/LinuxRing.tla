----------------------------- MODULE LinuxRing -----------------------------
(***************************************************************************)
(* The rings of memllm_linux_shm.py: the layout, the cursors and most of   *)
(* the steps are those of ShmRing.  What differs: enqueue never waits for  *)
(* room, it ends with a write to an eventfd in semaphore mode, and dequeue *)
(* blocks on that eventfd before it reads the cursors.                     *)
(***************************************************************************)
EXTENDS ShmRing

VARIABLE evt    \* evt[r]: the counter of req_evtfd or resp_evtfd

linuxVars == <<ringVars, evt>>

\* No test of the tail: the descriptor is written whatever the slot holds.
WriteDescriptorLinux(r) ==
    /\ ppc[r] = "waiting"
    /\ slot' = [slot EXCEPT ![r][SlotOf(head[r])] = item[r]]
    /\ ppc' = [ppc EXCEPT ![r] = "written"]
    /\ UNCHANGED <<head, item, consumerVars, evt>>

PublishLinux(r) == Publish(r) /\ UNCHANGED evt

\* Mutant: no eventfd_write.
ForgetNotify(r) == EnqueueReturn(r) /\ UNCHANGED evt

\* eventfd_write, and the call returns.
Notify(r) ==
    /\ EnqueueReturn(r)
    /\ evt' = [evt EXCEPT ![r] = @ + 1]

Select(r) ==
    /\ cpc[r] = "idle"
    /\ cpc' = [cpc EXCEPT ![r] = "selecting"]
    /\ UNCHANGED <<tail, localTail, got, delivered, producerVars, evt>>

SelectTimeout(r) ==
    /\ cpc[r] = "selecting"
    /\ cpc' = [cpc EXCEPT ![r] = "idle"]
    /\ UNCHANGED <<tail, localTail, got, delivered, producerVars, evt>>

\* select reports the eventfd readable; eventfd_read takes one.
Wake(r) ==
    /\ cpc[r] = "selecting"
    /\ evt[r] > 0
    /\ evt' = [evt EXCEPT ![r] = @ - 1]
    /\ cpc' = [cpc EXCEPT ![r] = "woken"]
    /\ UNCHANGED <<tail, localTail, got, delivered, producerVars>>

\* An empty ring after a wake: None is returned.
Empty(r) == head[r] <= tail[r]

\* Mutant: the tail is not read again after the wake-up.
CheckStaleCursors(r) ==
    /\ cpc[r] = "woken"
    /\ cpc' = [cpc EXCEPT ![r] = IF Empty(r) THEN "idle" ELSE "polling"]
    /\ UNCHANGED <<tail, localTail, got, delivered, producerVars, evt>>

CheckCursors(r) ==
    /\ cpc[r] = "woken"
    /\ localTail' = [localTail EXCEPT ![r] = tail[r]]
    /\ cpc' = [cpc EXCEPT ![r] = IF Empty(r) THEN "idle" ELSE "polling"]
    /\ UNCHANGED <<tail, got, delivered, producerVars, evt>>

TakeLinux(r) == ReadDescriptor(r) /\ UNCHANGED evt

ReleaseLinux(r) == Release(r) /\ UNCHANGED evt

ReturnLinux(r) == DequeueReturn(r) /\ UNCHANGED evt

LinuxInit == Init /\ evt = [r \in Ring |-> 0]

LinuxStep(r) ==
    \/ \E x \in Item : EnqueueCall(r, x) /\ UNCHANGED evt
    \/ WriteDescriptorLinux(r)
    \/ PublishLinux(r)
    \/ Notify(r)
    \/ Select(r)
    \/ SelectTimeout(r)
    \/ Wake(r)
    \/ CheckCursors(r)
    \/ TakeLinux(r)
    \/ ReleaseLinux(r)
    \/ ReturnLinux(r)

LinuxNext == \E r \in Ring : LinuxStep(r)

LinuxSpec == LinuxInit /\ [][LinuxNext]_linuxVars

-----------------------------------------------------------------------------
(* Properties *)

\* A wake-up is never wasted nor missing: the eventfd counts the published
\* descriptors nobody has woken up for, so a woken consumer finds one, and a
\* descriptor never waits behind an eventfd at zero.
WakeupsMatch ==
    \A r \in Ring :
        head[r] - tail[r] =
            evt[r] + (IF ppc[r] = "published" THEN 1 ELSE 0)
                   + (IF cpc[r] \in {"woken", "polling", "read"} THEN 1 ELSE 0)
=============================================================================
