------------------------------ MODULE Backoff ------------------------------
(***************************************************************************)
(* The clock of one send_message that gets no answer: when its rounds go   *)
(* out, and whether max_retries or the hard deadline ends it.  ErpcEndpoint *)
(* lets either happen at any time, and UdpRpc lets only the first happen   *)
(* to a timely send; this module is what that rests on.                    *)
(*                                                                         *)
(* Times are integers, in a unit small against Rto.  A pass of the loop    *)
(* polls, tests the deadline and sleeps; it comes at most late after it is *)
(* due, which stands for POLL_SLEEP, the granularity of the system's timer *)
(* and the time poll_once takes.                                           *)
(***************************************************************************)
EXTENDS Integers

CONSTANTS
    Rto,           \* rto, the first timeout
    MaxRetries,    \* max_retries
    Jitter,        \* values of random.uniform(0.85, 1.15), in hundredths
    Lateness       \* how late passes may be, system by system

ASSUME BackoffAssumption ==
    /\ Rto \in Nat \ {0}
    /\ MaxRetries \in Nat \ {0}
    /\ Jitter \subseteq 85 .. 115
    /\ Lateness \subseteq Nat

VARIABLES
    late,        \* how late a pass may be on this system
    lastSend,    \* out.last_send, since the call
    curRto,      \* cur_rto
    attempts,    \* out.attempts
    result       \* how the call ended

vars == <<late, lastSend, curRto, attempts, result>>

MaxRto == 8 * Rto

\* Mutant: no allowance for the first and the last wait.
ShortDeadline == MaxRto * MaxRetries

Deadline == MaxRto * (MaxRetries + 2)

Capped(t) == IF t > MaxRto THEN MaxRto ELSE t

\* Mutant: no growth.
ConstantRto(rto, j) == Capped(rto)

NextRto(rto, j) == (Capped((rto * 17) \div 10) * j) \div 100

\* When a round goes out: at once, then a timeout after the round before.
Due == IF attempts = 0 THEN 0 ELSE lastSend + curRto

LastRound == attempts + 1 > MaxRetries

\* The timeout grows with every round but the first.  The last round raises
\* before the deadline is looked at.  Passes are too frequent for a round to
\* be due long after the deadline.
Round(l, j) ==
    /\ result = "sending"
    /\ Due <= Deadline + late
    /\ lastSend' = Due + l
    /\ curRto' = IF attempts = 0 THEN curRto ELSE NextRto(curRto, j)
    /\ attempts' = attempts + 1
    /\ UNCHANGED late
    /\ result' = IF LastRound THEN "gave up"
                 ELSE IF Due + l > Deadline THEN "deadline" ELSE "sending"

\* A pass before the next round is due finds the deadline behind it.
DeadlinePasses ==
    /\ result = "sending"
    /\ Due > Deadline
    /\ result' = "deadline"
    /\ UNCHANGED <<late, lastSend, curRto, attempts>>

\* The acknowledgement comes.
Acked ==
    /\ result = "sending"
    /\ attempts > 0
    /\ result' = "acked"
    /\ UNCHANGED <<late, lastSend, curRto, attempts>>

Init ==
    /\ late \in Lateness
    /\ lastSend = 0
    /\ curRto = Rto
    /\ attempts = 0
    /\ result = "sending"

Next ==
    \/ \E l \in {0, late}, j \in Jitter : Round(l, j)
    \/ DeadlinePasses
    \/ Acked

Spec == Init /\ [][Next]_vars

-----------------------------------------------------------------------------
(* Properties *)

\* The hard deadline does not cut the rounds short on a system whose passes
\* are at most 0.7 * Rto late, although it allows only MaxRto a round and
\* jitter makes a timeout up to 15% longer than that.
RoundsBeforeDeadline == 10 * late <= 7 * Rto => result # "deadline"

\* The rounds outlast a silence of five times what rounds at a fixed interval
\* of Rto would: they back off, whatever the jitter.
OutlastsSilence ==
    result = "gave up" => lastSend >= 5 * Rto * (MaxRetries + 1)
=============================================================================
