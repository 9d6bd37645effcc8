--------------------------- MODULE BackoffProofs ---------------------------
(***************************************************************************)
(* Proofs about Backoff, for every first timeout, every jitter within the  *)
(* 15% of the code and every number of retries for which the properties    *)
(* hold: up to 20, the code's default, no deadline cuts the rounds short   *)
(* (RoundsInTime), and from 16 on they outlast five times the silence that *)
(* rounds at a fixed interval would (SilenceOutlasted).                    *)
(*                                                                         *)
(* Both follow from bounds on the timeout and on the time after so many    *)
(* rounds, in hundredths of Rto: the timeout grows by 1.7 a round, with    *)
(* the jitter at one end of its range, until it meets the cap of 8 * Rto.  *)
(* The entries of the tables are those products, rounded up or down.       *)
(***************************************************************************)
EXTENDS Backoff, TLAPS

-----------------------------------------------------------------------------
(* The growth of the timeout *)

\* Multiplying keeps the order.
LEMMA Times ==
    ASSUME NEW a \in Int, NEW b \in Int, a <= b, NEW n \in Nat
    PROVE  a * n <= b * n
BY SMT

\* What holds in hundredths holds.
LEMMA Hundredths ==
    ASSUME NEW a \in Nat, NEW b \in Nat, NEW x \in Nat, 100 * a <= x, x <= 100 * b
    PROVE  a <= b
BY SMT

\* The parameters are numbers, and the jitter within 15 %.
LEMMA Parameters ==
    /\ Rto \in Nat /\ Rto > 0 /\ MaxRetries \in Nat /\ MaxRetries > 0
    /\ \A j \in Jitter : j \in Nat /\ 85 <= j /\ j <= 115
    /\ Lateness \subseteq Nat
    /\ MaxRto = 8 * Rto
BY BackoffAssumption DEF MaxRto

\* A timeout grows by at most 1.7 and the worst jitter, and by as little as the
\* best one leaves of it, up to the cap.
LEMMA NextRtoBounds ==
    ASSUME NEW rto \in Nat, NEW j \in Jitter
    PROVE  /\ NextRto(rto, j) \in Nat
           /\ 1000 * NextRto(rto, j) <= 1955 * rto
           /\ 100 * NextRto(rto, j) <= 920 * Rto
           /\ 1000 * NextRto(rto, j) + 1756 >= 1445 * rto
              \/ 100 * NextRto(rto, j) + 100 > 680 * Rto
<1> DEFINE t == (rto * 17) \div 10
           c == Capped(t)
<1>1. t \in Nat /\ 10 * t <= 17 * rto /\ 10 * t + 9 >= 17 * rto
    OBVIOUS
<1> HIDE DEF t
<1>2. /\ c \in Nat /\ c <= t /\ c <= 8 * Rto
      /\ c = t \/ c = 8 * Rto
    BY <1>1, Parameters DEF Capped
<1> HIDE DEF c
<1>3. /\ j \in Nat /\ c * j <= c * 115 /\ c * 85 <= c * j
    BY <1>2, Parameters, Times, SMT
<1> DEFINE p == c * j
<1>4. p \in Nat /\ p <= c * 115 /\ c * 85 <= p
    BY <1>2, <1>3
<1>5. NextRto(rto, j) = p \div 100
    BY DEF NextRto, t, c
<1> HIDE DEF p
<1>6. /\ p \div 100 \in Nat /\ 100 * (p \div 100) <= p
      /\ 100 * (p \div 100) + 100 > p
    BY <1>4
<1> QED
    BY <1>1, <1>2, <1>4, <1>5, <1>6, Parameters

-----------------------------------------------------------------------------
(* Rounds before the deadline *)

\* The longest timeout after n rounds, and the latest the round after them is
\* due, if each was 0.7 * Rto late.
Longest(n) ==
    CASE n = 1 -> 100
      [] n = 2 -> 196
      [] n = 3 -> 384
      [] n = 4 -> 751
      [] n > 4 -> 920

Latest(n) ==
    CASE n = 1 -> 170
      [] n = 2 -> 436
      [] n = 3 -> 890
      [] n > 3 -> 990 * n - 2249

\* The types, and a send that has not begun.
Types ==
    /\ late \in Lateness
    /\ lastSend \in Nat
    /\ curRto \in Nat
    /\ attempts \in Nat
    /\ attempts = 0 => lastSend = 0 /\ curRto = Rto
    /\ result = "sending" => attempts <= MaxRetries

\* No pass is later than 0.7 * Rto.
Punctual == 10 * late <= 7 * Rto

\* The invariant: timeout and time are within the tables.
DeadlineInv ==
    Punctual =>
        /\ result # "deadline"
        /\ result = "sending" /\ attempts > 0 =>
              /\ 100 * curRto <= Longest(attempts) * Rto
              /\ 100 * (lastSend + curRto) <= Latest(attempts) * Rto

\* What a round does.
LEMMA RoundEffect ==
    ASSUME Types, NEW l \in {0, late}, NEW j \in Jitter, Round(l, j)
    PROVE  /\ result = "sending" /\ late' = late /\ attempts' = attempts + 1
           /\ attempts \in Nat /\ attempts <= MaxRetries
           /\ lastSend \in Nat /\ curRto \in Nat /\ late \in Nat /\ l \in Nat
           /\ l <= late
           /\ attempts = 0 => lastSend' = l /\ curRto' = Rto
           /\ attempts > 0 => /\ lastSend' = lastSend + curRto + l
                              /\ curRto' = NextRto(curRto, j)
           /\ lastSend' \in Nat /\ curRto' \in Nat
           /\ result' = "sending" => attempts < MaxRetries
           /\ result' = "deadline" => attempts < MaxRetries /\ lastSend' > Deadline
<1>1. /\ result = "sending" /\ late' = late /\ attempts' = attempts + 1
      /\ lastSend' = Due + l
      /\ attempts = 0 => curRto' = curRto
      /\ attempts # 0 => curRto' = NextRto(curRto, j)
    BY DEF Round
<1>2. /\ attempts \in Nat /\ attempts <= MaxRetries
      /\ lastSend \in Nat /\ curRto \in Nat /\ late \in Lateness
      /\ attempts = 0 => lastSend = 0 /\ curRto = Rto
    BY <1>1 DEF Types
<1>3. late \in Nat /\ l \in Nat /\ l <= late
    BY <1>2, Parameters
<1>4. /\ attempts = 0 => Due = 0
      /\ attempts # 0 => Due = lastSend + curRto
    BY DEF Due
<1>5. NextRto(curRto, j) \in Nat
    BY <1>2, NextRtoBounds
<1>6. result' = "sending" \/ result' = "deadline" => ~LastRound
    BY DEF Round
<1>7. ~LastRound => attempts < MaxRetries
    BY <1>2, Parameters DEF LastRound
<1>8. result' = "deadline" => Due + l > Deadline
    BY DEF Round
<1>9. lastSend' \in Nat /\ curRto' \in Nat
    BY <1>1, <1>2, <1>3, <1>4, <1>5, Parameters
<1> QED
    BY <1>1, <1>2, <1>3, <1>4, <1>6, <1>7, <1>8, <1>9

\* Every step keeps the types.
LEMMA TypesStep ==
    ASSUME Types, [Next]_vars
    PROVE  Types'
<1>1. CASE \E l \in {0, late}, j \in Jitter : Round(l, j)
    <2>1. PICK l \in {0, late}, j \in Jitter : Round(l, j)
        BY <1>1
    <2>2. /\ lastSend' \in Nat /\ curRto' \in Nat /\ attempts' \in Nat
          /\ attempts' # 0 /\ late' = late
          /\ result' = "sending" => attempts' <= MaxRetries
        BY <2>1, RoundEffect, Parameters
    <2> QED
        BY <2>2 DEF Types
<1>2. CASE ~\E l \in {0, late}, j \in Jitter : Round(l, j)
    <2>1. /\ UNCHANGED <<late, lastSend, curRto, attempts>>
          /\ result' = "sending" => result = "sending"
        BY <1>2 DEF Next, DeadlinePasses, Acked, vars
    <2> QED
        BY <2>1 DEF Types
<1> QED
    BY <1>1, <1>2

\* The tables add up.
LEMMA LatestGrows ==
    ASSUME NEW n \in Nat, n > 0
    PROVE  /\ Longest(n) \in Nat /\ Latest(n) \in Nat
           /\ Latest(n + 1) = Latest(n) + 70 + Longest(n + 1)
           /\ 1955 * Longest(n) <= 1000 * Longest(n + 1) \/ Longest(n + 1) = 920
BY SMT DEF Longest, Latest

\* In the first 20 rounds, the deadline is never passed.
LEMMA LatestInTime ==
    ASSUME MaxRetries <= 20, NEW n \in Nat, n > 0, n <= MaxRetries
    PROVE  /\ Latest(n) * Rto <= 100 * Deadline
           /\ n < MaxRetries => (Latest(n) + 70) * Rto <= 100 * Deadline
<1>1. 100 * Deadline = (800 * (MaxRetries + 2)) * Rto
    BY Parameters DEF Deadline
<1>2. /\ Latest(n) \in Int /\ Latest(n) <= 800 * (MaxRetries + 2)
      /\ n < MaxRetries => Latest(n) + 70 <= 800 * (MaxRetries + 2)
    BY Parameters DEF Latest
<1> QED
    BY <1>1, <1>2, Times, Parameters

\* The last entry of the table, 990 * 20 - 2249 hundredths, is below the deadline
\* of 22 * 8 * Rto.
LEMMA DeadlineInvStep ==
    ASSUME MaxRetries <= 20, Types, DeadlineInv, [Next]_vars
    PROVE  DeadlineInv'
<1>1. CASE \E l \in {0, late}, j \in Jitter : Round(l, j)
    <2>1. PICK l \in {0, late}, j \in Jitter : Round(l, j)
        BY <1>1
    <2> SUFFICES ASSUME Punctual'
                 PROVE  /\ result' # "deadline"
                        /\ result' = "sending" =>
                              /\ 100 * curRto' <= Longest(attempts') * Rto
                              /\ 100 * (lastSend' + curRto') <= Latest(attempts') * Rto
        BY DEF DeadlineInv, Longest, Latest
    <2>2. /\ Punctual /\ l \in Nat /\ 10 * l <= 7 * Rto
          /\ result = "sending" /\ attempts' = attempts + 1 /\ attempts \in Nat
          /\ attempts <= MaxRetries /\ lastSend \in Nat /\ curRto \in Nat
          /\ lastSend' \in Nat /\ curRto' \in Nat
        BY <2>1, RoundEffect, Parameters DEF Punctual
    <2>3. CASE attempts = 0
        <3>1. lastSend' = l /\ curRto' = Rto
            BY <2>1, <2>3, RoundEffect
        <3>2. result' # "deadline"
            <4>1. ~(l > Deadline)
                BY <2>2, Parameters DEF Deadline
            <4> QED
                BY <2>1, <3>1, <4>1, RoundEffect
        <3>3. /\ 100 * curRto' <= 100 * Rto
              /\ 100 * (lastSend' + curRto') <= 170 * Rto
            BY <2>2, <3>1, Parameters
        <3>4. Longest(attempts') = 100 /\ Latest(attempts') = 170
            BY <2>2, <2>3 DEF Longest, Latest
        <3> QED
            BY <3>2, <3>3, <3>4
    <2>4. CASE attempts > 0
        <3> DEFINE n == attempts
        <3>1. /\ 100 * curRto <= Longest(n) * Rto
              /\ 100 * (lastSend + curRto) <= Latest(n) * Rto
            BY <2>2, <2>4 DEF DeadlineInv
        <3>2. /\ lastSend' = lastSend + curRto + l /\ curRto' = NextRto(curRto, j)
              /\ curRto' \in Nat
            BY <2>1, <2>2, <2>4, RoundEffect
        <3>3. /\ Longest(n) \in Nat /\ Latest(n) \in Nat /\ Longest(n + 1) \in Nat
              /\ Latest(n + 1) = Latest(n) + 70 + Longest(n + 1)
              /\ 1955 * Longest(n) <= 1000 * Longest(n + 1) \/ Longest(n + 1) = 920
            BY <2>2, <2>4, LatestGrows
        <3>4. 100 * curRto' <= Longest(n + 1) * Rto
            <4>1. CASE Longest(n + 1) = 920
                BY <2>2, <3>2, <4>1, NextRtoBounds
            <4>2. CASE 1955 * Longest(n) <= 1000 * Longest(n + 1)
                <5>1. (1955 * Longest(n)) * Rto <= (1000 * Longest(n + 1)) * Rto
                    BY <3>3, <4>2, Times, Parameters
                <5>2. 1000 * curRto' <= 1955 * curRto
                    BY <2>2, <3>2, NextRtoBounds
                <5> DEFINE x == Longest(n) * Rto
                           y == Longest(n + 1) * Rto
                <5>3. x \in Nat /\ y \in Nat
                    BY <3>3, Parameters
                <5>4. (1955 * Longest(n)) * Rto = 1955 * x
                    BY <3>3, Parameters
                <5>5. (1000 * Longest(n + 1)) * Rto = 1000 * y
                    BY <3>3, Parameters
                <5>6. 1955 * x <= 1000 * y /\ 100 * curRto <= x
                    BY <3>1, <5>1, <5>4, <5>5
                <5> HIDE DEF x, y
                <5>7. 100 * curRto' <= y
                    BY <2>2, <3>2, <5>2, <5>3, <5>6
                <5> QED
                    BY <5>7 DEF y
            <4> QED
                BY <3>3, <4>1, <4>2
        <3>5. /\ (Latest(n) + 70) * Rto = Latest(n) * Rto + 70 * Rto
              /\ Latest(n + 1) * Rto = (Latest(n) + 70) * Rto + Longest(n + 1) * Rto
            BY <3>3, Parameters
        <3>6. 100 * lastSend' <= (Latest(n) + 70) * Rto
            <4> DEFINE x == Latest(n) * Rto
            <4>1. x \in Nat /\ 100 * (lastSend + curRto) <= x
                BY <3>1, <3>3, Parameters
            <4> HIDE DEF x
            <4>2. 100 * lastSend' <= x + 70 * Rto
                BY <2>2, <3>2, <4>1, Parameters
            <4> QED
                BY <3>5, <4>2 DEF x
        <3>7. 100 * (lastSend' + curRto') <= Latest(n + 1) * Rto
            <4> DEFINE x == (Latest(n) + 70) * Rto
                       y == Longest(n + 1) * Rto
            <4>1. x \in Nat /\ y \in Nat /\ lastSend' \in Nat
                BY <2>2, <3>2, <3>3, Parameters
            <4>2. /\ 100 * lastSend' <= x /\ 100 * curRto' <= y
                  /\ Latest(n + 1) * Rto = x + y
                BY <3>4, <3>5, <3>6
            <4> HIDE DEF x, y
            <4> QED
                BY <3>2, <4>1, <4>2
        <3>8. result' # "deadline"
            <4> DEFINE x == (Latest(n) + 70) * Rto
            <4>1. x \in Nat /\ Deadline \in Nat /\ 100 * lastSend' <= x
                BY <3>3, <3>6, Parameters DEF Deadline
            <4>2. n < MaxRetries => x <= 100 * Deadline
                BY <2>2, <2>4, LatestInTime
            <4> HIDE DEF x
            <4>3. n < MaxRetries => lastSend' <= Deadline
                BY <2>2, <4>1, <4>2, Hundredths
            <4> QED
                BY <2>1, <2>2, <4>1, <4>3, RoundEffect
        <3> QED
            BY <2>2, <3>4, <3>7, <3>8
    <2> QED
        BY <2>2, <2>3, <2>4
<1>2. CASE DeadlinePasses
    <2>1. UNCHANGED <<late, lastSend, curRto, attempts>> /\ result = "sending"
        BY <1>2 DEF DeadlinePasses
    <2>2. ASSUME Punctual
          PROVE  FALSE
        <3>1. Due > Deadline /\ Deadline \in Nat
            BY <1>2, Parameters DEF DeadlinePasses, Deadline
        <3>2. attempts > 0 /\ attempts \in Nat /\ attempts <= MaxRetries
            BY <2>1, <3>1 DEF Due, Types
        <3>3. 100 * (lastSend + curRto) <= Latest(attempts) * Rto
            BY <2>1, <2>2, <3>2 DEF DeadlineInv
        <3>4. Latest(attempts) * Rto <= 100 * Deadline
            BY <3>2, LatestInTime
        <3>5. Latest(attempts) \in Nat
            BY <3>2, LatestGrows
        <3> DEFINE x == Latest(attempts) * Rto
        <3>6. /\ x \in Nat /\ 100 * (lastSend + curRto) <= x /\ x <= 100 * Deadline
              /\ Due = lastSend + curRto /\ Due \in Nat
            BY <3>2, <3>3, <3>4, <3>5, Parameters DEF Due, Types
        <3> HIDE DEF x
        <3> QED
            BY <3>1, <3>6
    <2> QED
        BY <2>1, <2>2 DEF DeadlineInv, Punctual
<1>3. CASE Acked \/ UNCHANGED vars
    <2>1. /\ UNCHANGED <<late, lastSend, curRto, attempts>>
          /\ result' = result \/ result' = "acked"
        BY <1>3 DEF Acked, vars
    <2>2. Longest(attempts') = Longest(attempts) /\ Latest(attempts') = Latest(attempts)
        BY <2>1
    <2> HIDE DEF Longest, Latest
    <2> QED
        BY <2>1, <2>2 DEF DeadlineInv, Punctual
<1> QED
    BY <1>1, <1>2, <1>3 DEF Next

\* Nor is the deadline behind.
LEMMA BackoffInit == Init => Types /\ DeadlineInv
BY Parameters DEF Init, Types, DeadlineInv

\* Up to 20 retries, the code's default, the hard deadline never ends a send
\* whose passes are at most 0.7 * Rto late, whatever the jitter.
THEOREM RoundsInTime ==
    ASSUME MaxRetries <= 20
    PROVE  Spec => []RoundsBeforeDeadline
<1>1. Types /\ DeadlineInv /\ [Next]_vars => (Types /\ DeadlineInv)'
    BY TypesStep, DeadlineInvStep
<1>2. DeadlineInv => RoundsBeforeDeadline
    BY DEF DeadlineInv, RoundsBeforeDeadline, Punctual
<1> QED
    BY <1>1, <1>2, BackoffInit, PTL DEF Spec

-----------------------------------------------------------------------------
(* Rounds that outlast a silence *)

\* The shortest timeout after n rounds, and the earliest the last of them
\* goes out, for an Rto of at least 100 units, in which roundings down are
\* small.
Shortest(n) ==
    CASE n = 1 -> 100
      [] n = 2 -> 142
      [] n = 3 -> 203
      [] n = 4 -> 291
      [] n = 5 -> 418
      [] n = 6 -> 602
      [] n > 6 -> 679

Earliest(n) ==
    CASE n = 1 -> 0
      [] n = 2 -> 100
      [] n = 3 -> 242
      [] n = 4 -> 445
      [] n = 5 -> 736
      [] n = 6 -> 1154
      [] n > 6 -> 679 * n - 2997

\* The invariant of the other direction: timeout and time have reached the tables.
SilenceInv ==
    /\ result = "sending" /\ attempts > 0 =>
          /\ Shortest(attempts) * Rto <= 100 * curRto
          /\ Earliest(attempts) * Rto <= 100 * lastSend
    /\ OutlastsSilence

\* One line of the tables leads to the next.
LEMMA EarliestGrows ==
    ASSUME NEW n \in Nat, n > 0
    PROVE  /\ Shortest(n) \in Nat /\ Earliest(n) \in Nat
           /\ Earliest(n + 1) = Earliest(n) + Shortest(n)
           /\ 1000 * Shortest(n + 1) + 1756 <= 1445 * Shortest(n)
           /\ Shortest(n + 1) <= 679
BY SMT DEF Shortest, Earliest

\* Rounding down takes less than an entry of the table leaves.
LEMMA RoundedGrowth ==
    ASSUME NEW R \in Nat, R >= 100, NEW s \in Nat, NEW t \in Nat,
           NEW old \in Nat, NEW new \in Nat,
           s <= 100 * old, t <= 679 * R, 1000 * t + 1756 * R <= 1445 * s,
           1000 * new + 1756 >= 1445 * old \/ 100 * new + 100 > 680 * R
    PROVE  t <= 100 * new
BY SMT

\* A round takes both to the next line of the tables.
LEMMA SilenceInvStep ==
    ASSUME MaxRetries >= 16, Rto >= 100, Types, SilenceInv, [Next]_vars
    PROVE  SilenceInv'
<1>1. CASE \E l \in {0, late}, j \in Jitter : Round(l, j)
    <2>1. PICK l \in {0, late}, j \in Jitter : Round(l, j)
        BY <1>1
    <2> DEFINE n == attempts
    <2>2. /\ attempts' = n + 1 /\ n \in Nat /\ lastSend \in Nat /\ curRto \in Nat
          /\ l \in Nat /\ lastSend' \in Nat /\ curRto' \in Nat /\ result = "sending"
        BY <2>1, RoundEffect
    <2>3. /\ Shortest(n + 1) * Rto <= 100 * curRto'
          /\ Earliest(n + 1) * Rto <= 100 * lastSend'
        <3>1. CASE n = 0
            <4>1. /\ Shortest(n + 1) = 100 /\ Earliest(n + 1) = 0 /\ curRto' = Rto
                BY <2>1, <2>2, <3>1, RoundEffect DEF Shortest, Earliest
            <4> QED
                BY <2>2, <4>1, Parameters
        <3>2. CASE n > 0
            <4> DEFINE s == Shortest(n) * Rto
                       e == Earliest(n) * Rto
                       t == Shortest(n + 1) * Rto
            <4>1. s <= 100 * curRto /\ e <= 100 * lastSend
                BY <2>2, <3>2 DEF SilenceInv
            <4>2. curRto' = NextRto(curRto, j) /\ lastSend' = lastSend + curRto + l
                BY <2>1, <3>2, RoundEffect
            <4>3. /\ Shortest(n) \in Nat /\ Earliest(n) \in Nat
                  /\ Shortest(n + 1) \in Nat /\ Shortest(n + 1) <= 679
                  /\ Earliest(n + 1) = Earliest(n) + Shortest(n)
                  /\ 1000 * Shortest(n + 1) + 1756 <= 1445 * Shortest(n)
                BY <2>2, <3>2, EarliestGrows
            <4>4. /\ s \in Nat /\ e \in Nat /\ t \in Nat
                  /\ Earliest(n + 1) * Rto = e + s
                BY <4>3, Parameters
            <4>5. t <= 679 * Rto
                BY <4>3, Times, Parameters
            <4>6. 1000 * t + 1756 * Rto <= 1445 * s
                <5>1. (1000 * Shortest(n + 1) + 1756) * Rto <= (1445 * Shortest(n)) * Rto
                    BY <4>3, Times, Parameters
                <5>2. (1000 * Shortest(n + 1) + 1756) * Rto = 1000 * t + 1756 * Rto
                    BY <4>3, Parameters
                <5>3. (1445 * Shortest(n)) * Rto = 1445 * s
                    BY <4>3, Parameters
                <5> QED
                    BY <5>1, <5>2, <5>3
            <4> HIDE DEF s, e, t
            <4>7. e + s <= 100 * lastSend'
                BY <2>2, <4>1, <4>2, <4>4
            <4>8. \/ 1000 * curRto' + 1756 >= 1445 * curRto
                  \/ 100 * curRto' + 100 > 680 * Rto
                BY <2>2, <4>2, NextRtoBounds
            <4>9. t <= 100 * curRto'
                <5> DEFINE new == curRto'
                           old == curRto
                <5>1. /\ new \in Nat /\ old \in Nat /\ Rto \in Nat /\ Rto >= 100
                      /\ s \in Nat /\ t \in Nat
                    BY <2>2, <4>4, Parameters
                <5>2. /\ s <= 100 * old
                      /\ 1000 * new + 1756 >= 1445 * old \/ 100 * new + 100 > 680 * Rto
                    BY <4>1, <4>8
                <5> HIDE DEF new, old
                <5>3. t <= 100 * new
                    BY <4>5, <4>6, <5>1, <5>2, RoundedGrowth
                <5> QED
                    BY <5>3 DEF new
            <4> QED
                BY <4>4, <4>7, <4>9 DEF t
        <3> QED
            BY <2>2, <3>1, <3>2
    <2>4. ASSUME result' = "gave up"
          PROVE  lastSend' >= 5 * Rto * (MaxRetries + 1)
        <3>1. n >= MaxRetries /\ MaxRetries \in Nat
            <4>1. ~LastRound => result' # "gave up"
                BY <2>1 DEF Round
            <4> QED
                <5>1. LastRound
                    BY <2>4, <4>1
                <5> QED
                    BY <2>2, <5>1, Parameters DEF LastRound
        <3>2. Earliest(n + 1) \in Nat /\ 500 * (MaxRetries + 1) <= Earliest(n + 1)
            BY <2>2, <3>1 DEF Earliest
        <3>3. (500 * (MaxRetries + 1)) * Rto <= Earliest(n + 1) * Rto
            BY <3>1, <3>2, Times, Parameters
        <3> DEFINE x == Earliest(n + 1) * Rto
                   y == 5 * Rto * (MaxRetries + 1)
        <3>4. /\ x \in Nat /\ y \in Nat
              /\ (500 * (MaxRetries + 1)) * Rto = 100 * y
            BY <3>1, <3>2, Parameters
        <3>5. 100 * y <= x /\ x <= 100 * lastSend'
            BY <2>3, <3>3, <3>4
        <3> HIDE DEF x, y
        <3>6. y <= lastSend'
            BY <2>2, <3>4, <3>5, Hundredths
        <3> QED
            BY <3>6 DEF y
    <2> QED
        BY <2>2, <2>3, <2>4 DEF SilenceInv, OutlastsSilence
<1>2. CASE ~\E l \in {0, late}, j \in Jitter : Round(l, j)
    <2>1. /\ UNCHANGED <<late, lastSend, curRto, attempts>>
          /\ result' = result \/ result' = "acked" \/ result' = "deadline"
        BY <1>2 DEF Next, DeadlinePasses, Acked, vars
    <2> QED
        BY <2>1 DEF SilenceInv, OutlastsSilence
<1> QED
    BY <1>1, <1>2

\* Nothing is due before the first round.
LEMMA SilenceInit == Init => SilenceInv
BY DEF Init, SilenceInv, OutlastsSilence

\* From 16 retries on, for any jitter and however late passes are: five times
\* the silence that rounds at a fixed interval outlast, if rounding down to
\* the unit of time costs no more than a hundredth of Rto.
THEOREM SilenceOutlasted ==
    ASSUME MaxRetries >= 16, Rto >= 100
    PROVE  Spec => []OutlastsSilence
<1>1. Types /\ SilenceInv /\ [Next]_vars => (Types /\ SilenceInv)'
    BY TypesStep, SilenceInvStep
<1>2. Init => Types /\ SilenceInv
    BY BackoffInit, SilenceInit
<1>3. SilenceInv => OutlastsSilence
    BY DEF SilenceInv
<1> QED
    BY <1>1, <1>2, <1>3, PTL DEF Spec
=============================================================================
