--------------------------- MODULE BenchRunsProofs ---------------------------
(***************************************************************************)
(* Proofs about the API clients of ApiHistory and the runs of BenchRuns,   *)
(* for every number of turns and runs, any selection of clients, and kills *)
(* at any moment.                                                          *)
(*                                                                         *)
(* Histories are flattened and merged sequences, so every fact about them  *)
(* takes induction.  Induct is induction for sets of numbers, from the     *)
(* well-foundedness of <; Iteration then says that recursive definitions   *)
(* have the functions they mean, and FlattenAppend, MergedAppend and       *)
(* OnlyAppend how flattening, merging and selecting go on by one element,  *)
(* which is all that is used of them further on.                           *)
(*                                                                         *)
(* The inductive invariant BenchInv has three parts.  HistoryInv: the      *)
(* history before a waiting prompt (Past) says what is to be shown of the  *)
(* turns that ended, and its merged form alternates.  RepliesPast: every   *)
(* reply given is there.  RowsInv: no label of the file mixes runs, and    *)
(* what main has read back are the rows of the other labels.               *)
(*                                                                         *)
(* Two theorems leave out GeminiClient (its api is not in Api), for which  *)
(* they are false: after a 429 its history loses one entry too many.       *)
(***************************************************************************)
EXTENDS BenchRuns, SequenceTheorems, WellFoundedInduction, TLAPS

-----------------------------------------------------------------------------
(* Recursion *)

\* Induction over the natural numbers, for a set of them: no property is passed
\* as an operator.
LEMMA Induct ==
    ASSUME NEW S \in SUBSET Nat, 0 \in S, \A n \in S : n + 1 \in S
    PROVE  S = Nat
<1> DEFINE T == Nat \ S
<1> SUFFICES ASSUME T # {} PROVE FALSE
    OBVIOUS
<1>1. PICK x \in T : \A y \in T : ~(<<y, x>> \in OpToRel(<, Nat))
    BY NatLessThanWellFounded, WFMin
<1>2. x \in Nat /\ x # 0 /\ x - 1 \in Nat /\ x - 1 \in T
    OBVIOUS
<1>3. <<x - 1, x>> \in OpToRel(<, Nat)
    BY <1>2 DEF OpToRel
<1> QED
    BY <1>1, <1>2, <1>3

\* A function defined by recursion exists.
Steps(A, N) == [1 .. N -> [A -> A]]

\* The functions that start with b and take the steps.
Iterates(A, b, N, step) ==
    {f \in [0 .. N -> A] : f[0] = b /\ \A n \in 1 .. N : f[n] = step[n][f[n - 1]]}

\* There is one.
LEMMA Iteration ==
    ASSUME NEW A, NEW b \in A, NEW N \in Nat, NEW step \in Steps(A, N)
    PROVE  Iterates(A, b, N, step) # {}
<1> USE DEF Steps, Iterates
<1> DEFINE Good(k) == \E f \in [0 .. k -> A] :
                f[0] = b /\ \A n \in 1 .. k : f[n] = step[n][f[n - 1]]
           S == {k \in Nat : k <= N => Good(k)}
<1>1. 0 \in S
    <2>1. [n \in 0 .. 0 |-> b] \in [0 .. 0 -> A]
        OBVIOUS
    <2> DEFINE g == [n \in 0 .. 0 |-> b]
    <2>3. g[0] = b /\ \A n \in 1 .. 0 : g[n] = step[n][g[n - 1]]
        OBVIOUS
    <2> HIDE DEF g
    <2>2. Good(0)
        BY <2>1, <2>3 DEF g
    <2> QED
        BY <2>2
<1>2. ASSUME NEW k \in S
      PROVE  k + 1 \in S
    <2> SUFFICES ASSUME k + 1 <= N
                 PROVE  Good(k + 1)
        OBVIOUS
    <2>1. k \in Nat /\ Good(k)
        OBVIOUS
    <2>2. PICK f \in [0 .. k -> A] :
                f[0] = b /\ \A n \in 1 .. k : f[n] = step[n][f[n - 1]]
        BY <2>1
    <2> DEFINE g == [n \in 0 .. k + 1 |-> IF n <= k THEN f[n] ELSE step[k + 1][f[k]]]
    <2>3. step[k + 1] \in [A -> A] /\ f[k] \in A
        BY <2>1
    <2>4. g \in [0 .. k + 1 -> A]
        BY <2>1, <2>3
    <2>5. g[0] = b
        BY <2>1, <2>2
    <2>6. ASSUME NEW n \in 1 .. k + 1
          PROVE  g[n] = step[n][g[n - 1]]
        <3>1. CASE n <= k
            BY <2>1, <2>2, <3>1
        <3>2. CASE n = k + 1
            BY <2>1, <2>2, <3>2
        <3> QED
            BY <2>1, <3>1, <3>2
    <2> QED
        BY <2>4, <2>5, <2>6
<1> HIDE DEF Good
<1>3. S = Nat
    BY <1>1, <1>2, Induct
<1>4. Good(N)
    BY <1>3
<1> QED
    BY <1>4 DEF Good

\* Flattening is what a function that appends one sequence after the other says
\* it is.
LEMMA FlattenIs ==
    ASSUME NEW E, NEW ss \in Seq(Seq(E)), NEW f \in [0 .. Len(ss) -> Seq(E)],
           f[0] = <<>>, \A n \in 1 .. Len(ss) : f[n] = f[n - 1] \o ss[n]
    PROVE  FlattenSeq(ss) = f[Len(ss)]
<1> DEFINE N == Len(ss)
<1>0. N \in Nat /\ \A i \in 1 .. N : ss[i] \in Seq(E) /\ f[i] = f[i - 1] \o ss[i]
    BY LenProperties, ElementOfSeq
<1>1. CASE N = 0
    BY <1>1 DEF FlattenSeq
<1>2. CASE N # 0
    <2> DEFINE F(g) == [i \in 1 .. N |-> IF i = 1 THEN ss[i] ELSE g[i - 1] \o ss[i]]
               flat == CHOOSE g : g = F(g)
               h    == [i \in 1 .. N |-> f[i]]
    <2>1. FlattenSeq(ss) = flat[N]
        BY <1>2 DEF FlattenSeq
    <2> HIDE DEF N
    <2>2. 1 \in 1 .. N /\ f[1] = ss[1]
        <3>1. 1 \in 1 .. N
            BY <1>0, <1>2
        <3>2. f[1] = f[1 - 1] \o ss[1] /\ ss[1] \in Seq(E)
            BY <1>0, <3>1
        <3>3. f[1] = <<>> \o ss[1]
            <4>1. f[1 - 1] = <<>>
                OBVIOUS
            <4> QED
                BY <3>2, <4>1
        <3> QED
            BY <3>1, <3>2, <3>3, ConcatEmptySeq
    <2>3. h = F(h)
        <3>1. ASSUME NEW i \in 1 .. N
              PROVE  h[i] = IF i = 1 THEN ss[i] ELSE h[i - 1] \o ss[i]
            <4>1. CASE i = 1
                BY <2>2, <4>1
            <4>2. CASE i # 1
                <5>1. i - 1 \in 1 .. N
                    BY <1>0, <4>2
                <5>2. h[i] = f[i] /\ h[i - 1] = f[i - 1]
                    BY <5>1
                <5> HIDE DEF h
                <5> QED
                    BY <1>0, <4>2, <5>2
            <4> QED
                BY <4>1, <4>2
        <3> QED
            BY <3>1
    <2>4. flat = F(flat)
        <3> HIDE DEF F, h
        <3> QED
            BY <2>3
    <2>5. \A i \in 1 .. N : flat[i] = IF i = 1 THEN ss[i] ELSE flat[i - 1] \o ss[i]
        <3> HIDE DEF flat
        <3> QED
            BY <2>4
    <2> DEFINE S == {k \in Nat : k \in 1 .. N => flat[k] = f[k]}
    <2> HIDE DEF flat, h, F
    <2>6. 0 \in S
        OBVIOUS
    <2>7. ASSUME NEW k \in S
          PROVE  k + 1 \in S
        <3> SUFFICES ASSUME k + 1 \in 1 .. N
                     PROVE  flat[k + 1] = f[k + 1]
            OBVIOUS
        <3>1. CASE k = 0
            BY <2>2, <2>5, <3>1
        <3>2. CASE k # 0
            <4>1. k \in 1 .. N /\ (k + 1) - 1 = k /\ k + 1 # 1
                BY <1>0, <3>2
            <4>2. flat[k] = f[k]
                BY <4>1
            <4>3. f[k + 1] = f[k] \o ss[k + 1]
                BY <1>0, <4>1
            <4>4. flat[k + 1] = flat[k] \o ss[k + 1]
                BY <2>5, <4>1
            <4> QED
                BY <4>2, <4>3, <4>4
        <3> QED
            BY <3>1, <3>2
    <2>8. S = Nat
        BY <2>6, <2>7, Induct
    <2>9. flat[N] = f[N]
        BY <1>0, <1>2, <2>8
    <2> QED
        BY <2>1, <2>9 DEF N
<1> QED
    BY <1>1, <1>2

\* Flattening goes on from left to right.
LEMMA FlattenAppend ==
    ASSUME NEW E, NEW ss \in Seq(Seq(E)), NEW s \in Seq(E)
    PROVE  /\ FlattenSeq(ss) \in Seq(E)
           /\ FlattenSeq(Append(ss, s)) = FlattenSeq(ss) \o s
<1> DEFINE N  == Len(ss)
           tt == Append(ss, s)
           step == [n \in 1 .. N + 1 |-> [x \in Seq(E) |-> x \o tt[n]]]
<1>0. N \in Nat
    BY LenProperties
<1>1. /\ tt \in Seq(Seq(E)) /\ Len(tt) = N + 1
      /\ \A i \in 1 .. N : tt[i] = ss[i]
      /\ tt[N + 1] = s
    BY LenProperties, AppendProperties
<1>2. \A n \in 1 .. N + 1 : tt[n] \in Seq(E)
    BY <1>1, ElementOfSeq
<1> HIDE DEF tt, N
<1>3. step \in [1 .. N + 1 -> [Seq(E) -> Seq(E)]]
    BY <1>2, ConcatProperties
<1>4. <<>> \in Seq(E)
    BY EmptySeq
<1>5. PICK f \in [0 .. N + 1 -> Seq(E)] :
            f[0] = <<>> /\ \A n \in 1 .. N + 1 : f[n] = step[n][f[n - 1]]
    <2>1. N + 1 \in Nat /\ step \in Steps(Seq(E), N + 1)
        BY <1>0, <1>3 DEF Steps
    <2> HIDE DEF step
    <2>2. Iterates(Seq(E), <<>>, N + 1, step) # {}
        BY <1>4, <2>1, Iteration
    <2> QED
        BY <2>2 DEF Iterates
<1>6. ASSUME NEW n \in 1 .. N + 1
      PROVE  f[n] = f[n - 1] \o tt[n]
    <2>1. f[n - 1] \in Seq(E)
        BY <1>0
    <2>2. f[n] = step[n][f[n - 1]]
        BY <1>5
    <2> QED
        BY <2>1, <2>2
<1> HIDE DEF step
<1>7. FlattenSeq(tt) = f[N + 1]
    <2>1. f \in [0 .. Len(tt) -> Seq(E)] /\ \A n \in 1 .. Len(tt) : f[n] = f[n - 1] \o tt[n]
        BY <1>1, <1>6
    <2>2. FlattenSeq(tt) = f[Len(tt)]
        BY <1>1, <1>5, <2>1, FlattenIs
    <2> QED
        BY <1>1, <2>2
<1>8. FlattenSeq(ss) = f[N]
    <2> DEFINE g == [n \in 0 .. N |-> f[n]]
    <2>1. g \in [0 .. N -> Seq(E)] /\ g[0] = <<>> /\ g[N] = f[N]
        BY <1>0, <1>5
    <2>2. ASSUME NEW n \in 1 .. N
          PROVE  g[n] = g[n - 1] \o ss[n]
        <3>1. n \in 0 .. N /\ n - 1 \in 0 .. N /\ n \in 1 .. N + 1
            BY <1>0
        <3>2. g[n] = f[n] /\ g[n - 1] = f[n - 1]
            BY <3>1
        <3>3. tt[n] = ss[n] /\ f[n] = f[n - 1] \o tt[n]
            BY <1>1, <1>6, <3>1
        <3> QED
            BY <3>2, <3>3
    <2> HIDE DEF g
    <2>3. FlattenSeq(ss) = g[N]
        BY <2>1, <2>2, FlattenIs DEF N
    <2> QED
        BY <2>1, <2>3
<1>9. f[N + 1] = f[N] \o s /\ f[N] \in Seq(E)
    <2>1. N + 1 \in 1 .. N + 1 /\ (N + 1) - 1 = N /\ N \in 0 .. N + 1
        BY <1>0
    <2>2. f[N + 1] = f[(N + 1) - 1] \o tt[N + 1]
        BY <1>6, <2>1
    <2>3. tt[N + 1] = s
        BY <1>1
    <2>4. f[N] \in Seq(E)
        BY <2>1
    <2> QED
        BY <2>1, <2>2, <2>3, <2>4
<1> QED
    BY <1>7, <1>8, <1>9 DEF tt

\* A sequence that is not empty ends with its last element.
LEMMA FrontLast ==
    ASSUME NEW E, NEW s \in Seq(E), s # <<>>
    PROVE  /\ Front(s) \in Seq(E) /\ Last(s) \in E
           /\ s = Append(Front(s), Last(s))
           /\ Len(s) = Len(Front(s)) + 1 /\ s[Len(s)] = Last(s)
           /\ \A i \in 1 .. Len(s) - 1 : Front(s)[i] = s[i]
<1>1. PICK f \in Seq(E), x \in E : s = Append(f, x)
    BY SequenceEmptyOrAppend
<1>2. Len(s) = Len(f) + 1 /\ Len(f) \in Nat
    BY <1>1, AppendProperties, LenProperties
<1>3. Last(s) = x
    BY <1>1, <1>2, AppendProperties DEF Last
<1>4. Front(s) \in Seq(E) /\ Len(Front(s)) = Len(f)
      /\ \A i \in 1 .. Len(f) : Front(s)[i] = f[i]
    <2>1. /\ \A i \in 1 .. Len(f) : s[i] \in E /\ s[i] = f[i]
        BY <1>1, <1>2, AppendProperties, ElementOfSeq
    <2>2. Front(s) = SubSeq(s, 1, Len(f))
        BY <1>2 DEF Front
    <2>3. /\ SubSeq(s, 1, Len(f)) \in Seq(E)
          /\ Len(SubSeq(s, 1, Len(f))) = Len(f)
          /\ \A i \in 1 .. Len(f) : SubSeq(s, 1, Len(f))[i] = s[i]
        BY <1>2, <2>1, SubSeqProperties
    <2> QED
        BY <2>1, <2>2, <2>3
<1>5. Front(s) = f
    BY <1>4, SeqEqual
<1> QED
    BY <1>1, <1>2, <1>3, <1>5, AppendProperties

\* An appended element is the last.
LEMMA FrontOfAppend ==
    ASSUME NEW E, NEW s \in Seq(E), NEW x \in E
    PROVE  Front(Append(s, x)) = s /\ Last(Append(s, x)) = x
<1>1. Append(s, x) \in Seq(E) /\ Append(s, x) # <<>>
    BY AppendProperties
<1>2. /\ Front(Append(s, x)) \in Seq(E) /\ Last(Append(s, x)) \in E
      /\ Append(s, x) = Append(Front(Append(s, x)), Last(Append(s, x)))
    BY <1>1, FrontLast
<1> QED
    BY <1>2, AppendInjective

\* Mapping goes on from left to right.
LEMMA FlattenMap ==
    ASSUME NEW E, NEW m \in Seq(Seq(E)), NEW s \in Seq(E),
           NEW t \in Seq(Seq(E)), Len(t) = Len(m) + 1,
           \A i \in 1 .. Len(m) : t[i] = m[i], t[Len(t)] = s
    PROVE  FlattenSeq(t) = FlattenSeq(m) \o s
<1>1. /\ Append(m, s) \in Seq(Seq(E)) /\ Len(Append(m, s)) = Len(t)
      /\ \A i \in 1 .. Len(m) : Append(m, s)[i] = m[i]
      /\ Append(m, s)[Len(t)] = s /\ Len(m) \in Nat
    BY AppendProperties, LenProperties
<1>2. t = Append(m, s)
    <2>1. \A i \in 1 .. Len(t) : t[i] = Append(m, s)[i]
        BY <1>1
    <2> QED
        BY <1>1, <2>1, SeqEqual
<1> QED
    BY <1>2, FlattenAppend

-----------------------------------------------------------------------------
(* Texts *)

\* The texts of one entry, and how many.
LEMMA TextsOfType ==
    ASSUME NEW m \in Entry
    PROVE  /\ TextsOf(m) \in Seq(Entry)
           /\ Len(TextsOf(m)) = Len(m.says)
           /\ \A j \in 1 .. Len(m.says) :
                 TextsOf(m)[j] = [role |-> m.role, says |-> <<m.says[j]>>]
<1>1. /\ m = [role |-> m.role, says |-> m.says] /\ m.says \in Seq(1 .. Turns)
      /\ m.role \in {"user", "assistant", "model"}
    BY DEF Entry
<1>2. DOMAIN m.says = 1 .. Len(m.says) /\ Len(m.says) \in Nat
    BY <1>1, LenProperties
<1>3. ASSUME NEW j \in 1 .. Len(m.says)
      PROVE  /\ [m EXCEPT !.says = <<m.says[j]>>] = [role |-> m.role, says |-> <<m.says[j]>>]
             /\ [role |-> m.role, says |-> <<m.says[j]>>] \in Entry
    <2>1. m.says[j] \in 1 .. Turns
        BY <1>1, ElementOfSeq
    <2>2. <<m.says[j]>> \in Seq(1 .. Turns)
        BY <2>1
    <2> QED
        BY <1>1, <2>2 DEF Entry
<1>4. TextsOf(m) \in [1 .. Len(m.says) -> Entry]
    BY <1>2, <1>3 DEF TextsOf
<1>5. TextsOf(m) \in Seq(Entry)
    BY <1>2, <1>4, SeqDef
<1>6. Len(TextsOf(m)) = Len(m.says)
    BY <1>2, <1>4, <1>5, LenProperties
<1> QED
    BY <1>2, <1>3, <1>5, <1>6 DEF TextsOf

\* The texts of a history with one more entry.
LEMMA TextsAppend ==
    ASSUME NEW h \in Seq(Entry), NEW m \in Entry
    PROVE  /\ Texts(h) \in Seq(Entry)
           /\ Texts(Append(h, m)) = Texts(h) \o TextsOf(m)
<1> DEFINE g  == Append(h, m)
           th == [i \in DOMAIN h |-> TextsOf(h[i])]
           tg == [i \in DOMAIN g |-> TextsOf(g[i])]
<1>1. /\ Len(h) \in Nat /\ DOMAIN h = 1 .. Len(h)
      /\ g \in Seq(Entry) /\ Len(g) = Len(h) + 1 /\ DOMAIN g = 1 .. Len(h) + 1
      /\ \A i \in 1 .. Len(h) : g[i] = h[i]
      /\ g[Len(h) + 1] = m
    BY LenProperties, AppendProperties
<1> HIDE DEF g
<1>2. th \in Seq(Seq(Entry)) /\ Len(th) = Len(h)
    <2>1. th \in [1 .. Len(h) -> Seq(Entry)]
        BY <1>1, ElementOfSeq, TextsOfType
    <2>2. th \in Seq(Seq(Entry))
        BY <1>1, <2>1, SeqDef
    <2> QED
        BY <1>1, <2>1, <2>2, LenProperties
<1>3. tg \in Seq(Seq(Entry)) /\ Len(tg) = Len(h) + 1
    <2>1. tg \in [1 .. Len(h) + 1 -> Seq(Entry)]
        BY <1>1, ElementOfSeq, TextsOfType
    <2>2. tg \in Seq(Seq(Entry))
        BY <1>1, <2>1, SeqDef
    <2> QED
        BY <1>1, <2>1, <2>2, LenProperties
<1>4. /\ \A i \in 1 .. Len(th) : tg[i] = th[i]
      /\ tg[Len(tg)] = TextsOf(m)
    BY <1>1, <1>2, <1>3
<1>5. Texts(h) = FlattenSeq(th) /\ Texts(g) = FlattenSeq(tg)
    BY DEF Texts
<1> HIDE DEF th, tg
<1>6. FlattenSeq(th) \in Seq(Entry)
    BY <1>2, EmptySeq, FlattenAppend
<1>7. FlattenSeq(tg) = FlattenSeq(th) \o TextsOf(m)
    <2>1. TextsOf(m) \in Seq(Entry) /\ Len(tg) = Len(th) + 1
        BY <1>2, <1>3, TextsOfType
    <2> DEFINE s == TextsOf(m)
    <2> HIDE DEF s
    <2>2. s \in Seq(Entry) /\ tg[Len(tg)] = s
        BY <1>4, <2>1 DEF s
    <2>3. FlattenSeq(tg) = FlattenSeq(th) \o s
        BY <1>2, <1>3, <1>4, <2>1, <2>2, FlattenMap
    <2> QED
        BY <2>3 DEF s
<1> QED
    BY <1>5, <1>6, <1>7 DEF g

-----------------------------------------------------------------------------
(* Merged histories *)

\* What MergeInto does: it extends the last message, or appends one.
LEMMA MergeIntoEffect ==
    ASSUME NEW c \in Seq(Entry), NEW m \in Entry
    PROVE  \/ /\ c = <<>> \/ Last(c).role # m.role
              /\ MergeInto(c, m) = Append(c, m)
           \/ /\ c # <<>> /\ Last(c).role = m.role
              /\ [role |-> m.role, says |-> Last(c).says \o m.says] \in Entry
              /\ MergeInto(c, m) =
                    Append(Front(c), [role |-> m.role, says |-> Last(c).says \o m.says])
<1>1. CASE ~(c # <<>> /\ Last(c).role = m.role)
    BY <1>1 DEF MergeInto
<1>2. CASE c # <<>> /\ Last(c).role = m.role
    <2> DEFINE x == [role |-> m.role, says |-> Last(c).says \o m.says]
               y == [c[Len(c)] EXCEPT !.says = @ \o m.says]
    <2>1. /\ Front(c) \in Seq(Entry) /\ Last(c) \in Entry
          /\ c = Append(Front(c), Last(c))
          /\ Len(c) = Len(Front(c)) + 1 /\ c[Len(c)] = Last(c)
          /\ \A i \in 1 .. Len(c) - 1 : Front(c)[i] = c[i]
        BY <1>2, FrontLast
    <2>2. y = x /\ x \in Entry
        <3>1. /\ Last(c).role \in {"user", "assistant", "model"}
              /\ Last(c).says \in Seq(1 .. Turns) /\ m.says \in Seq(1 .. Turns)
              /\ Last(c) = [role |-> Last(c).role, says |-> Last(c).says]
            BY <2>1 DEF Entry
        <3>2. Last(c).says \o m.says \in Seq(1 .. Turns)
            BY <3>1, ConcatProperties
        <3>3. y = x
            <4> DEFINE l == Last(c)
            <4>1. c[Len(c)] = l /\ l = [role |-> l.role, says |-> l.says] /\ l.role = m.role
                BY <1>2, <2>1, <3>1
            <4> HIDE DEF l
            <4>2. [l EXCEPT !.says = @ \o m.says] = [role |-> l.role, says |-> l.says \o m.says]
                <5> DEFINE s == l.says \o m.says
                <5>1. [l EXCEPT !.says = @ \o m.says] = [l EXCEPT !.says = s]
                    OBVIOUS
                <5> HIDE DEF s
                <5>2. [l EXCEPT !.says = s] = [role |-> l.role, says |-> s]
                    BY <4>1
                <5> QED
                    BY <5>1, <5>2 DEF s
            <4> QED
                BY <4>1, <4>2 DEF l
        <3> QED
            BY <1>2, <3>1, <3>2, <3>3 DEF Entry
    <2>3. MergeInto(c, m) = [c EXCEPT ![Len(c)] = y]
        BY <1>2 DEF MergeInto
    <2> HIDE DEF x, y
    <2>4. Len(c) \in 1 .. Len(c)
        BY <2>1, LenProperties
    <2>5. /\ [c EXCEPT ![Len(c)] = x] \in Seq(Entry)
          /\ Len([c EXCEPT ![Len(c)] = x]) = Len(c)
          /\ \A j \in 1 .. Len(c) : [c EXCEPT ![Len(c)] = x][j] =
                                       IF j = Len(c) THEN x ELSE c[j]
        BY <2>2, <2>4, ExceptSeq
    <2>6. /\ Append(Front(c), x) \in Seq(Entry)
          /\ Len(Append(Front(c), x)) = Len(c)
          /\ \A j \in 1 .. Len(c) : Append(Front(c), x)[j] =
                                       IF j = Len(c) THEN x ELSE c[j]
        <3>1. /\ Append(Front(c), x) \in Seq(Entry)
              /\ Len(Append(Front(c), x)) = Len(Front(c)) + 1
              /\ \A i \in 1 .. Len(Front(c)) : Append(Front(c), x)[i] = Front(c)[i]
              /\ Append(Front(c), x)[Len(Front(c)) + 1] = x
              /\ Len(Front(c)) \in Nat
            BY <2>1, <2>2, AppendProperties, LenProperties
        <3>2. Len(Front(c)) = Len(c) - 1 /\ Len(c) \in Nat
            BY <2>1, LenProperties
        <3> QED
            BY <2>1, <3>1, <3>2
    <2>7. [c EXCEPT ![Len(c)] = x] = Append(Front(c), x)
        BY <2>5, <2>6, SeqEqual
    <2> QED
        BY <1>2, <2>2, <2>3, <2>7 DEF x
<1> QED
    BY <1>1, <1>2

\* Merging gives entries, at least one.
LEMMA MergeIntoType ==
    ASSUME NEW c \in Seq(Entry), NEW m \in Entry
    PROVE  MergeInto(c, m) \in Seq(Entry) /\ MergeInto(c, m) # <<>>
<1>1. c # <<>> => Front(c) \in Seq(Entry)
    BY FrontLast
<1>2. CASE MergeInto(c, m) = Append(c, m)
    BY <1>2, AppendProperties
<1> DEFINE x == [role |-> m.role, says |-> Last(c).says \o m.says]
<1>3. CASE c # <<>> /\ x \in Entry /\ MergeInto(c, m) = Append(Front(c), x)
    <2> HIDE DEF x
    <2> QED
        BY <1>1, <1>3, AppendProperties
<1> QED
    BY <1>2, <1>3, MergeIntoEffect

\* Merging is a recursion over the history.
LEMMA MergedIs ==
    ASSUME NEW h \in Seq(Entry), NEW f \in [0 .. Len(h) -> Seq(Entry)],
           f[0] = <<>>, \A n \in 1 .. Len(h) : f[n] = MergeInto(f[n - 1], h[n])
    PROVE  Merged(h) = f[Len(h)]
<1> DEFINE N == Len(h)
           F(g) == [n \in 0 .. N |-> IF n = 0 THEN <<>> ELSE MergeInto(g[n - 1], h[n])]
           clean == CHOOSE g : g = F(g)
<1>1. N \in Nat
    BY LenProperties
<1>2. Merged(h) = clean[N]
    BY DEF Merged
<1>3. f = F(f)
    <2>1. ASSUME NEW n \in 0 .. N
          PROVE  f[n] = IF n = 0 THEN <<>> ELSE MergeInto(f[n - 1], h[n])
        BY <1>1
    <2> QED
        BY <2>1
<1>4. clean = F(clean)
    <2> HIDE DEF F
    <2> QED
        BY <1>3
<1>5. \A n \in 0 .. N : clean[n] = IF n = 0 THEN <<>> ELSE MergeInto(clean[n - 1], h[n])
    <2> HIDE DEF clean
    <2> QED
        BY <1>4
<1> DEFINE S == {k \in Nat : k \in 0 .. N => clean[k] = f[k]}
<1> HIDE DEF clean, F
<1>6. 0 \in S
    BY <1>1, <1>5
<1>7. ASSUME NEW k \in S
      PROVE  k + 1 \in S
    <2> SUFFICES ASSUME k + 1 \in 0 .. N
                 PROVE  clean[k + 1] = f[k + 1]
        OBVIOUS
    <2>1. k \in 0 .. N /\ k + 1 \in 1 .. N /\ (k + 1) - 1 = k /\ k + 1 # 0
        BY <1>1
    <2> HIDE DEF N
    <2>2. clean[k] = f[k]
        BY <2>1
    <2>3. clean[k + 1] = MergeInto(clean[k], h[k + 1])
        BY <1>5, <2>1
    <2>4. f[k + 1] = MergeInto(f[k], h[k + 1])
        BY <2>1 DEF N
    <2> QED
        BY <2>2, <2>3, <2>4
<1>8. S = Nat
    BY <1>6, <1>7, Induct
<1> HIDE DEF N
<1>9. clean[N] = f[N]
    BY <1>1, <1>8
<1> QED
    BY <1>2, <1>9 DEF N

\* A history with one more entry, merged.
LEMMA MergedAppend ==
    ASSUME NEW h \in Seq(Entry), NEW m \in Entry
    PROVE  /\ Merged(h) \in Seq(Entry)
           /\ Merged(Append(h, m)) = MergeInto(Merged(h), m)
<1> DEFINE N == Len(h)
           g == Append(h, m)
           step == [n \in 1 .. N + 1 |-> [c \in Seq(Entry) |-> MergeInto(c, g[n])]]
<1>1. N \in Nat
    BY LenProperties
<1>2. /\ g \in Seq(Entry) /\ Len(g) = N + 1
      /\ \A i \in 1 .. N : g[i] = h[i]
      /\ g[N + 1] = m
    BY AppendProperties
<1>3. \A n \in 1 .. N + 1 : g[n] \in Entry
    BY <1>2, ElementOfSeq
<1> HIDE DEF g, N
<1>4. step \in [1 .. N + 1 -> [Seq(Entry) -> Seq(Entry)]]
    BY <1>3, MergeIntoType
<1>5. PICK f \in [0 .. N + 1 -> Seq(Entry)] :
            f[0] = <<>> /\ \A n \in 1 .. N + 1 : f[n] = step[n][f[n - 1]]
    <2>1. N + 1 \in Nat /\ step \in Steps(Seq(Entry), N + 1) /\ <<>> \in Seq(Entry)
        BY <1>1, <1>4, EmptySeq DEF Steps
    <2> HIDE DEF step
    <2>2. Iterates(Seq(Entry), <<>>, N + 1, step) # {}
        BY <2>1, Iteration
    <2> QED
        BY <2>2 DEF Iterates
<1>6. ASSUME NEW n \in 1 .. N + 1
      PROVE  f[n] = MergeInto(f[n - 1], g[n])
    <2>1. f[n - 1] \in Seq(Entry)
        BY <1>1
    <2>2. f[n] = step[n][f[n - 1]]
        BY <1>5
    <2> QED
        BY <2>1, <2>2
<1> HIDE DEF step
<1>7. Merged(g) = f[N + 1]
    <2>1. /\ f \in [0 .. Len(g) -> Seq(Entry)]
          /\ \A n \in 1 .. Len(g) : f[n] = MergeInto(f[n - 1], g[n])
        BY <1>2, <1>6
    <2>2. Merged(g) = f[Len(g)]
        BY <1>2, <1>5, <2>1, MergedIs
    <2> QED
        BY <1>2, <2>2
<1>8. Merged(h) = f[N]
    <2> DEFINE e == [n \in 0 .. N |-> f[n]]
    <2>1. e \in [0 .. N -> Seq(Entry)] /\ e[0] = <<>> /\ e[N] = f[N]
        BY <1>1, <1>5
    <2>2. ASSUME NEW n \in 1 .. N
          PROVE  e[n] = MergeInto(e[n - 1], h[n])
        <3>1. n \in 0 .. N /\ n - 1 \in 0 .. N /\ n \in 1 .. N + 1
            BY <1>1
        <3>2. e[n] = f[n] /\ e[n - 1] = f[n - 1]
            BY <3>1
        <3>3. g[n] = h[n] /\ f[n] = MergeInto(f[n - 1], g[n])
            BY <1>2, <1>6, <3>1
        <3> QED
            BY <3>2, <3>3
    <2> HIDE DEF e
    <2>3. Merged(h) = e[N]
        BY <2>1, <2>2, MergedIs DEF N
    <2> QED
        BY <2>1, <2>3
<1>9. f[N + 1] = MergeInto(f[N], m) /\ f[N] \in Seq(Entry)
    <2>1. N + 1 \in 1 .. N + 1 /\ (N + 1) - 1 = N /\ N \in 0 .. N + 1
        BY <1>1
    <2>2. f[N + 1] = MergeInto(f[(N + 1) - 1], g[N + 1])
        BY <1>6, <2>1
    <2>3. g[N + 1] = m
        BY <1>2
    <2>4. f[N] \in Seq(Entry)
        BY <2>1
    <2> QED
        BY <2>1, <2>2, <2>3, <2>4
<1> QED
    BY <1>7, <1>8, <1>9 DEF g

\* Nothing to merge.
LEMMA NothingMerged == Merged(<<>>) = <<>> /\ Texts(<<>>) = <<>>
<1> DEFINE f == [n \in 0 .. 0 |-> <<>>]
<1>1. f \in [0 .. 0 -> Seq(Entry)] /\ f[0] = <<>> /\ Len(<<>>) = 0 /\ <<>> \in Seq(Entry)
    BY EmptySeq
<1> HIDE DEF f
<1>2. \A n \in 1 .. 0 : f[n] = MergeInto(f[n - 1], <<>>[n])
    OBVIOUS
<1>3. Merged(<<>>) = f[0]
    BY <1>1, <1>2, MergedIs
<1>4. Texts(<<>>) = FlattenSeq(<<>>)
    <2>1. [i \in DOMAIN <<>> |-> TextsOf(<<>>[i])] = <<>>
        OBVIOUS
    <2> QED
        BY <2>1 DEF Texts
<1>5. FlattenSeq(<<>>) = <<>>
    BY DEF FlattenSeq
<1> QED
    BY <1>1, <1>3, <1>4, <1>5

\* Merging keeps the texts.
LEMMA MergeTexts ==
    ASSUME NEW c \in Seq(Entry), NEW m \in Entry
    PROVE  Texts(MergeInto(c, m)) = Texts(c) \o TextsOf(m)
<1>1. CASE MergeInto(c, m) = Append(c, m)
    BY <1>1, TextsAppend
<1> DEFINE x == [role |-> m.role, says |-> Last(c).says \o m.says]
<1>2. CASE /\ c # <<>> /\ Last(c).role = m.role
           /\ x \in Entry /\ MergeInto(c, m) = Append(Front(c), x)
    <2> DEFINE l == Last(c)
    <2>1. /\ Front(c) \in Seq(Entry) /\ l \in Entry /\ c = Append(Front(c), l)
        BY <1>2, FrontLast
    <2>2. TextsOf(x) = TextsOf(l) \o TextsOf(m)
        <3>1. /\ x.role = m.role /\ l.role = m.role /\ x.says = l.says \o m.says
              /\ l.says \in Seq(1 .. Turns) /\ m.says \in Seq(1 .. Turns)
            BY <1>2, <2>1 DEF Entry
        <3> HIDE DEF x, l
        <3>2. /\ Len(l.says) \in Nat /\ Len(m.says) \in Nat
              /\ Len(x.says) = Len(l.says) + Len(m.says)
              /\ \A i \in 1 .. Len(x.says) :
                    x.says[i] = IF i <= Len(l.says) THEN l.says[i]
                                                    ELSE m.says[i - Len(l.says)]
            <4> DEFINE a == l.says
                       b == m.says
            <4>1. a \in Seq(1 .. Turns) /\ b \in Seq(1 .. Turns) /\ x.says = a \o b
                BY <3>1
            <4> HIDE DEF a, b
            <4>2. /\ Len(a) \in Nat /\ Len(b) \in Nat
                  /\ Len(a \o b) = Len(a) + Len(b)
                  /\ \A i \in 1 .. Len(a) + Len(b) :
                        (a \o b)[i] = IF i <= Len(a) THEN a[i] ELSE b[i - Len(a)]
                BY <4>1, ConcatProperties, LenProperties
            <4> QED
                BY <4>1, <4>2 DEF a, b
        <3>3. /\ TextsOf(x) \in Seq(Entry) /\ Len(TextsOf(x)) = Len(x.says)
              /\ \A j \in 1 .. Len(x.says) :
                    TextsOf(x)[j] = [role |-> m.role, says |-> <<x.says[j]>>]
            BY <1>2, <3>1, TextsOfType
        <3>4. /\ TextsOf(l) \in Seq(Entry) /\ Len(TextsOf(l)) = Len(l.says)
              /\ \A j \in 1 .. Len(l.says) :
                    TextsOf(l)[j] = [role |-> m.role, says |-> <<l.says[j]>>]
            BY <2>1, <3>1, TextsOfType
        <3>5. /\ TextsOf(m) \in Seq(Entry) /\ Len(TextsOf(m)) = Len(m.says)
              /\ \A j \in 1 .. Len(m.says) :
                    TextsOf(m)[j] = [role |-> m.role, says |-> <<m.says[j]>>]
            BY TextsOfType
        <3> DEFINE t == TextsOf(l) \o TextsOf(m)
        <3>6. /\ t \in Seq(Entry) /\ Len(t) = Len(x.says)
              /\ \A i \in 1 .. Len(x.says) :
                    t[i] = IF i <= Len(l.says) THEN TextsOf(l)[i]
                                               ELSE TextsOf(m)[i - Len(l.says)]
            <4> DEFINE a == TextsOf(l)
                       b == TextsOf(m)
            <4>1. /\ a \in Seq(Entry) /\ b \in Seq(Entry)
                  /\ Len(a) = Len(l.says) /\ Len(b) = Len(m.says)
                BY <3>4, <3>5
            <4> HIDE DEF a, b
            <4>2. /\ a \o b \in Seq(Entry) /\ Len(a \o b) = Len(a) + Len(b)
                  /\ \A i \in 1 .. Len(a) + Len(b) :
                        (a \o b)[i] = IF i <= Len(a) THEN a[i] ELSE b[i - Len(a)]
                BY <4>1, ConcatProperties
            <4>3. t = a \o b /\ Len(a) + Len(b) = Len(x.says)
                BY <3>2, <4>1 DEF a, b
            <4> HIDE DEF t
            <4>4. /\ t \in Seq(Entry) /\ Len(t) = Len(x.says)
                  /\ \A i \in 1 .. Len(x.says) :
                        t[i] = IF i <= Len(a) THEN a[i] ELSE b[i - Len(a)]
                BY <4>2, <4>3
            <4> QED
                BY <4>1, <4>4 DEF a, b
        <3> HIDE DEF t
        <3>7. ASSUME NEW i \in 1 .. Len(x.says)
              PROVE  TextsOf(x)[i] = t[i]
            <4>1. CASE i <= Len(l.says)
                <5>1. i \in 1 .. Len(l.says)
                    BY <3>2, <4>1
                <5> QED
                    BY <3>2, <3>3, <3>4, <3>6, <4>1, <5>1
            <4>2. CASE ~(i <= Len(l.says))
                <5> DEFINE a == Len(l.says)
                           b == Len(m.says)
                <5>a. a \in Nat /\ b \in Nat /\ i \in 1 .. a + b /\ ~(i <= a)
                    BY <3>2, <4>2
                <5> HIDE DEF a, b
                <5>b. i - a \in 1 .. b
                    BY <5>a
                <5>1. i - Len(l.says) \in 1 .. Len(m.says)
                    BY <5>b DEF a, b
                <5> QED
                    BY <3>2, <3>3, <3>5, <3>6, <4>2, <5>1
            <4> QED
                BY <4>1, <4>2
        <3>8. TextsOf(x) = t
            BY <3>3, <3>6, <3>7, SeqEqual
        <3> QED
            BY <3>8 DEF t
    <2>3. Texts(MergeInto(c, m)) = Texts(Front(c)) \o TextsOf(x)
        BY <1>2, <2>1, TextsAppend
    <2>4. /\ Texts(c) = Texts(Front(c)) \o TextsOf(l)
          /\ Texts(Front(c)) \in Seq(Entry)
          /\ TextsOf(l) \in Seq(Entry) /\ TextsOf(m) \in Seq(Entry)
        BY <2>1, TextsAppend, TextsOfType
    <2> DEFINE a == Texts(Front(c))
               b == TextsOf(l)
               d == TextsOf(m)
    <2>5. a \in Seq(Entry) /\ b \in Seq(Entry) /\ d \in Seq(Entry)
        BY <2>4
    <2> HIDE DEF a, b, d
    <2>6. (a \o b) \o d = a \o (b \o d)
        BY <2>5, ConcatAssociative
    <2> QED
        BY <2>2, <2>3, <2>4, <2>6 DEF a, b, d
<1> QED
    BY <1>1, <1>2, MergeIntoEffect

\* The messages alternate, from one of the user on.
Alternates(c) ==
    \A i \in 1 .. Len(c) : c[i].role = IF i % 2 = 1 THEN "user" ELSE "assistant"

\* Merging keeps messages in alternation.
LEMMA MergeAlternates ==
    ASSUME NEW c \in Seq(Entry), NEW m \in Entry, Alternates(c),
           m.role \in {"user", "assistant"}, c = <<>> => m.role = "user"
    PROVE  Alternates(MergeInto(c, m))
<1>0. Len(c) \in Nat /\ (Len(c) = 0 => c = <<>>)
    BY LenProperties
<1>1. CASE /\ c = <<>> \/ Last(c).role # m.role
           /\ MergeInto(c, m) = Append(c, m)
    <2>1. /\ Len(Append(c, m)) = Len(c) + 1
          /\ \A i \in 1 .. Len(c) : Append(c, m)[i] = c[i]
          /\ Append(c, m)[Len(c) + 1] = m
        BY AppendProperties
    <2>2. m.role = IF (Len(c) + 1) % 2 = 1 THEN "user" ELSE "assistant"
        <3>1. CASE Len(c) = 0
            BY <1>0, <3>1
        <3>2. CASE Len(c) # 0
            <4>1. c # <<>> /\ Last(c) = c[Len(c)] /\ Len(c) \in 1 .. Len(c)
                BY <1>0, <3>2 DEF Last
            <4>2. c[Len(c)].role = IF Len(c) % 2 = 1 THEN "user" ELSE "assistant"
                BY <4>1 DEF Alternates
            <4>3. Len(c) % 2 = 1 <=> ~((Len(c) + 1) % 2 = 1)
                BY <1>0
            <4> QED
                BY <1>1, <4>1, <4>2, <4>3
        <3> QED
            BY <3>1, <3>2
    <2>3. ASSUME NEW i \in 1 .. Len(c) + 1
          PROVE  Append(c, m)[i].role = IF i % 2 = 1 THEN "user" ELSE "assistant"
        <3>1. CASE i \in 1 .. Len(c)
            BY <2>1, <3>1 DEF Alternates
        <3>2. CASE i = Len(c) + 1
            BY <2>1, <2>2, <3>2
        <3> QED
            BY <1>0, <3>1, <3>2
    <2> QED
        BY <1>1, <2>1, <2>3 DEF Alternates
<1> DEFINE x == [role |-> m.role, says |-> Last(c).says \o m.says]
<1>2. CASE /\ c # <<>> /\ Last(c).role = m.role
           /\ x \in Entry /\ MergeInto(c, m) = Append(Front(c), x)
    <2>1. /\ Front(c) \in Seq(Entry) /\ Len(c) = Len(Front(c)) + 1
          /\ c[Len(c)] = Last(c) /\ Len(Front(c)) \in Nat
          /\ \A i \in 1 .. Len(c) - 1 : Front(c)[i] = c[i]
        BY <1>2, FrontLast, LenProperties
    <2>2. x.role = Last(c).role
        BY <1>2
    <2> HIDE DEF x
    <2>3. /\ Len(Append(Front(c), x)) = Len(c)
          /\ \A i \in 1 .. Len(c) - 1 : Append(Front(c), x)[i] = Front(c)[i]
          /\ Append(Front(c), x)[Len(c)] = x
        BY <1>2, <2>1, AppendProperties
    <2>4. \A i \in 1 .. Len(c) : Append(Front(c), x)[i].role = c[i].role
        BY <1>0, <2>1, <2>2, <2>3
    <2> QED
        BY <1>2, <2>3, <2>4 DEF Alternates
<1> QED
    BY <1>1, <1>2, MergeIntoEffect

\* A history whose messages, merged, alternate and keep its texts.
MergesWell(h) ==
    /\ Alternates(Merged(h))
    /\ Texts(Merged(h)) = Texts(h)
    /\ h # <<>> => Merged(h) # <<>>

\* One more entry of either role, but a first one of the user, keeps it so.
LEMMA MergesWellAppend ==
    ASSUME NEW h \in Seq(Entry), NEW m \in Entry, MergesWell(h),
           m.role \in {"user", "assistant"}, h = <<>> => m.role = "user"
    PROVE  MergesWell(Append(h, m))
<1>1. /\ Merged(h) \in Seq(Entry)
      /\ Merged(Append(h, m)) = MergeInto(Merged(h), m)
      /\ Texts(Append(h, m)) = Texts(h) \o TextsOf(m)
    BY MergedAppend, TextsAppend
<1>2. Merged(h) = <<>> => m.role = "user"
    BY DEF MergesWell
<1>3. /\ Alternates(MergeInto(Merged(h), m))
      /\ Texts(MergeInto(Merged(h), m)) = Texts(Merged(h)) \o TextsOf(m)
      /\ MergeInto(Merged(h), m) # <<>>
    BY <1>1, <1>2, MergeAlternates, MergeTexts, MergeIntoType DEF MergesWell
<1> QED
    BY <1>1, <1>3 DEF MergesWell

-----------------------------------------------------------------------------
(* A conversation *)

\* The entries of a turn say one text each.
LEMMA TurnEntries ==
    ASSUME NEW t \in 1 .. Turns
    PROVE  /\ Prompt(t) \in Entry /\ Reply(t) \in Entry
           /\ Prompt(t).role = "user" /\ Reply(t).role = AssistantRole
           /\ TextsOf(Prompt(t)) = <<Prompt(t)>>
           /\ TextsOf(Reply(t)) = <<Reply(t)>>
<1>1. <<t>> \in Seq(1 .. Turns) /\ Len(<<t>>) = 1 /\ <<t>>[1] = t
    OBVIOUS
<1>2. AssistantRole \in {"assistant", "model"}
    BY DEF AssistantRole
<1>3. Prompt(t) \in Entry /\ Prompt(t).role = "user" /\ Prompt(t).says = <<t>>
    BY <1>1 DEF Prompt, Entry
<1>4. Reply(t) \in Entry /\ Reply(t).role = AssistantRole /\ Reply(t).says = <<t>>
    BY <1>1, <1>2 DEF Reply, Entry
<1>5. ASSUME NEW m \in Entry, m = [role |-> m.role, says |-> <<t>>]
      PROVE  TextsOf(m) = <<m>>
    <2>1. m.says = <<t>>
        BY <1>5
    <2>2. /\ TextsOf(m) \in Seq(Entry) /\ Len(TextsOf(m)) = 1
          /\ TextsOf(m)[1] = [role |-> m.role, says |-> <<t>>]
        BY <1>1, <2>1, TextsOfType
    <2>3. <<m>> \in Seq(Entry) /\ Len(<<m>>) = 1 /\ <<m>>[1] = m
        OBVIOUS
    <2>4. \A i \in 1 .. 1 : TextsOf(m)[i] = <<m>>[i]
        BY <1>5, <2>2, <2>3
    <2> QED
        BY <2>2, <2>3, <2>4, SeqEqual
<1> QED
    BY <1>3, <1>4, <1>5 DEF Prompt, Reply

\* What is shown of a turn that ended.
LEMMA ShownOfType ==
    ASSUME TypeOK, NEW t \in 1 .. Len(result)
    PROVE  ShownOf(t) \in Seq(Entry) /\ t \in 1 .. Turns
<1>1. /\ Len(result) \in Nat /\ Len(result) <= Turns /\ Turns \in Nat
      /\ result[t] \in {"answered", "failed", "limited"}
    BY LenProperties, ElementOfSeq, ApiHistoryAssumption DEF TypeOK
<1>2. t \in 1 .. Turns
    BY <1>1
<1>3. <<Prompt(t), Reply(t)>> \in Seq(Entry) /\ <<Prompt(t)>> \in Seq(Entry)
      /\ <<>> \in Seq(Entry)
    <2> HIDE DEF Entry
    <2>1. Prompt(t) \in Entry /\ Reply(t) \in Entry
        BY <1>2, TurnEntries
    <2> QED
        BY <2>1
<1> QED
    BY <1>1, <1>2, <1>3 DEF ShownOf

\* What is shown of one turn more.
LEMMA ShownGrows ==
    ASSUME TypeOK, NEW n \in Nat, n < Len(result)
    PROVE  /\ Shown(n) \in Seq(Entry)
           /\ Shown(n + 1) = Shown(n) \o ShownOf(n + 1)
<1> DEFINE a == [t \in 1 .. n |-> ShownOf(t)]
           b == [t \in 1 .. n + 1 |-> ShownOf(t)]
<1>1. Len(result) \in Nat /\ 1 .. n + 1 \subseteq 1 .. Len(result)
    <2>1. Len(result) \in Nat
        BY LenProperties DEF TypeOK
    <2> QED
        BY <2>1
<1>2. \A t \in 1 .. n + 1 : ShownOf(t) \in Seq(Entry)
    BY <1>1, ShownOfType
<1>3. a \in Seq(Seq(Entry)) /\ Len(a) = n
    <2>1. a \in [1 .. n -> Seq(Entry)]
        BY <1>2
    <2>2. a \in Seq(Seq(Entry))
        BY <2>1, SeqDef
    <2> QED
        BY <2>1, <2>2, LenProperties
<1>4. b \in Seq(Seq(Entry)) /\ Len(b) = n + 1
    <2>1. b \in [1 .. n + 1 -> Seq(Entry)]
        BY <1>2
    <2>2. b \in Seq(Seq(Entry))
        BY <2>1, SeqDef
    <2> QED
        BY <2>1, <2>2, LenProperties
<1> DEFINE s == ShownOf(n + 1)
<1>5. (\A i \in 1 .. Len(a) : b[i] = a[i]) /\ b[n + 1] = s
    BY <1>3
<1>6. s \in Seq(Entry)
    BY <1>2
<1>7. Shown(n) = FlattenSeq(a) /\ Shown(n + 1) = FlattenSeq(b)
    BY DEF Shown
<1> HIDE DEF a, b, s
<1>8. FlattenSeq(a) \in Seq(Entry)
    BY <1>3, <1>6, FlattenAppend
<1>9. Len(b) = Len(a) + 1 /\ b[Len(b)] = s
    BY <1>3, <1>4, <1>5
<1>10. FlattenSeq(b) = FlattenSeq(a) \o s
    BY <1>3, <1>4, <1>5, <1>6, <1>9, FlattenMap
<1> QED
    BY <1>7, <1>8, <1>10 DEF s

\* Before the first turn.
LEMMA NothingShown == Shown(0) = <<>>
<1>1. [t \in 1 .. 0 |-> ShownOf(t)] = <<>>
    OBVIOUS
<1>2. FlattenSeq(<<>>) = <<>>
    BY DEF FlattenSeq
<1> QED
    BY <1>1, <1>2 DEF Shown

\* The history before the prompt that waits for an answer.
Past == IF pc = "waiting" THEN Front(history) ELSE history

\* The invariant: the history before the prompt that waits says what is to be
\* shown of the turns that ended, and can be merged.
HistoryInv ==
    /\ TypeOK
    /\ pc = "waiting" =>
          /\ history # <<>> /\ Last(history) = Prompt(turn)
          /\ request = Messages(history)
    /\ api # "gemini" => Texts(Past) = Shown(Len(result))
    /\ api = "claude" => MergesWell(Past)
    /\ RolesAlternate

\* While a prompt waits, the history is what was before and the prompt.
LEMMA Waiting ==
    ASSUME HistoryInv, pc = "waiting"
    PROVE  /\ turn \in 1 .. Turns /\ Len(result) = turn - 1
           /\ Past \in Seq(Entry) /\ history = Append(Past, Prompt(turn))
           /\ Texts(history) = Texts(Past) \o <<Prompt(turn)>>
           /\ api = "claude" => MergesWell(history)
           /\ Front(history) = Past /\ Last(history).role = "user"
<1>1. /\ Len(result) \in Nat /\ Len(result) = turn - 1 /\ turn \in 0 .. Turns
      /\ Turns \in Nat /\ history \in Seq(Entry)
    BY LenProperties, ApiHistoryAssumption DEF HistoryInv, TypeOK
<1>2. turn \in 1 .. Turns
    BY <1>1
<1>3. /\ Past \in Seq(Entry) /\ history = Append(Past, Prompt(turn))
      /\ Front(history) = Past
    BY <1>1, FrontLast DEF HistoryInv, Past
<1>4. /\ Prompt(turn) \in Entry /\ Prompt(turn).role = "user"
      /\ TextsOf(Prompt(turn)) = <<Prompt(turn)>>
    BY <1>2, TurnEntries
<1>5. Texts(history) = Texts(Past) \o <<Prompt(turn)>>
    BY <1>3, <1>4, TextsAppend
<1>6. api = "claude" => MergesWell(history)
    BY <1>3, <1>4, MergesWellAppend DEF HistoryInv
<1> QED
    BY <1>1, <1>2, <1>3, <1>4, <1>5, <1>6 DEF HistoryInv

\* The request, sent as it is or merged, says the history.
LEMMA HistoryGivesShown ==
    ASSUME HistoryInv, "gemini" \notin Api
    PROVE  ConversationShown
<1> SUFFICES ASSUME pc = "waiting"
             PROVE  Texts(request) = Shown(turn - 1) \o <<Prompt(turn)>>
    BY DEF ConversationShown
<1>1. /\ Texts(history) = Texts(Past) \o <<Prompt(turn)>>
      /\ Texts(Past) = Shown(turn - 1)
      /\ request = Messages(history)
      /\ api = "claude" => Texts(Merged(history)) = Texts(history)
    BY Waiting DEF HistoryInv, TypeOK, MergesWell
<1>2. Texts(Messages(history)) = Texts(history)
    BY <1>1 DEF Messages
<1> QED
    BY <1>1, <1>2

-----------------------------------------------------------------------------
(* The steps of a client *)

\* A turn begins: no entry changes.
LEMMA StartTurnTyped ==
    ASSUME TypeOK, StartTurn
    PROVE  TypeOK'
<1> QED
    BY ApiHistoryAssumption DEF TypeOK, StartTurn, MaxAttempts

\* The history that a 429 leaves.
LEMMA WithoutFailedType ==
    ASSUME NEW h \in Seq(Entry)
    PROVE  WithoutFailed(h) \in Seq(Entry)
<1> DEFINE once == IF h # <<>> /\ Last(h).role = "user" THEN Front(h) ELSE h
<1>1. once \in Seq(Entry)
    BY FrontLast
<1>2. WithoutFailed(h) = IF api = "gemini" /\ once # <<>> THEN Front(once) ELSE once
    BY DEF WithoutFailed
<1> HIDE DEF once
<1>3. once # <<>> => Front(once) \in Seq(Entry)
    BY <1>1, FrontLast
<1> QED
    BY <1>1, <1>2, <1>3

\* The end of a turn adds its result.
LEMMA EndTurnTyped ==
    ASSUME TypeOK, pc = "waiting", history' \in Seq(Entry),
           NEW how \in {"answered", "failed", "limited"}, EndTurn(how)
    PROVE  /\ TypeOK'
           /\ Len(result') = Len(result) + 1 /\ result'[Len(result) + 1] = how
           /\ \A t \in 1 .. Len(result) : result'[t] = result[t]
<1> DEFINE Hows == {"answered", "failed", "limited"}
<1>1. how \in Hows /\ result \in Seq(Hows) /\ result' = Append(result, how)
    BY DEF TypeOK, EndTurn
<1> HIDE DEF Hows
<1>2. /\ result' \in Seq(Hows) /\ Len(result') = Len(result) + 1
      /\ result'[Len(result) + 1] = how /\ Len(result) \in Nat
      /\ \A t \in 1 .. Len(result) : result'[t] = result[t]
    BY <1>1, AppendProperties, LenProperties
<1>3. /\ api' = api /\ turn' = turn /\ attempt' = attempt /\ request' = request
      /\ pc' = "idle" /\ Len(result) = turn - 1 /\ turn \in 0 .. Turns
    BY DEF TypeOK, EndTurn
<1>4. Len(result') = turn'
    BY <1>2, <1>3
<1> USE DEF Hows
<1> QED
    BY <1>2, <1>3, <1>4 DEF TypeOK

\* What was shown stays shown.
LEMMA ShownKept ==
    ASSUME api' = api, NEW n \in Nat,
           \A t \in 1 .. n : result'[t] = result[t]
    PROVE  Shown(n)' = Shown(n)
<1>1. \A t \in 1 .. n : ShownOf(t)' = ShownOf(t)
    BY DEF ShownOf, Prompt, Reply, AssistantRole
<1>2. [t \in 1 .. n |-> ShownOf(t)]' = [t \in 1 .. n |-> ShownOf(t)]
    BY <1>1
<1> QED
    BY <1>2 DEF Shown

\* A turn begins: the past is what it was.
LEMMA StartTurnKeeps ==
    ASSUME HistoryInv, StartTurn
    PROVE  HistoryInv'
<1>1. TypeOK'
    BY StartTurnTyped DEF HistoryInv
<1>2. /\ pc # "waiting" /\ pc' # "waiting" /\ Past' = Past
      /\ api' = api /\ result' = result /\ request' = request
    BY DEF StartTurn, Past
<1>3. Shown(Len(result))' = Shown(Len(result))
    BY <1>2 DEF Shown, ShownOf, Prompt, Reply, AssistantRole
<1>4. MergesWell(Past)' = MergesWell(Past)
    BY <1>2
<1> QED
    BY <1>1, <1>2, <1>3, <1>4 DEF HistoryInv, RolesAlternate

\* What a request sends is typed, and alternates if the client is Claude's.
LEMMA MessagesType ==
    ASSUME NEW h \in Seq(Entry)
    PROVE  Messages(h) \in Seq(Entry)
<1>1. <<>> \in Seq(Entry)
    BY EmptySeq
<1>2. ASSUME NEW m \in Entry
      PROVE  Merged(h) \in Seq(Entry)
    BY MergedAppend
<1>3. h = <<>> => Merged(h) \in Seq(Entry)
    BY <1>1, NothingMerged
<1>4. h # <<>> => \E m \in Entry : TRUE
    BY FrontLast
<1> QED
    BY <1>2, <1>3, <1>4 DEF Messages

\* A prompt is an entry of the history.
LEMMA PostTyped ==
    ASSUME TypeOK, Post
    PROVE  /\ TypeOK' /\ turn \in 1 .. Turns
           /\ history' = Append(history, Prompt(turn))
<1>1. /\ Len(result) \in Nat /\ Len(result) = turn - 1 /\ turn \in 0 .. Turns
      /\ Turns \in Nat /\ history \in Seq(Entry)
    BY LenProperties, ApiHistoryAssumption DEF TypeOK, Post
<1>2. turn \in 1 .. Turns
    BY <1>1
<1>3. history' \in Seq(Entry) /\ history' = Append(history, Prompt(turn))
    BY <1>1, <1>2, TurnEntries, AppendProperties DEF Post
<1>4. request' \in Seq(Entry)
    BY <1>3, MessagesType DEF Post
<1> QED
    BY <1>2, <1>3, <1>4 DEF TypeOK, Post

\* A reply is an entry of the history.
LEMMA AnsweredTyped ==
    ASSUME TypeOK, Answered
    PROVE  /\ TypeOK' /\ turn \in 1 .. Turns
           /\ Len(result) = turn - 1 /\ Len(result') = Len(result) + 1
           /\ result'[Len(result) + 1] = "answered"
           /\ \A t \in 1 .. Len(result) : result'[t] = result[t]
<1>1. /\ Len(result) \in Nat /\ Len(result) = turn - 1 /\ turn \in 0 .. Turns
      /\ Turns \in Nat /\ history \in Seq(Entry)
    BY LenProperties, ApiHistoryAssumption DEF TypeOK, Answered
<1>2. turn \in 1 .. Turns
    BY <1>1
<1>3. history' \in Seq(Entry)
    BY <1>1, <1>2, TurnEntries, AppendProperties DEF Answered
<1> QED
    BY <1>1, <1>2, <1>3, EndTurnTyped DEF Answered

\* A failure leaves the history.
LEMMA FailedTyped ==
    ASSUME TypeOK, Failed
    PROVE  /\ TypeOK'
           /\ Len(result') = Len(result) + 1
           /\ result'[Len(result) + 1] = "failed"
           /\ \A t \in 1 .. Len(result) : result'[t] = result[t]
<1>1. history' \in Seq(Entry)
    BY DEF TypeOK, Failed
<1> QED
    BY <1>1, EndTurnTyped DEF Failed

\* A 429 leaves a history of entries, and ends the turn when no attempt is left.
LEMMA RateLimitedTyped ==
    ASSUME TypeOK, RateLimited
    PROVE  /\ TypeOK'
           /\ ~AttemptsLeft =>
                 /\ Len(result') = Len(result) + 1
                 /\ result'[Len(result) + 1] = "limited"
                 /\ \A t \in 1 .. Len(result) : result'[t] = result[t]
<1>1. history' \in Seq(Entry)
    BY WithoutFailedType DEF TypeOK, RateLimited
<1>2. CASE AttemptsLeft
    BY <1>1, <1>2 DEF TypeOK, RateLimited, AttemptsLeft, MaxAttempts
<1>3. CASE ~AttemptsLeft
    <2>1. EndTurn("limited")
        BY <1>3 DEF RateLimited
    <2> QED
        BY <1>1, <1>3, <2>1, EndTurnTyped DEF RateLimited
<1> QED
    BY <1>2, <1>3

\* The request is made from the history with the prompt.
LEMMA PostKeeps ==
    ASSUME HistoryInv, Post
    PROVE  HistoryInv'
<1>1. /\ TypeOK /\ TypeOK' /\ turn \in 1 .. Turns
      /\ history' = Append(history, Prompt(turn)) /\ history \in Seq(Entry)
    BY PostTyped DEF HistoryInv, TypeOK
<1>2. /\ pc = "sending" /\ pc' = "waiting" /\ api' = api /\ turn' = turn
      /\ result' = result /\ request' = Messages(history)'
    BY DEF Post, Messages
<1>3. Prompt(turn) \in Entry /\ Prompt(turn).role = "user" /\ Prompt(turn)' = Prompt(turn)
    BY <1>1, <1>2, TurnEntries DEF Prompt
<1>4. history' # <<>> /\ Last(history)' = Prompt(turn) /\ Front(history)' = history
    <2>1. /\ Append(history, Prompt(turn)) # <<>>
          /\ Last(Append(history, Prompt(turn))) = Prompt(turn)
          /\ Front(Append(history, Prompt(turn))) = history
        BY <1>1, <1>3, FrontOfAppend, AppendProperties
    <2> QED
        BY <1>1, <2>1
<1>5. Past = history /\ Past' = history
    BY <1>2, <1>4 DEF Past
<1>6. Shown(Len(result))' = Shown(Len(result))
    BY <1>2 DEF Shown, ShownOf, Prompt, Reply, AssistantRole
<1>7. Texts(Past)' = Texts(Past) /\ MergesWell(Past)' = MergesWell(Past)
    BY <1>5
<1>8. ASSUME api = "claude"
      PROVE  Alternates(request')
    <2>1. MergesWell(history')
        BY <1>1, <1>3, <1>5, <1>8, MergesWellAppend DEF HistoryInv
    <2> QED
        BY <1>2, <1>8, <2>1 DEF MergesWell, Messages
<1>9. RolesAlternate'
    BY <1>2, <1>8 DEF RolesAlternate, Alternates
<1> QED
    BY <1>1, <1>2, <1>3, <1>4, <1>6, <1>7, <1>9 DEF HistoryInv

\* ShownGrows in the next state.
LEMMA ShownGrowsNext ==
    ASSUME NEW n \in Nat
    PROVE  (TypeOK /\ n < Len(result) => Shown(n + 1) = Shown(n) \o ShownOf(n + 1))'
<1>1. TypeOK /\ n < Len(result) => Shown(n + 1) = Shown(n) \o ShownOf(n + 1)
    BY ShownGrows
<1> QED
    BY <1>1, PTL

\* A sequence of two, from sequences of one.
LEMMA TwoElements ==
    ASSUME NEW E, NEW p \in E, NEW q \in E
    PROVE  <<p>> \o <<q>> = <<p, q>>
<1>1. <<p>> \in Seq(E) /\ <<q>> \in Seq(E) /\ <<p, q>> \in Seq(E)
    OBVIOUS
<1>2. Append(<<p>>, q) = <<p>> \o <<q>>
    BY <1>1, AppendIsConcat
<1>3. Append(<<p>>, q) = <<p, q>>
    <2>1. /\ Append(<<p>>, q) \in Seq(E) /\ Len(Append(<<p>>, q)) = 2
          /\ Append(<<p>>, q)[1] = p /\ Append(<<p>>, q)[2] = q
        BY <1>1, AppendProperties
    <2>2. Len(<<p, q>>) = 2 /\ \A i \in 1 .. 2 : Append(<<p>>, q)[i] = <<p, q>>[i]
        BY <2>1
    <2> QED
        BY <1>1, <2>1, <2>2, SeqEqual
<1> QED
    BY <1>2, <1>3

\* The end of a turn, which adds to the history what is shown of the turn.
LEMMA EndedKeeps ==
    ASSUME HistoryInv, TypeOK', pc' = "idle", api' = api, request' = request,
           NEW n \in Nat, n = Len(result), Len(result') = n + 1,
           \A t \in 1 .. n : result'[t] = result[t],
           api # "gemini" => Texts(history') = Texts(Past) \o ShownOf(n + 1)',
           api = "claude" => MergesWell(history')
    PROVE  HistoryInv'
<1>1. Past' = history' /\ pc' # "waiting"
    BY DEF Past
<1>2. Shown(n)' = Shown(n)
    BY ShownKept
<1>3. Shown(n + 1)' = Shown(n)' \o ShownOf(n + 1)'
    BY ShownGrowsNext
<1>4. Shown(Len(result))' = Shown(n + 1)'
    BY DEF Shown
<1>5. api # "gemini" => Texts(history') = Shown(Len(result))'
    BY <1>2, <1>3, <1>4 DEF HistoryInv
<1> QED
    BY <1>1, <1>5 DEF HistoryInv, RolesAlternate

\* An answered turn shows its prompt and its reply.
LEMMA AnsweredKeeps ==
    ASSUME HistoryInv, Answered
    PROVE  HistoryInv'
<1>1. /\ TypeOK /\ TypeOK' /\ turn \in 1 .. Turns
      /\ Len(result) = turn - 1 /\ Len(result') = Len(result) + 1
      /\ result'[Len(result) + 1] = "answered"
      /\ \A t \in 1 .. Len(result) : result'[t] = result[t]
    BY AnsweredTyped DEF HistoryInv
<1>2. /\ pc = "waiting" /\ pc' = "idle" /\ api' = api /\ request' = request
      /\ history' = Append(history, Reply(turn))
    BY DEF Answered, EndTurn
<1>3. PICK n \in Nat : n = Len(result) /\ turn = n + 1
    BY <1>1
<1>4. /\ Past \in Seq(Entry) /\ history = Append(Past, Prompt(turn))
      /\ Texts(history) = Texts(Past) \o <<Prompt(turn)>>
      /\ api = "claude" => MergesWell(history)
      /\ history # <<>> /\ history \in Seq(Entry)
    BY <1>2, Waiting DEF HistoryInv, TypeOK
<1>5. /\ Reply(turn) \in Entry /\ Prompt(turn) \in Entry
      /\ Reply(turn).role = AssistantRole
      /\ TextsOf(Reply(turn)) = <<Reply(turn)>>
    BY <1>1, TurnEntries
<1>6. Texts(history') = (Texts(Past) \o <<Prompt(turn)>>) \o <<Reply(turn)>>
    BY <1>2, <1>4, <1>5, TextsAppend
<1>7. (Texts(Past) \o <<Prompt(turn)>>) \o <<Reply(turn)>>
          = Texts(Past) \o <<Prompt(turn), Reply(turn)>>
    <2> DEFINE a == Texts(Past)
               b == <<Prompt(turn)>>
               d == <<Reply(turn)>>
    <2> HIDE DEF Entry
    <2>1. a \in Seq(Entry)
        BY <1>4, <1>5, TextsAppend
    <2>2. b \in Seq(Entry) /\ d \in Seq(Entry)
        BY <1>5
    <2>3. b \o d = <<Prompt(turn), Reply(turn)>>
        BY <1>5, TwoElements
    <2> HIDE DEF a, b, d
    <2>4. (a \o b) \o d = a \o (b \o d)
        BY <2>1, <2>2, ConcatAssociative
    <2> QED
        BY <2>3, <2>4 DEF a, b, d
<1>8. ShownOf(n + 1)' = <<Prompt(turn), Reply(turn)>>
    BY <1>1, <1>2, <1>3 DEF ShownOf, Prompt, Reply, AssistantRole
<1>9. ASSUME api = "claude"
      PROVE  MergesWell(history')
    <2>1. Reply(turn).role = "assistant"
        BY <1>5, <1>9 DEF AssistantRole
    <2> QED
        BY <1>2, <1>4, <1>5, <1>9, <2>1, MergesWellAppend
<1> QED
    BY <1>1, <1>2, <1>3, <1>6, <1>7, <1>8, <1>9, EndedKeeps

\* A failed turn shows its prompt.
LEMMA FailedKeeps ==
    ASSUME HistoryInv, Failed
    PROVE  HistoryInv'
<1>1. /\ TypeOK /\ TypeOK' /\ Len(result') = Len(result) + 1
      /\ result'[Len(result) + 1] = "failed"
      /\ \A t \in 1 .. Len(result) : result'[t] = result[t]
    BY FailedTyped DEF HistoryInv
<1>2. /\ pc = "waiting" /\ pc' = "idle" /\ api' = api /\ request' = request
      /\ history' = history
    BY DEF Failed, EndTurn
<1>3. /\ turn \in 1 .. Turns /\ Len(result) = turn - 1
      /\ Texts(history) = Texts(Past) \o <<Prompt(turn)>>
      /\ api = "claude" => MergesWell(history)
    BY <1>2, Waiting
<1>4. PICK n \in Nat : n = Len(result) /\ turn = n + 1
    BY <1>3
<1>5. ShownOf(n + 1)' = <<Prompt(turn)>>
    BY <1>1, <1>2, <1>4 DEF ShownOf, Prompt
<1> QED
    BY <1>1, <1>2, <1>3, <1>4, <1>5, EndedKeeps

\* A 429 takes the prompt out of the history again.
LEMMA RateLimitedKeeps ==
    ASSUME HistoryInv, RateLimited
    PROVE  HistoryInv'
<1>1. /\ TypeOK /\ TypeOK'
      /\ ~AttemptsLeft =>
            /\ Len(result') = Len(result) + 1
            /\ result'[Len(result) + 1] = "limited"
            /\ \A t \in 1 .. Len(result) : result'[t] = result[t]
    BY RateLimitedTyped DEF HistoryInv
<1>2. /\ pc = "waiting" /\ pc' # "waiting" /\ api' = api /\ request' = request
      /\ history' = WithoutFailed(history)
    BY DEF RateLimited, EndTurn
<1>3. /\ Past \in Seq(Entry) /\ Front(history) = Past
      /\ Last(history).role = "user" /\ history # <<>>
    BY <1>2, Waiting DEF HistoryInv
<1>4. api # "gemini" => history' = Past
    BY <1>2, <1>3 DEF WithoutFailed
<1>5. api = "claude" => MergesWell(history')
    BY <1>4 DEF HistoryInv
<1>6. CASE AttemptsLeft
    <2>1. result' = result /\ Past' = history'
        BY <1>2, <1>6 DEF RateLimited, Past
    <2>2. Shown(Len(result))' = Shown(Len(result))
        BY <1>2, <2>1 DEF Shown, ShownOf, Prompt, Reply, AssistantRole
    <2>3. api # "gemini" => Texts(Past') = Texts(Past)
        BY <1>4, <2>1
    <2>4. api = "claude" => MergesWell(Past)'
        BY <1>5, <2>1
    <2> QED
        BY <1>1, <1>2, <2>2, <2>3, <2>4 DEF HistoryInv, RolesAlternate
<1>7. CASE ~AttemptsLeft
    <2>1. PICK n \in Nat : n = Len(result)
        BY <1>1, LenProperties DEF TypeOK
    <2>2. pc' = "idle"
        BY <1>7 DEF RateLimited, EndTurn
    <2>3. ShownOf(n + 1)' = <<>>
        BY <1>1, <1>7, <2>1 DEF ShownOf
    <2>4. \E m \in Entry : TRUE
        BY <1>3, FrontLast DEF HistoryInv, TypeOK
    <2>5. Texts(Past) \in Seq(Entry)
        BY <1>3, <2>4, TextsAppend
    <2>6. Texts(Past) \o <<>> = Texts(Past)
        BY <2>5, ConcatEmptySeq
    <2>7. api # "gemini" => Texts(history') = Texts(Past) \o ShownOf(n + 1)'
        BY <1>4, <2>3, <2>6
    <2> QED
        BY <1>1, <1>2, <1>5, <1>7, <2>1, <2>2, <2>7, EndedKeeps
<1> QED
    BY <1>6, <1>7

\* A new client has no history.
LEMMA HistoryStart ==
    ASSUME Init
    PROVE  HistoryInv
<1>1. TypeOK
    <2>1. /\ <<>> \in Seq(Entry) /\ <<>> \in Seq({"answered", "failed", "limited"})
          /\ Len(<<>>) = 0
        BY EmptySeq
    <2> QED
        BY <2>1, ApiHistoryAssumption DEF Init, TypeOK, MaxAttempts
<1>2. Past = <<>> /\ Len(result) = 0
    BY DEF Init, Past
<1>3. MergesWell(<<>>)
    BY NothingMerged DEF MergesWell, Alternates
<1> QED
    BY <1>1, <1>2, <1>3, NothingShown, NothingMerged DEF HistoryInv, RolesAlternate, Init

\* A new client starts as the first did.
LEMMA HistoryReset ==
    ASSUME Init'
    PROVE  HistoryInv'
<1> QED
    BY HistoryStart, PTL

\* Steps of the benchmark around the client.
LEMMA HistoryUnchanged ==
    ASSUME HistoryInv, UNCHANGED vars
    PROVE  HistoryInv'
<1>1. /\ api' = api /\ turn' = turn /\ attempt' = attempt /\ pc' = pc
      /\ history' = history /\ request' = request /\ result' = result
    BY DEF vars
<1>2. Past' = Past
    BY <1>1 DEF Past
<1>3. Shown(Len(result))' = Shown(Len(result))
    BY <1>1 DEF Shown, ShownOf, Prompt, Reply, AssistantRole
<1>4. MergesWell(Past)' = MergesWell(Past) /\ Texts(Past)' = Texts(Past)
    BY <1>2
<1>5. Prompt(turn)' = Prompt(turn) /\ Messages(history)' = Messages(history)
    BY <1>1 DEF Prompt, Messages
<1> QED
    BY <1>1, <1>2, <1>3, <1>4, <1>5 DEF HistoryInv, TypeOK, RolesAlternate

-----------------------------------------------------------------------------
(* Replies *)

\* A reply that the client was given is in the history before the prompt.
RepliesPast ==
    api # "gemini" =>
        \A t \in 1 .. Len(result) :
            result[t] = "answered" => \E i \in 1 .. Len(Past) : Past[i] = Reply(t)

\* One sequence begins with the other.
Extends(longer, s) ==
    /\ Len(s) <= Len(longer)
    /\ \A i \in 1 .. Len(s) : longer[i] = s[i]

\* The past is a history.
LEMMA PastType ==
    ASSUME HistoryInv
    PROVE  history \in Seq(Entry) /\ Past \in Seq(Entry) /\ Len(Past) \in Nat
<1>1. history \in Seq(Entry)
    BY DEF HistoryInv, TypeOK
<1>2. Past \in Seq(Entry)
    BY <1>1, Waiting DEF Past
<1> QED
    BY <1>1, <1>2, LenProperties

\* PastType in the next state.
LEMMA PastTyped == (HistoryInv => Len(Past) \in Nat)'
<1>1. HistoryInv => Len(Past) \in Nat
    BY PastType
<1> QED
    BY <1>1, PTL

\* What is past is only ever added to, but by a 429 of Gemini's.
LEMMA PastGrows ==
    ASSUME HistoryInv, StartTurn \/ Post \/ Failed \/ RateLimited, api # "gemini"
    PROVE  Extends(Past', Past) /\ Len(Past) \in Nat
<1>1. /\ history \in Seq(Entry) /\ Past \in Seq(Entry) /\ Len(Past) \in Nat
    BY PastType
<1>2. CASE StartTurn
    BY <1>1, <1>2 DEF StartTurn, Past, Extends
<1>3. CASE Post
    <2>1. Past = history /\ Past' = Front(history')
        BY <1>3 DEF Post, Past
    <2>2. history' = Append(history, Prompt(turn)) /\ Prompt(turn) \in Entry
        BY <1>3, PostTyped, TurnEntries DEF HistoryInv
    <2>3. Past' = Past
        BY <1>1, <2>1, <2>2, FrontOfAppend
    <2> QED
        BY <1>1, <2>3 DEF Extends
<1>4. CASE Failed
    <2>1. Past' = history /\ pc = "waiting"
        BY <1>4 DEF Failed, EndTurn, Past
    <2>2. history = Append(Past, Prompt(turn)) /\ Prompt(turn) \in Entry
        BY <2>1, Waiting, TurnEntries
    <2>3. /\ Len(history) = Len(Past) + 1
          /\ \A i \in 1 .. Len(Past) : history[i] = Past[i]
        BY <1>1, <2>2, AppendProperties
    <2> QED
        BY <1>1, <2>1, <2>3 DEF Extends
<1>5. CASE RateLimited
    <2>1. pc = "waiting" /\ pc' # "waiting" /\ history' = WithoutFailed(history)
        BY <1>5 DEF RateLimited, EndTurn
    <2>2. Front(history) = Past /\ Last(history).role = "user" /\ history # <<>>
        BY <2>1, Waiting DEF HistoryInv
    <2>3. Past' = Past
        BY <2>1, <2>2 DEF WithoutFailed, Past
    <2> QED
        BY <1>1, <2>3 DEF Extends
<1> QED
    BY <1>2, <1>3, <1>4, <1>5

\* So replies stay, and a new one joins them.
LEMMA RepliesStay ==
    ASSUME HistoryInv, RepliesPast,
           StartTurn \/ Post \/ Answered \/ Failed \/ RateLimited
    PROVE  RepliesPast'
<1> SUFFICES ASSUME api' # "gemini", NEW t \in 1 .. Len(result'), result'[t] = "answered"
             PROVE  \E i \in 1 .. Len(Past') : Past'[i] = Reply(t)'
    BY DEF RepliesPast
<1>1. api' = api /\ Reply(t)' = Reply(t)
    BY DEF StartTurn, Post, Answered, Failed, RateLimited, EndTurn, Reply, AssistantRole
<1>2. TypeOK /\ Len(result) \in Nat
    BY LenProperties DEF HistoryInv, TypeOK
<1>3. CASE Answered
    <2>1. /\ turn \in 1 .. Turns
          /\ Len(result) = turn - 1 /\ Len(result') = Len(result) + 1
          /\ \A n \in 1 .. Len(result) : result'[n] = result[n]
          /\ Past' = Append(history, Reply(turn)) /\ pc = "waiting"
        <3>1. Past' = Append(history, Reply(turn)) /\ pc = "waiting"
            BY <1>3 DEF Answered, EndTurn, Past
        <3> QED
            BY <1>2, <1>3, <3>1, AnsweredTyped
    <2>2. /\ Past \in Seq(Entry) /\ history = Append(Past, Prompt(turn))
          /\ Prompt(turn) \in Entry /\ Reply(turn) \in Entry
        BY <2>1, Waiting, TurnEntries
    <2>3. /\ Len(Past) \in Nat /\ history \in Seq(Entry) /\ Len(history) = Len(Past) + 1
          /\ \A i \in 1 .. Len(Past) : history[i] = Past[i]
        BY <2>2, AppendProperties, LenProperties
    <2>4. /\ Len(Past') = Len(history) + 1 /\ Past'[Len(history) + 1] = Reply(turn)
          /\ \A i \in 1 .. Len(history) : Past'[i] = history[i]
        BY <2>1, <2>2, <2>3, AppendProperties
    <2>5. CASE t = turn
        BY <1>1, <2>3, <2>4, <2>5
    <2>6. CASE t # turn
        <3>1. t \in 1 .. Len(result) /\ result[t] = "answered"
            BY <1>2, <2>1, <2>6
        <3>2. PICK i \in 1 .. Len(Past) : Past[i] = Reply(t)
            BY <1>1, <3>1 DEF RepliesPast
        <3>3. i \in 1 .. Len(Past') /\ i \in 1 .. Len(history)
            BY <2>3, <2>4
        <3> QED
            BY <1>1, <2>3, <2>4, <3>2, <3>3
    <2> QED
        BY <2>5, <2>6
<1>4. CASE StartTurn \/ Post \/ Failed \/ RateLimited
    <2>1. Extends(Past', Past) /\ Len(Past) \in Nat
        BY <1>1, <1>4, PastGrows
    <2>2. t \in 1 .. Len(result) /\ result[t] = "answered"
        <3>1. CASE result' = result
            BY <3>1
        <3>2. CASE Failed
            BY <1>2, <3>2, FailedTyped
        <3>3. CASE RateLimited /\ ~AttemptsLeft
            BY <1>2, <3>3, RateLimitedTyped
        <3> QED
            BY <1>4, <3>1, <3>2, <3>3 DEF StartTurn, Post, RateLimited
    <2>3. PICK i \in 1 .. Len(Past) : Past[i] = Reply(t)
        BY <1>1, <2>2 DEF RepliesPast
    <2>4. Past'[i] = Reply(t)
        BY <2>1, <2>3 DEF Extends
    <2>5. i \in 1 .. Len(Past')
        <3>1. Len(Past') \in Int
            <4>1. HistoryInv'
                BY <1>4, StartTurnKeeps, PostKeeps, FailedKeeps, RateLimitedKeeps
            <4>2. (HistoryInv => Len(Past) \in Nat)'
                BY PastTyped
            <4> QED
                BY <4>1, <4>2
        <3> QED
            BY <2>1, <3>1 DEF Extends
    <2> QED
        BY <1>1, <2>4, <2>5
<1> QED
    BY <1>3, <1>4

\* The past is the beginning of the history.
LEMMA RepliesThere ==
    ASSUME HistoryInv, RepliesPast, api # "gemini"
    PROVE  RepliesKept
<1> SUFFICES ASSUME NEW t \in 1 .. Len(result), result[t] = "answered"
             PROVE  \E i \in 1 .. Len(history) : history[i] = Reply(t)
    BY DEF RepliesKept, Contains
<1>1. PICK i \in 1 .. Len(Past) : Past[i] = Reply(t)
    BY DEF RepliesPast
<1>2. Extends(history, Past) /\ Len(Past) \in Nat /\ Len(history) \in Nat
    <2>1. Len(Past) \in Nat /\ Past \in Seq(Entry) /\ Len(history) \in Nat
        BY PastType, LenProperties
    <2>2. CASE pc = "waiting"
        <3>1. history = Append(Past, Prompt(turn)) /\ Prompt(turn) \in Entry
            BY <2>2, Waiting, TurnEntries
        <3> QED
            BY <2>1, <3>1, AppendProperties DEF Extends
    <2>3. CASE pc # "waiting"
        BY <2>1, <2>3 DEF Past, Extends
    <2> QED
        BY <2>1, <2>2, <2>3
<1> QED
    BY <1>1, <1>2 DEF Extends

\* A new client was given none.
LEMMA RepliesStart ==
    ASSUME Init
    PROVE  RepliesPast
<1> QED
    BY DEF Init, RepliesPast

\* Nor was the client of a new run.
LEMMA RepliesReset ==
    ASSUME Init'
    PROVE  RepliesPast'
<1> QED
    BY RepliesStart, PTL

-----------------------------------------------------------------------------
(* Selecting rows *)

\* The elements of s that are in S, in their order.
OnlyIn(s, S) ==
    FlattenSeq([i \in DOMAIN s |-> IF s[i] \in S THEN <<s[i]>> ELSE <<>>])

\* Selecting goes on from left to right.
LEMMA OnlyAppend ==
    ASSUME NEW E, NEW s \in Seq(E), NEW x \in E, NEW S
    PROVE  /\ OnlyIn(s, S) \in Seq(E)
           /\ x \in S => OnlyIn(Append(s, x), S) = Append(OnlyIn(s, S), x)
           /\ x \notin S => OnlyIn(Append(s, x), S) = OnlyIn(s, S)
<1> DEFINE g  == Append(s, x)
           ts == [i \in DOMAIN s |-> IF s[i] \in S THEN <<s[i]>> ELSE <<>>]
           tg == [i \in DOMAIN g |-> IF g[i] \in S THEN <<g[i]>> ELSE <<>>]
           e  == IF x \in S THEN <<x>> ELSE <<>>
<1>1. /\ Len(s) \in Nat /\ DOMAIN s = 1 .. Len(s)
      /\ g \in Seq(E) /\ Len(g) = Len(s) + 1 /\ DOMAIN g = 1 .. Len(s) + 1
      /\ \A i \in 1 .. Len(s) : g[i] = s[i]
      /\ g[Len(s) + 1] = x
    BY LenProperties, AppendProperties
<1>2. /\ \A i \in 1 .. Len(s) : s[i] \in E
      /\ \A i \in 1 .. Len(s) + 1 : g[i] \in E
    BY <1>1, ElementOfSeq
<1> HIDE DEF g
<1>3. ts \in Seq(Seq(E)) /\ Len(ts) = Len(s)
    <2>1. ts \in [1 .. Len(s) -> Seq(E)]
        BY <1>1, <1>2
    <2>2. ts \in Seq(Seq(E))
        BY <1>1, <2>1, SeqDef
    <2> QED
        BY <1>1, <2>1, <2>2, LenProperties
<1>4. tg \in Seq(Seq(E)) /\ Len(tg) = Len(s) + 1
    <2>1. tg \in [1 .. Len(s) + 1 -> Seq(E)]
        BY <1>1, <1>2
    <2>2. tg \in Seq(Seq(E))
        BY <1>1, <2>1, SeqDef
    <2> QED
        BY <1>1, <2>1, <2>2, LenProperties
<1>5. (\A i \in 1 .. Len(ts) : tg[i] = ts[i]) /\ tg[Len(tg)] = e
    BY <1>1, <1>3, <1>4
<1>6. OnlyIn(s, S) = FlattenSeq(ts) /\ OnlyIn(g, S) = FlattenSeq(tg)
    BY DEF OnlyIn
<1>7. e \in Seq(E)
    OBVIOUS
<1> HIDE DEF ts, tg, e
<1>8. FlattenSeq(ts) \in Seq(E)
    BY <1>3, <1>7, FlattenAppend
<1>9. FlattenSeq(tg) = FlattenSeq(ts) \o e
    <2>1. Len(tg) = Len(ts) + 1
        BY <1>3, <1>4
    <2> QED
        BY <1>3, <1>4, <1>5, <1>7, <2>1, FlattenMap
<1>10. FlattenSeq(ts) \o <<>> = FlattenSeq(ts)
       /\ FlattenSeq(ts) \o <<x>> = Append(FlattenSeq(ts), x)
    BY <1>8, ConcatEmptySeq, AppendIsConcat
<1> QED
    BY <1>6, <1>8, <1>9, <1>10 DEF e, g

\* The same in one equation.
LEMMA OnlyAppendIf ==
    ASSUME NEW E, NEW s \in Seq(E), NEW x \in E, NEW S
    PROVE  OnlyIn(Append(s, x), S) =
               IF x \in S THEN Append(OnlyIn(s, S), x) ELSE OnlyIn(s, S)
<1> DEFINE a == OnlyIn(Append(s, x), S)
           b == Append(OnlyIn(s, S), x)
<1>1. /\ x \in S => a = b
      /\ x \notin S => a = OnlyIn(s, S)
    BY OnlyAppend
<1> HIDE DEF a, b
<1>2. a = IF x \in S THEN b ELSE OnlyIn(s, S)
    BY <1>1
<1> QED
    BY <1>2 DEF a, b

\* Of nothing, nothing is selected.
LEMMA OnlyEmpty == ASSUME NEW S PROVE OnlyIn(<<>>, S) = <<>>
<1>1. [i \in DOMAIN <<>> |-> IF <<>>[i] \in S THEN <<<<>>[i]>> ELSE <<>>] = <<>>
    OBVIOUS
<1>2. FlattenSeq(<<>>) = <<>>
    BY DEF FlattenSeq
<1> QED
    BY <1>1, <1>2 DEF OnlyIn

\* Selected elements are elements.
LEMMA OnlyType ==
    ASSUME NEW E, NEW s \in Seq(E), NEW S
    PROVE  OnlyIn(s, S) \in Seq(E)
<1>1. CASE s = <<>>
    BY <1>1, OnlyEmpty, EmptySeq
<1>2. CASE s # <<>>
    BY <1>2, FrontLast, OnlyAppend
<1> QED
    BY <1>1, <1>2

\* What holds of the empty sequence and of any sequence with one more element
\* holds of all: C is the set of the sequences it holds of.
LEMMA SequencesInduct ==
    ASSUME NEW E, NEW C \in SUBSET Seq(E), <<>> \in C,
           \A s \in C, x \in E : Append(s, x) \in C
    PROVE  C = Seq(E)
<1> DEFINE S == {n \in Nat : \A s \in Seq(E) : Len(s) = n => s \in C}
<1>1. 0 \in S
    BY EmptySeq
<1>2. ASSUME NEW n \in S
      PROVE  n + 1 \in S
    <2> SUFFICES ASSUME NEW s \in Seq(E), Len(s) = n + 1
                 PROVE  s \in C
        OBVIOUS
    <2>1. n \in Nat
        OBVIOUS
    <2>2. s # <<>>
        BY <2>1, EmptySeq
    <2>a. /\ Front(s) \in Seq(E) /\ Last(s) \in E
          /\ s = Append(Front(s), Last(s)) /\ Len(s) = Len(Front(s)) + 1
        BY <2>2, FrontLast
    <2>b. Len(Front(s)) \in Nat
        BY <2>a, LenProperties
    <2>3. Len(Front(s)) = n
        <3> DEFINE l == Len(Front(s))
        <3>1. l \in Nat /\ l + 1 = n + 1
            BY <2>a, <2>b
        <3> HIDE DEF l
        <3>2. l = n
            BY <2>1, <3>1
        <3> QED
            BY <3>2 DEF l
    <2>4. Front(s) \in C
        BY <2>a, <2>3
    <2> QED
        BY <2>a, <2>4
<1>3. S = Nat
    BY <1>1, <1>2, Induct
<1> QED
    BY <1>3, LenProperties

\* Appending to the second of two sequences.
LEMMA ConcatAppend ==
    ASSUME NEW E, NEW s \in Seq(E), NEW t \in Seq(E), NEW x \in E
    PROVE  s \o Append(t, x) = Append(s \o t, x)
<1> DEFINE e == <<x>>
<1>1. e \in Seq(E)
    OBVIOUS
<1>2. s \o t \in Seq(E)
    BY ConcatProperties
<1>3. Append(t, x) = t \o e /\ Append(s \o t, x) = (s \o t) \o e
    BY <1>2, AppendIsConcat
<1> HIDE DEF e
<1>4. s \o (t \o e) = (s \o t) \o e
    BY <1>1, ConcatAssociative
<1> QED
    BY <1>3, <1>4

\* Selecting from two sequences.
LEMMA OnlyConcat ==
    ASSUME NEW E, NEW s \in Seq(E), NEW t \in Seq(E), NEW S
    PROVE  OnlyIn(s \o t, S) = OnlyIn(s, S) \o OnlyIn(t, S)
<1> DEFINE C == {u \in Seq(E) : OnlyIn(s \o u, S) = OnlyIn(s, S) \o OnlyIn(u, S)}
<1>1. <<>> \in C
    BY OnlyEmpty, OnlyType, ConcatEmptySeq, EmptySeq
<1>2. ASSUME NEW u \in C, NEW x \in E
      PROVE  Append(u, x) \in C
    <2> DEFINE a == OnlyIn(s, S)
               b == OnlyIn(u, S)
    <2>1. /\ a \in Seq(E) /\ b \in Seq(E) /\ u \in Seq(E) /\ s \o u \in Seq(E)
          /\ Append(u, x) \in Seq(E)
        BY OnlyType, ConcatProperties, AppendProperties
    <2>2. s \o Append(u, x) = Append(s \o u, x)
        BY <2>1, ConcatAppend
    <2>a. OnlyIn(Append(s \o u, x), S) =
              IF x \in S THEN Append(OnlyIn(s \o u, S), x) ELSE OnlyIn(s \o u, S)
        <3> DEFINE v == s \o u
        <3>1. v \in Seq(E)
            BY <2>1
        <3> HIDE DEF v
        <3>2. OnlyIn(Append(v, x), S) =
                  IF x \in S THEN Append(OnlyIn(v, S), x) ELSE OnlyIn(v, S)
            BY <3>1, OnlyAppendIf
        <3> QED
            BY <3>2 DEF v
    <2>b. OnlyIn(s \o u, S) = a \o b
        OBVIOUS
    <2>c. OnlyIn(Append(u, x), S) = IF x \in S THEN Append(b, x) ELSE b
        BY <2>1, OnlyAppendIf
    <2>3. /\ OnlyIn(Append(s \o u, x), S) =
                IF x \in S THEN Append(a \o b, x) ELSE a \o b
          /\ OnlyIn(Append(u, x), S) = IF x \in S THEN Append(b, x) ELSE b
        BY <2>a, <2>b, <2>c
    <2> HIDE DEF a, b
    <2>4. a \o Append(b, x) = Append(a \o b, x)
        BY <2>1, ConcatAppend
    <2> QED
        BY <2>1, <2>2, <2>3, <2>4 DEF a, b
<1>3. C = Seq(E)
    BY <1>1, <1>2, SequencesInduct
<1> QED
    BY <1>3

\* Selecting twice is selecting what passes both times.
LEMMA OnlyTwice ==
    ASSUME NEW E, NEW s \in Seq(E), NEW S, NEW T
    PROVE  OnlyIn(OnlyIn(s, S), T) = OnlyIn(s, S \cap T)
<1> DEFINE C == {u \in Seq(E) : OnlyIn(OnlyIn(u, S), T) = OnlyIn(u, S \cap T)}
<1>1. <<>> \in C
    BY OnlyEmpty, EmptySeq
<1>2. ASSUME NEW u \in C, NEW x \in E
      PROVE  Append(u, x) \in C
    <2>1. Append(u, x) \in Seq(E) /\ u \in Seq(E) /\ OnlyIn(u, S) \in Seq(E)
        BY OnlyType, AppendProperties
    <2> DEFINE a == OnlyIn(u, S)
    <2>2. OnlyIn(Append(u, x), S) = IF x \in S THEN Append(a, x) ELSE a
        BY <2>1, OnlyAppendIf
    <2>3. OnlyIn(Append(u, x), S \cap T) =
              IF x \in S \cap T THEN Append(OnlyIn(a, T), x) ELSE OnlyIn(a, T)
        <3>1. OnlyIn(a, T) = OnlyIn(u, S \cap T)
            OBVIOUS
        <3> QED
            BY <2>1, <3>1, OnlyAppendIf
    <2> HIDE DEF a
    <2>4. OnlyIn(Append(a, x), T) =
              IF x \in T THEN Append(OnlyIn(a, T), x) ELSE OnlyIn(a, T)
        BY <2>1, OnlyAppendIf DEF a
    <2>5. OnlyIn(OnlyIn(Append(u, x), S), T) = OnlyIn(Append(u, x), S \cap T)
        <3>1. CASE x \in S
            <4>1. OnlyIn(Append(u, x), S) = Append(a, x)
                BY <2>2, <3>1
            <4> QED
                BY <2>3, <2>4, <3>1, <4>1
        <3>2. CASE x \notin S
            <4>1. OnlyIn(Append(u, x), S) = a
                BY <2>2, <3>2
            <4> QED
                BY <2>3, <3>2, <4>1
        <3> QED
            BY <3>1, <3>2
    <2> QED
        BY <2>1, <2>5
<1>3. C = Seq(E)
    BY <1>1, <1>2, SequencesInduct
<1> QED
    BY <1>3

\* Everything selected, and nothing.
LEMMA OnlyAll ==
    ASSUME NEW E, NEW s \in Seq(E), NEW S
    PROVE  /\ (\A i \in 1 .. Len(s) : s[i] \in S) => OnlyIn(s, S) = s
           /\ (\A i \in 1 .. Len(s) : s[i] \notin S) => OnlyIn(s, S) = <<>>
<1> DEFINE P(u) == /\ (\A i \in 1 .. Len(u) : u[i] \in S) => OnlyIn(u, S) = u
                   /\ (\A i \in 1 .. Len(u) : u[i] \notin S) => OnlyIn(u, S) = <<>>
           C == {u \in Seq(E) : P(u)}
<1>1. <<>> \in C
    BY OnlyEmpty, EmptySeq
<1>2. ASSUME NEW u \in C, NEW x \in E
      PROVE  Append(u, x) \in C
    <2>1. /\ u \in Seq(E) /\ Append(u, x) \in Seq(E) /\ Len(u) \in Nat
          /\ Len(Append(u, x)) = Len(u) + 1
          /\ \A i \in 1 .. Len(u) : Append(u, x)[i] = u[i]
          /\ Append(u, x)[Len(u) + 1] = x
        BY AppendProperties, LenProperties
    <2> DEFINE g == Append(u, x)
    <2>2. OnlyIn(g, S) = IF x \in S THEN Append(OnlyIn(u, S), x) ELSE OnlyIn(u, S)
        BY <2>1, OnlyAppendIf
    <2> HIDE DEF g
    <2>3. P(u)
        OBVIOUS
    <2>4. (\A i \in 1 .. Len(g) : g[i] \in S) => OnlyIn(g, S) = g
        BY <2>1, <2>2, <2>3 DEF g
    <2>5. (\A i \in 1 .. Len(g) : g[i] \notin S) => OnlyIn(g, S) = <<>>
        BY <2>1, <2>2, <2>3 DEF g
    <2> QED
        BY <2>1, <2>4, <2>5 DEF g
<1>3. C = Seq(E)
    BY <1>1, <1>2, SequencesInduct
<1> QED
    BY <1>3

-----------------------------------------------------------------------------
(* The file *)

\* The rows that a file may hold, however it was left, and those of a label
\* and of the other labels.
Rows ==
    [label : Api \cup {"cut"}, run : Nat, turn : Nat, ok : BOOLEAN, torn : BOOLEAN]

\* The readable rows of a label.
Of(label) == {row \in Rows : row.label = label /\ ~row.torn}
Others    == {row \in Rows : row.label # api}

\* RowsOf of the model selects these.
LEMMA RowsOfIs ==
    ASSUME NEW rows \in Seq(Rows), NEW label
    PROVE  RowsOf(rows, label) = OnlyIn(rows, Of(label))
<1>1. \A i \in DOMAIN rows : rows[i] \in Rows
    BY LenProperties, ElementOfSeq
<1>2. \A i \in DOMAIN rows :
          (rows[i].label = label /\ ~rows[i].torn) <=> rows[i] \in Of(label)
    BY <1>1 DEF Of
<1>3. [i \in DOMAIN rows |-> IF rows[i].label = label /\ ~rows[i].torn
                              THEN <<rows[i]>> ELSE <<>>]
        = [i \in DOMAIN rows |-> IF rows[i] \in Of(label) THEN <<rows[i]>> ELSE <<>>]
    BY <1>2
<1> QED
    BY <1>3 DEF RowsOf, Selected, OnlyIn

\* The rows Merge keeps are those of the other labels.
LEMMA KeptIs ==
    ASSUME NEW rows \in Seq(Rows)
    PROVE  Selected(rows, Kept) = OnlyIn(rows, Others)
<1>1. \A i \in DOMAIN rows : rows[i] \in Rows
    BY LenProperties, ElementOfSeq
<1>2. \A i \in DOMAIN rows : Kept(rows[i]) <=> rows[i] \in Others
    BY <1>1 DEF Kept, Others
<1>3. [i \in DOMAIN rows |-> IF Kept(rows[i]) THEN <<rows[i]>> ELSE <<>>]
        = [i \in DOMAIN rows |-> IF rows[i] \in Others THEN <<rows[i]>> ELSE <<>>]
    BY <1>2
<1> QED
    BY <1>3 DEF Selected, OnlyIn

\* What is written is read back as it was.
LEMMA ReadBackIs ==
    ASSUME NEW rows \in Seq(Rows)
    PROVE  [i \in DOMAIN rows |-> ReadBack(rows[i])] = rows
<1>1. /\ DOMAIN rows = 1 .. Len(rows) /\ Len(rows) \in Nat
      /\ rows \in [1 .. Len(rows) -> Rows]
    BY LenProperties
<1>2. ASSUME NEW row \in Rows
      PROVE  ReadBack(row) = row
    BY DEF ReadBack, Rows
<1> QED
    BY <1>1, <1>2

\* The results of a run are rows of its label, from its first turn on.
LEMMA ResultsType ==
    ASSUME TypeOK, run \in Nat
    PROVE  /\ AllResults \in Seq(Rows) /\ Len(AllResults) = Len(result)
           /\ \A t \in 1 .. Len(AllResults) :
                 /\ AllResults[t] \in Of(api) /\ AllResults[t] \notin Others
                 /\ \A label \in Api \ {api} : AllResults[t] \notin Of(label)
                 /\ AllResults[t].turn = t /\ AllResults[t].run = run
<1>1. DOMAIN result = 1 .. Len(result) /\ Len(result) \in Nat /\ api \in Api
    BY LenProperties DEF TypeOK
<1>2. \A t \in 1 .. Len(result) :
          /\ Row(api, run, t, result[t] = "answered") \in Rows
          /\ Row(api, run, t, result[t] = "answered").label = api
          /\ ~Row(api, run, t, result[t] = "answered").torn
          /\ Row(api, run, t, result[t] = "answered").turn = t
          /\ Row(api, run, t, result[t] = "answered").run = run
    BY <1>1 DEF Row, Rows
<1>3. AllResults \in [1 .. Len(result) -> Rows]
    BY <1>1, <1>2 DEF AllResults
<1>4. AllResults \in Seq(Rows)
    BY <1>1, <1>3, SeqDef
<1>5. Len(AllResults) = Len(result)
    BY <1>1, <1>3, <1>4, LenProperties
<1>6. \A t \in 1 .. Len(result) : AllResults[t] = Row(api, run, t, result[t] = "answered")
    BY <1>1 DEF AllResults
<1> QED
    BY <1>2, <1>4, <1>5, <1>6 DEF Of, Others

\* A sequence of rows in which the rows of a label are those of one run.
Unmixed(rows) ==
    \A i \in 1 .. Len(rows) : rows[i].turn = i /\ rows[i].run = rows[1].run

\* No label mixes runs.
OneRun(rows) == \A label \in Api : Unmixed(OnlyIn(rows, Of(label)))

\* The property, in these terms.
LEMMA OneRunIs ==
    ASSUME csv \in Seq(Rows)
    PROVE  OneRunPerLabel <=> OneRun(csv)
<1>1. ASSUME NEW label \in Api
      PROVE  /\ RowsOf(csv, label) = OnlyIn(csv, Of(label))
             /\ DOMAIN OnlyIn(csv, Of(label)) = 1 .. Len(OnlyIn(csv, Of(label)))
    BY RowsOfIs, OnlyType, LenProperties
<1> QED
    BY <1>1 DEF OneRunPerLabel, OneRun, Unmixed

\* The part of a file that was written, when the file would not have mixed two
\* runs, does not either: what a kill has left of it,
LEMMA PrefixUnmixed ==
    ASSUME NEW rows \in Seq(Rows), NEW n \in 0 .. Len(rows), OneRun(rows)
    PROVE  OneRun(SubSeq(rows, 1, n))
<1>0. Len(rows) \in Nat /\ \A i \in 1 .. Len(rows) : rows[i] \in Rows
    BY LenProperties, ElementOfSeq
<1> SUFFICES ASSUME NEW label \in Api
             PROVE  Unmixed(OnlyIn(SubSeq(rows, 1, n), Of(label)))
    BY DEF OneRun
<1> DEFINE p == SubSeq(rows, 1, n)
           q == SubSeq(rows, n + 1, Len(rows))
           a == OnlyIn(p, Of(label))
           b == OnlyIn(q, Of(label))
<1>1. p \in Seq(Rows) /\ q \in Seq(Rows)
    BY <1>0, SubSeqProperties
<1>2. rows = p \o q
    <2>1. /\ 1 \in 1 .. Len(rows) + 1 /\ n \in 1 - 1 .. Len(rows)
          /\ Len(rows) \in n .. Len(rows)
        BY <1>0
    <2> DEFINE l == Len(rows)
    <2> HIDE DEF l
    <2>2. l \in n .. Len(rows)
        BY <2>1 DEF l
    <2>3. SubSeq(rows, 1, n) \o SubSeq(rows, n + 1, l) = SubSeq(rows, 1, l)
        BY <2>1, <2>2, ConcatAdjacentSubSeq
    <2> QED
        BY <2>3, SubSeqFull DEF l
<1>3. a \in Seq(Rows) /\ b \in Seq(Rows)
    BY <1>1, OnlyType
<1>4. OnlyIn(rows, Of(label)) = a \o b
    <2> HIDE DEF p, q
    <2>1. OnlyIn(p \o q, Of(label)) = OnlyIn(p, Of(label)) \o OnlyIn(q, Of(label))
        BY <1>1, OnlyConcat
    <2> QED
        BY <1>2, <2>1
<1> HIDE DEF p, q, a, b
<1>5. /\ Len(a) \in Nat /\ Len(b) \in Nat /\ Len(a \o b) = Len(a) + Len(b)
      /\ \A i \in 1 .. Len(a) : (a \o b)[i] = a[i]
    BY <1>3, ConcatProperties, LenProperties
<1>6. Unmixed(a \o b)
    BY <1>4 DEF OneRun
<1>7. Unmixed(a)
    BY <1>5, <1>6 DEF Unmixed
<1> QED
    BY <1>7 DEF a, p

\* and a row of it that is cut off.
LEMMA CutUnmixed ==
    ASSUME NEW rows \in Seq(Rows), NEW n \in 0 .. Len(rows) - 1, OneRun(rows),
           NEW row \in Cut(rows[n + 1])
    PROVE  /\ Append(SubSeq(rows, 1, n), row) \in Seq(Rows)
           /\ OneRun(Append(SubSeq(rows, 1, n), row))
<1>0. /\ Len(rows) \in Nat /\ rows[n + 1] \in Rows /\ n \in 0 .. Len(rows)
      /\ n \in Nat /\ n + 1 \in 0 .. Len(rows)
      /\ \A i \in 1 .. Len(rows) : rows[i] \in Rows
    BY LenProperties, ElementOfSeq
<1> DEFINE x == rows[n + 1]
           p == SubSeq(rows, 1, n)
<1>1. p \in Seq(Rows) /\ OneRun(p)
    BY <1>0, SubSeqProperties, PrefixUnmixed
<1>2. SubSeq(rows, 1, n + 1) = Append(p, x) /\ OneRun(SubSeq(rows, 1, n + 1))
    <2>1. SubSeq(rows, 1, n + 1) = Append(p, x)
        BY <1>0, SubSeqRecursiveSecond
    <2> QED
        BY <1>0, <2>1, PrefixUnmixed
<1>3. /\ row \in Rows
      /\ row.torn \/ (row.torn = x.torn /\ row.label = x.label)
      /\ row.turn = x.turn /\ row.run = x.run
    BY <1>0 DEF Cut, Rows
<1> HIDE DEF p, x
<1>4. x \in Rows
    BY <1>0 DEF x
<1>5. ASSUME NEW label \in Api
      PROVE  Unmixed(OnlyIn(Append(p, row), Of(label)))
    <2> DEFINE a == OnlyIn(p, Of(label))
    <2>1. /\ a \in Seq(Rows) /\ Unmixed(a)
          /\ Unmixed(OnlyIn(Append(p, x), Of(label)))
        BY <1>1, <1>2, OnlyType DEF OneRun
    <2>2. CASE row \notin Of(label)
        <3>1. OnlyIn(Append(p, row), Of(label)) = a
            BY <1>1, <1>3, <2>2, OnlyAppend
        <3> QED
            BY <2>1, <3>1
    <2>3. CASE row \in Of(label)
        <3>1. x \in Of(label)
            BY <1>3, <1>4, <2>3 DEF Of
        <3>a. OnlyIn(Append(p, row), Of(label)) = Append(a, row)
            BY <1>1, <1>3, <2>3, OnlyAppend
        <3>b. OnlyIn(Append(p, x), Of(label)) = Append(a, x)
            BY <1>1, <1>4, <3>1, OnlyAppend
        <3>2. /\ OnlyIn(Append(p, row), Of(label)) = Append(a, row)
              /\ OnlyIn(Append(p, x), Of(label)) = Append(a, x)
            BY <3>a, <3>b
        <3> HIDE DEF a
        <3>3. /\ Len(a) \in Nat
              /\ Len(Append(a, x)) = Len(a) + 1 /\ Len(Append(a, row)) = Len(a) + 1
              /\ \A i \in 1 .. Len(a) : Append(a, x)[i] = a[i] /\ Append(a, row)[i] = a[i]
              /\ Append(a, x)[Len(a) + 1] = x /\ Append(a, row)[Len(a) + 1] = row
            BY <1>3, <1>4, <2>1, AppendProperties, LenProperties
        <3>4. \A i \in 1 .. Len(a) + 1 :
                  /\ Append(a, row)[i].turn = Append(a, x)[i].turn
                  /\ Append(a, row)[i].run = Append(a, x)[i].run
            BY <1>3, <3>3
        <3>5. Unmixed(Append(a, x))
            BY <2>1, <3>2
        <3>6. Unmixed(Append(a, row))
            BY <3>3, <3>4, <3>5 DEF Unmixed
        <3> QED
            BY <3>2, <3>6
    <2> QED
        BY <2>2, <2>3
<1>6. Append(p, row) \in Seq(Rows)
    BY <1>1, <1>3, AppendProperties
<1> QED
    BY <1>5, <1>6 DEF p, OneRun

-----------------------------------------------------------------------------
(* The runs *)

\* Between reading and saving, what is kept are the file's rows of other labels.
RowsInv ==
    /\ run \in Nat
    /\ phase \in {"off", "running", "saving", "killed"}
    /\ csv \in Seq(Rows)
    /\ phase = "saving" => existing = OnlyIn(csv, Others)
    /\ OneRun(csv)

\* The inductive invariant.
BenchInv == HistoryInv /\ RepliesPast /\ RowsInv

\* What a run saves: the rows of its own label are its results, those of the
\* others are the ones it found.
LEMMA Saved ==
    ASSUME BenchInv, phase = "saving"
    PROVE  /\ existing \o AllResults \in Seq(Rows)
           /\ \A label \in Api :
                 OnlyIn(existing \o AllResults, Of(label)) =
                     IF label = api THEN AllResults ELSE OnlyIn(csv, Of(label))
           /\ OneRun(existing \o AllResults)
<1> DEFINE new == AllResults
<1>1. /\ csv \in Seq(Rows) /\ existing = OnlyIn(csv, Others) /\ existing \in Seq(Rows)
      /\ TypeOK /\ run \in Nat /\ OneRun(csv)
    BY OnlyType DEF BenchInv, RowsInv, HistoryInv
<1>2. /\ new \in Seq(Rows)
      /\ \A t \in 1 .. Len(new) :
            /\ new[t] \in Of(api)
            /\ \A label \in Api \ {api} : new[t] \notin Of(label)
            /\ new[t].turn = t /\ new[t].run = run
    BY <1>1, ResultsType
<1> HIDE DEF new
<1>3. Unmixed(new)
    <2>1. Len(new) \in Nat
        BY <1>2, LenProperties
    <2> QED
        BY <1>2, <2>1 DEF Unmixed
<1>4. ASSUME NEW label \in Api
      PROVE  OnlyIn(existing \o new, Of(label)) =
                 IF label = api THEN new ELSE OnlyIn(csv, Of(label))
    <2> DEFINE a == OnlyIn(existing, Of(label))
               b == OnlyIn(new, Of(label))
    <2>a. OnlyIn(existing \o new, Of(label)) = a \o b
        <3>1. existing \in Seq(Rows) /\ new \in Seq(Rows)
            BY <1>1, <1>2
        <3> QED
            BY <3>1, OnlyConcat
    <2>b. a = OnlyIn(csv, Others \cap Of(label))
        <3>1. OnlyIn(OnlyIn(csv, Others), Of(label)) = OnlyIn(csv, Others \cap Of(label))
            BY <1>1, OnlyTwice
        <3> QED
            BY <1>1, <3>1
    <2>c. a \in Seq(Rows) /\ b \in Seq(Rows)
        BY <1>1, <1>2, OnlyType
    <2>1. /\ OnlyIn(existing \o new, Of(label)) = a \o b
          /\ a = OnlyIn(csv, Others \cap Of(label))
          /\ a \in Seq(Rows) /\ b \in Seq(Rows)
        BY <2>a, <2>b, <2>c
    <2>2. CASE label = api
        <3>1. Others \cap Of(label) = {}
            BY <2>2 DEF Others, Of
        <3>2. OnlyIn(csv, {}) = <<>>
            BY <1>1, OnlyAll
        <3>3. b = new
            BY <1>2, <2>2, OnlyAll
        <3>4. <<>> \o new = new
            BY <1>2, ConcatEmptySeq
        <3> QED
            BY <2>1, <2>2, <3>1, <3>2, <3>3, <3>4
    <2>3. CASE label # api
        <3>1. Others \cap Of(label) = Of(label)
            BY <2>3 DEF Others, Of
        <3>2. b = <<>>
            BY <1>2, <2>3, OnlyAll
        <3>3. a \o <<>> = a
            BY <2>1, ConcatEmptySeq
        <3> QED
            BY <2>1, <2>3, <3>1, <3>2, <3>3
    <2> QED
        BY <2>2, <2>3
<1>5. OneRun(existing \o new)
    BY <1>1, <1>3, <1>4 DEF OneRun
<1>6. existing \o new \in Seq(Rows)
    BY <1>1, <1>2, ConcatProperties
<1> QED
    BY <1>4, <1>5, <1>6 DEF new

\* It holds at first,
LEMMA BenchStart ==
    ASSUME BenchInit
    PROVE  BenchInv
<1>1. HistoryInv /\ RepliesPast
    BY HistoryStart, RepliesStart DEF BenchInit
<1>2. <<>> \in Seq(Rows)
    BY EmptySeq
<1>3. OneRun(<<>>)
    BY OnlyEmpty DEF OneRun, Unmixed
<1> QED
    BY <1>1, <1>2, <1>3 DEF BenchInit, BenchInv, RowsInv

\* and after every step, kills included.
LEMMA BenchStep ==
    ASSUME BenchInv, [BenchNext]_benchVars
    PROVE  BenchInv'
<1> USE DEF BenchInv
<1>1. CASE StartRun
    <2>1. Init'
        BY <1>1 DEF StartRun, Init
    <2>2. HistoryInv' /\ RepliesPast'
        BY <2>1, HistoryReset, RepliesReset
    <2>3. RowsInv'
        <3>1. OneRun(csv)' = OneRun(csv)
            BY <1>1 DEF StartRun, OneRun, Unmixed, OnlyIn, Of, Rows
        <3> QED
            BY <1>1, <3>1 DEF StartRun, RowsInv, Rows
    <2> QED
        BY <2>2, <2>3
<1>2. CASE Drive
    <2>1. HistoryInv' /\ RepliesPast'
        BY <1>2, StartTurnKeeps, PostKeeps, AnsweredKeeps, FailedKeeps,
           RateLimitedKeeps, RepliesStay DEF Drive
    <2>2. RowsInv'
        BY <1>2 DEF Drive, RowsInv
    <2> QED
        BY <2>1, <2>2
<1>3. ASSUME UNCHANGED vars
      PROVE  HistoryInv' /\ RepliesPast'
    <2>1. RepliesPast'
        BY <1>3 DEF vars, RepliesPast, Past, Reply, AssistantRole
    <2> QED
        BY <1>3, <2>1, HistoryUnchanged
<1>4. CASE Merge
    <2>1. /\ api' = api /\ csv' = csv /\ run' = run /\ phase' = "saving"
          /\ UNCHANGED vars
        BY <1>4 DEF Merge, vars
    <2>2. existing' = OnlyIn(csv, Others)
        <3> DEFINE others == Selected(csv, Kept)
        <3>1. existing' = [i \in DOMAIN others |-> ReadBack(others[i])]
            BY <1>4 DEF Merge
        <3>2. others = OnlyIn(csv, Others) /\ others \in Seq(Rows)
            BY KeptIs, OnlyType DEF RowsInv
        <3> HIDE DEF others
        <3> QED
            BY <3>1, <3>2, ReadBackIs
    <2>3. OnlyIn(csv, Others)' = OnlyIn(csv, Others)
        BY <2>1 DEF Others
    <2> QED
        BY <1>3, <2>1, <2>2, <2>3 DEF RowsInv
<1>5. CASE MergeRaises
    BY <1>3, <1>5 DEF MergeRaises, EndRun, RowsInv
<1>6. CASE Save
    <2>1. OneRun(csv') /\ csv' \in Seq(Rows)
        BY <1>6, Saved DEF Save
    <2> QED
        BY <1>3, <1>6, <2>1 DEF Save, EndRun, RowsInv
<1>7. CASE SaveKilled
    <2> DEFINE rows == existing \o AllResults
    <2>1. rows \in Seq(Rows) /\ OneRun(rows)
        BY <1>7, Saved DEF SaveKilled
    <2>2. PICK n \in 0 .. Len(rows) - 1 :
              \/ csv' = SubSeq(rows, 1, n)
              \/ \E row \in Cut(rows[n + 1]) :
                    csv' = Append(SubSeq(rows, 1, n), row)
        BY <1>7 DEF SaveKilled
    <2> HIDE DEF rows
    <2>3. CASE csv' = SubSeq(rows, 1, n)
        <3>1. n \in 0 .. Len(rows) /\ Len(rows) \in Nat
            BY <2>1, LenProperties
        <3>2. SubSeq(rows, 1, n) \in Seq(Rows)
            <4>1. \A i \in 1 .. n : rows[i] \in Rows
                BY <2>1, <3>1, ElementOfSeq
            <4> QED
                BY <3>1, <4>1, SubSeqProperties
        <3>3. OneRun(csv') /\ csv' \in Seq(Rows)
            BY <2>1, <2>3, <3>1, <3>2, PrefixUnmixed
        <3> QED
            BY <1>3, <1>7, <3>3 DEF SaveKilled, EndRun, RowsInv
    <2>4. CASE \E row \in Cut(rows[n + 1]) : csv' = Append(SubSeq(rows, 1, n), row)
        <3>1. OneRun(csv') /\ csv' \in Seq(Rows)
            BY <2>1, <2>4, CutUnmixed
        <3> QED
            BY <1>3, <1>7, <3>1 DEF SaveKilled, EndRun, RowsInv
    <2> QED
        BY <2>2, <2>3, <2>4
<1>8. CASE Killed
    BY <1>3, <1>8 DEF Killed, EndRun, RowsInv
<1>9. CASE Bury
    BY <1>3, <1>9 DEF Bury, EndRun, RowsInv
<1>10. CASE UNCHANGED benchVars
    <2>1. OnlyIn(csv, Others)' = OnlyIn(csv, Others)
        BY <1>10 DEF benchVars, vars, Others
    <2> QED
        BY <1>3, <1>10, <2>1 DEF benchVars, RowsInv
<1>11. CASE AllRun
    BY <1>10, <1>11 DEF AllRun
<1> QED
    BY <1>1, <1>2, <1>4, <1>5, <1>6, <1>7, <1>8, <1>9, <1>10, <1>11 DEF BenchNext

\* Nothing but a save touches the file, unless the run is killed.
LEMMA OthersKeptStep ==
    ASSUME BenchInv, BenchInv', [BenchNext]_benchVars, csv' # csv, phase' # "killed"
    PROVE  \A label \in Api :
               RowsOf(csv', label) =
                   IF label = api THEN AllResults ELSE RowsOf(csv, label)
<1>1. Save
    BY DEF BenchNext, benchVars, StartRun, Drive, Merge, MergeRaises, SaveKilled,
           Killed, Bury, AllRun, EndRun
<1>2. /\ phase = "saving" /\ csv' = existing \o AllResults
      /\ csv \in Seq(Rows) /\ csv' \in Seq(Rows)
    BY <1>1, Saved DEF Save, BenchInv, RowsInv
<1> TAKE label \in Api
<1>3. /\ RowsOf(csv', label) = OnlyIn(csv', Of(label))
      /\ RowsOf(csv, label) = OnlyIn(csv, Of(label))
    BY <1>2, RowsOfIs
<1> QED
    BY <1>2, <1>3, Saved

\* Every run: the types.
THEOREM BenchTypesOK == BenchSpec => []TypeOK
<1>1. BenchInv => TypeOK
    BY DEF BenchInv, HistoryInv
<1> QED
    BY <1>1, BenchStart, BenchStep, PTL DEF BenchSpec

\* Claude's messages alternate, whatever failed.
THEOREM RolesKeepAlternating == BenchSpec => []RolesAlternate
<1>1. BenchInv => RolesAlternate
    BY DEF BenchInv, HistoryInv
<1> QED
    BY <1>1, BenchStart, BenchStep, PTL DEF BenchSpec

\* The requests show the conversation, except those of GeminiClient.
THEOREM ConversationKept ==
    ASSUME "gemini" \notin Api
    PROVE  BenchSpec => []ConversationShown
<1>1. BenchInv => ConversationShown
    BY HistoryGivesShown DEF BenchInv
<1> QED
    BY <1>1, BenchStart, BenchStep, PTL DEF BenchSpec

\* No reply is lost from a history, except from one of GeminiClient's.
THEOREM RepliesAlwaysKept ==
    ASSUME "gemini" \notin Api
    PROVE  BenchSpec => []RepliesKept
<1>1. BenchInv => RepliesKept
    BY RepliesThere DEF BenchInv, HistoryInv, TypeOK
<1> QED
    BY <1>1, BenchStart, BenchStep, PTL DEF BenchSpec

\* The file never mixes two runs.
THEOREM RunsNeverMixed == BenchSpec => []OneRunPerLabel
<1>1. BenchInv => OneRunPerLabel
    BY OneRunIs DEF BenchInv, RowsInv
<1> QED
    BY <1>1, BenchStart, BenchStep, PTL DEF BenchSpec

\* A run that is not killed in its save leaves the rows of the others.
THEOREM OthersKeptAlways == BenchSpec => OthersKept
<1>1. BenchInv /\ BenchInv' /\ [BenchNext]_benchVars =>
          [phase' # "killed" =>
              \A label \in Api :
                  RowsOf(csv', label) =
                      IF label = api THEN AllResults ELSE RowsOf(csv, label)]_csv
    BY OthersKeptStep
<1> QED
    BY <1>1, BenchStart, BenchStep, PTL DEF BenchSpec, OthersKept
=============================================================================
