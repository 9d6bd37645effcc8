--------------------------- MODULE HttpChatProofs ---------------------------
(***************************************************************************)
(* The shared history of the HTTP baseline, for any number of clients and  *)
(* turns, whether or not the backend raises.                               *)
(*                                                                         *)
(* The inductive invariant HttpInv adds to the properties what the         *)
(* handlers and the clients know of each other: a handler exists for the   *)
(* turns a client has begun, a turn that was answered has a handler that   *)
(* replied, a request in the history has had the lock, and while a handler *)
(* holds it the history ends with its prompt.                              *)
(***************************************************************************)
EXTENDS HttpChat, SequenceTheorems, TLAPS

TurnsOK ==
    /\ \A r \in Request : handler[r] = "none" <=> r[2] > turn[r[1]]
    /\ \A c \in Client :
          Len(outcome[c]) = IF pc[c] = "idle" THEN turn[c] ELSE turn[c] - 1
    /\ \A c \in Client : \A t \in 1 .. Len(outcome[c]) :
          outcome[c][t] # Error => handler[<<c, t>>] = "replied"

Reply == [role : {"assistant"}, request : Request] \cup {Error}
Entry == [role : {"user", "assistant"}, request : Request]

Started == {"generating", "replied", "closed"}

HistoryOK ==
    /\ \A i \in 1 .. Len(history) : handler[history[i].request] \in Started
    /\ history # <<>> /\ history[Len(history)].role = "user" =>
          handler[history[Len(history)].request] # "replied"
    /\ \A r \in Request :
          handler[r] = "generating" =>
              history # <<>> /\ history[Len(history)] = PromptOf(r)

HttpInv ==
    TypeOK /\ TurnsOK /\ HistoryOK /\ PairsAdjacent /\ OutOfOrderMeansFailed

-----------------------------------------------------------------------------
(* What the invariant says, for the steps *)

\* The types a step needs.
LEMMA Types ==
    ASSUME TypeOK
    PROVE  /\ \A c \in Client : turn[c] \in 0 .. Turns /\ outcome[c] \in Seq(Reply)
           /\ history \in Seq(Entry)
           /\ Len(history) \in Nat
           /\ \A i \in 1 .. Len(history) :
                 history[i] \in Entry /\ history[i].request \in Request
<1>1. \A c \in Client : turn[c] \in 0 .. Turns
    BY DEF TypeOK
<1>2. \A c \in Client : outcome[c] \in Seq(Reply)
    BY DEF TypeOK, Reply
<1>3. history \in Seq(Entry)
    BY DEF TypeOK, Entry
<1>4. Len(history) \in Nat /\ \A i \in 1 .. Len(history) : history[i] \in Entry
    BY <1>3
<1> QED
    BY <1>1, <1>2, <1>3, <1>4 DEF Entry

\* A client that has had a later turn in the history has ended the earlier one.
LEMMA EarlierTurnEnded ==
    ASSUME TypeOK, TurnsOK, NEW r \in Request, NEW q \in Request,
           handler[r] # "none", r[1] = q[1], r[2] > q[2]
    PROVE  q[1] \in Client /\ q[2] \in 1 .. Len(outcome[q[1]])
<1> USE HttpChatAssumption
<1>1. /\ q[1] \in Client /\ q[2] \in 1 .. Turns /\ r[2] \in 1 .. Turns
      /\ turn[q[1]] \in 0 .. Turns
    BY DEF Request, TypeOK
<1>2. r[2] <= turn[q[1]]
    BY <1>1 DEF TurnsOK
<1>3. Len(outcome[q[1]]) >= turn[q[1]] - 1 /\ Len(outcome[q[1]]) \in Int
    BY <1>1 DEF TurnsOK
<1> QED
    BY <1>1, <1>2, <1>3

\* A handler that has not replied, overtaken by a later turn of its client,
\* was given up.
LEMMA OvertakenFailed ==
    ASSUME TypeOK, TurnsOK, HistoryOK, NEW q \in Request, handler[q] # "replied",
           NEW i \in 1 .. Len(history),
           history[i].request[1] = q[1], history[i].request[2] > q[2]
    PROVE  outcome[q[1]][q[2]] = Error
<1>1. history[i].request \in Request /\ handler[history[i].request] # "none"
    BY Types DEF HistoryOK, Started
<1>2. q[1] \in Client /\ q[2] \in 1 .. Len(outcome[q[1]])
    BY <1>1, EarlierTurnEnded
<1>3. q = <<q[1], q[2]>>
    BY DEF Request
<1> QED
    BY <1>2, <1>3 DEF TurnsOK

-----------------------------------------------------------------------------
(* The invariant *)

LEMMA InitInv == Init => HttpInv
BY HttpChatAssumption
   DEF Init, HttpInv, TypeOK, TurnsOK, HistoryOK, PairsAdjacent,
       OutOfOrderMeansFailed, Request

LEMMA PostInv ==
    ASSUME HttpInv, NEW c \in Client, Post(c)
    PROVE  HttpInv'
<1> USE HttpChatAssumption
<1> DEFINE p == <<c, turn[c] + 1>>
<1>1. TypeOK /\ TurnsOK /\ HistoryOK /\ PairsAdjacent /\ OutOfOrderMeansFailed
    BY DEF HttpInv
<1>2. turn[c] \in 0 .. Turns /\ turn[c] + 1 \in 1 .. Turns /\ p \in Request
    BY <1>1 DEF Post, TypeOK, Request
<1>3. handler[p] = "none"
    BY <1>1, <1>2 DEF TurnsOK
<1>4. /\ handler' = [handler EXCEPT ![p] = "waiting"]
      /\ turn' = [turn EXCEPT ![c] = turn[c] + 1]
      /\ pc[c] = "idle" /\ pc' = [pc EXCEPT ![c] = "waiting"]
      /\ UNCHANGED <<outcome, lock, history>>
    BY DEF Post
<1>5. \A r \in Request : handler'[r] = IF r = p THEN "waiting" ELSE handler[r]
    BY <1>1, <1>4 DEF TypeOK
<1> HIDE DEF p
<1>6. TypeOK'
    BY <1>1, <1>2, <1>3, <1>4 DEF TypeOK
<1>7. TurnsOK'
    <2>1. \A r \in Request : handler'[r] = "none" <=> r[2] > turn'[r[1]]
        BY <1>1, <1>2, <1>4, <1>5 DEF TurnsOK, TypeOK, Request, p
    <2>2. \A d \in Client :
             Len(outcome'[d]) = IF pc'[d] = "idle" THEN turn'[d] ELSE turn'[d] - 1
        BY <1>1, <1>2, <1>4 DEF TurnsOK, TypeOK
    <2>3. ASSUME NEW d \in Client, NEW t \in 1 .. Len(outcome'[d]),
                 outcome'[d][t] # Error
          PROVE  handler'[<<d, t>>] = "replied"
        <3>1. outcome' = outcome
            BY <1>4
        <3>2. handler[<<d, t>>] = "replied"
            BY <1>1, <2>3, <3>1 DEF TurnsOK
        <3>3. t \in 1 .. Turns
            <4>1. turn[d] \in 0 .. Turns /\ Len(outcome[d]) <= turn[d]
                BY <1>1 DEF TypeOK, TurnsOK
            <4> QED
                BY <3>1, <4>1
        <3>4. <<d, t>> \in Request
            BY <3>3 DEF Request
        <3> QED
            BY <3>2, <3>4, <1>3, <1>5
    <2> QED
        BY <2>1, <2>2, <2>3 DEF TurnsOK
<1>8. \A i \in 1 .. Len(history) : history[i].request \in Request
    BY <1>1, Types
<1>9. \A i \in 1 .. Len(history) :
         handler'[history[i].request] = handler[history[i].request]
    BY <1>1, <1>3, <1>5, <1>8 DEF HistoryOK, Started
<1>10. HistoryOK'
    <2>1. history' = history /\ (history # <<>> => Len(history) \in 1 .. Len(history))
        BY <1>1, <1>4 DEF TypeOK
    <2> QED
        BY <1>1, <1>5, <1>9, <2>1 DEF HistoryOK
<1>11. PairsAdjacent'
    BY <1>1, <1>4, <1>9 DEF PairsAdjacent
<1>12. OutOfOrderMeansFailed'
    BY <1>1, <1>4 DEF OutOfOrderMeansFailed
<1> QED
    BY <1>6, <1>7, <1>10, <1>11, <1>12 DEF HttpInv

\* A call that ends, with the reply of a handler that replied or without one.
LEMMA ReturnInv ==
    ASSUME HttpInv, NEW c \in Client, NEW what \in Reply, Return(c, what),
           what # Error => handler[Current(c)] = "replied"
    PROVE  HttpInv'
<1> USE HttpChatAssumption
<1>1. TypeOK /\ TurnsOK /\ HistoryOK /\ PairsAdjacent /\ OutOfOrderMeansFailed
    BY DEF HttpInv
<1>2. /\ pc[c] = "waiting" /\ pc' = [pc EXCEPT ![c] = "idle"]
      /\ outcome' = [outcome EXCEPT ![c] = Append(outcome[c], what)]
      /\ UNCHANGED <<turn, handler, lock, history>>
    BY DEF Return
<1>3. /\ outcome[c] \in Seq(Reply) /\ Len(outcome[c]) = turn[c] - 1
      /\ turn[c] \in 0 .. Turns
    BY <1>1, <1>2, Types DEF TurnsOK
<1>4. /\ outcome'[c] = Append(outcome[c], what)
      /\ \A d \in Client : d # c => outcome'[d] = outcome[d]
    BY <1>1, <1>2 DEF TypeOK
<1>5. /\ Append(outcome[c], what) \in Seq(Reply)
      /\ Len(Append(outcome[c], what)) = turn[c]
      /\ \A t \in 1 .. turn[c] - 1 : Append(outcome[c], what)[t] = outcome[c][t]
      /\ Append(outcome[c], what)[turn[c]] = what
    BY <1>3
<1>6. TypeOK'
    BY <1>1, <1>2, <1>5 DEF TypeOK, Reply
<1>7. TurnsOK'
    <2>1. \A r \in Request : handler'[r] = "none" <=> r[2] > turn'[r[1]]
        BY <1>1, <1>2 DEF TurnsOK
    <2>2. \A d \in Client :
             Len(outcome'[d]) = IF pc'[d] = "idle" THEN turn'[d] ELSE turn'[d] - 1
        BY <1>1, <1>2, <1>4, <1>5 DEF TurnsOK, TypeOK
    <2>3. ASSUME NEW d \in Client, NEW t \in 1 .. Len(outcome'[d]),
                 outcome'[d][t] # Error
          PROVE  handler'[<<d, t>>] = "replied"
        <3>1. CASE d = c /\ t = turn[c]
            BY <2>3, <3>1, <1>2, <1>4, <1>5 DEF Current
        <3>2. CASE d = c /\ t # turn[c]
            <4>1. t \in 1 .. Len(outcome[c]) /\ outcome[c][t] # Error
                BY <2>3, <3>2, <1>3, <1>4, <1>5
            <4> QED
                BY <4>1, <3>2, <1>1, <1>2 DEF TurnsOK
        <3>3. CASE d # c
            BY <2>3, <3>3, <1>1, <1>2, <1>4 DEF TurnsOK
        <3> QED
            BY <3>1, <3>2, <3>3
    <2> QED
        BY <2>1, <2>2, <2>3 DEF TurnsOK
<1>8. HistoryOK' /\ PairsAdjacent'
    BY <1>1, <1>2 DEF HistoryOK, PairsAdjacent
<1>9. OutOfOrderMeansFailed'
    <2> SUFFICES ASSUME NEW i \in 1 .. Len(history), NEW j \in 1 .. Len(history),
                        i < j, history[i].request[1] = history[j].request[1],
                        history[i].request[2] > history[j].request[2]
                 PROVE  outcome'[history[j].request[1]][history[j].request[2]] = Error
        BY <1>2 DEF OutOfOrderMeansFailed
    <2> DEFINE q == history[j].request
    <2>1. history[i].request \in Request /\ q \in Request
        BY <1>1, Types
    <2>2. outcome[q[1]][q[2]] = Error
        BY <1>1 DEF OutOfOrderMeansFailed
    <2>3. handler[history[i].request] # "none"
        BY <1>1 DEF HistoryOK, Started
    <2>4. q[1] \in Client /\ q[2] \in 1 .. Len(outcome[q[1]])
        BY <2>1, <2>3, <1>1, EarlierTurnEnded
    <2> QED
        BY <2>2, <2>4, <1>3, <1>4, <1>5
<1> QED
    BY <1>6, <1>7, <1>8, <1>9 DEF HttpInv

\* A handler that moves on in the history: what Enter and Leave share.
LEMMA AppendKeeps ==
    ASSUME HttpInv, NEW r \in Request, handler[r] \in {"waiting", "generating"},
           NEW e \in Entry, e.request = r,
           handler'[r] \in Started,
           \A q \in Request : q # r => handler'[q] = handler[q],
           history' = Append(history, e), UNCHANGED clientVars
    PROVE  /\ TurnsOK'
           /\ \A i \in 1 .. Len(history') : handler'[history'[i].request] \in Started
           /\ OutOfOrderMeansFailed'
<1> USE HttpChatAssumption
<1>1. TypeOK /\ TurnsOK /\ HistoryOK /\ OutOfOrderMeansFailed
    BY DEF HttpInv
<1>2. handler[r] # "none" /\ handler[r] # "replied" /\ handler'[r] # "none"
    BY DEF Started
<1>3. turn' = turn /\ pc' = pc /\ outcome' = outcome
    BY DEF clientVars
<1>4. TurnsOK'
    <2>1. \A q \in Request : handler'[q] = "none" <=> handler[q] = "none"
        BY <1>2
    <2>2. \A q \in Request : handler[q] = "replied" => handler'[q] = "replied"
        BY <1>2
    <2>3. \A d \in Client : \A t \in 1 .. Len(outcome[d]) : <<d, t>> \in Request
        <3> TAKE d \in Client
        <3> TAKE t \in 1 .. Len(outcome[d])
        <3>1. turn[d] \in 0 .. Turns /\ Len(outcome[d]) <= turn[d]
            BY <1>1 DEF TypeOK, TurnsOK
        <3> QED
            BY <3>1 DEF Request
    <2> QED
        BY <1>1, <1>3, <2>1, <2>2, <2>3 DEF TurnsOK
<1>5. /\ history \in Seq(Entry) /\ Len(history) \in Nat
      /\ \A i \in 1 .. Len(history) : history[i].request \in Request
    BY <1>1, Types
<1>6. /\ Len(history') = Len(history) + 1 /\ history'[Len(history) + 1] = e
      /\ \A i \in 1 .. Len(history) : history'[i] = history[i]
    BY <1>5
<1>7. \A i \in 1 .. Len(history') : handler'[history'[i].request] \in Started
    BY <1>1, <1>5, <1>6 DEF HistoryOK
<1>8. OutOfOrderMeansFailed'
    <2> SUFFICES ASSUME NEW i \in 1 .. Len(history'), NEW j \in 1 .. Len(history'),
                        i < j, history'[i].request[1] = history'[j].request[1],
                        history'[i].request[2] > history'[j].request[2]
                 PROVE  outcome[history'[j].request[1]][history'[j].request[2]] = Error
        BY <1>3 DEF OutOfOrderMeansFailed
    <2>1. i \in 1 .. Len(history) /\ history'[i] = history[i]
        BY <1>5, <1>6
    <2>2. CASE j = Len(history) + 1
        BY <2>1, <2>2, <1>1, <1>2, <1>6, OvertakenFailed
    <2>3. CASE j # Len(history) + 1
        BY <2>1, <2>3, <1>1, <1>5, <1>6 DEF OutOfOrderMeansFailed
    <2> QED
        BY <2>2, <2>3
<1> QED
    BY <1>4, <1>7, <1>8

LEMMA EnterInv ==
    ASSUME HttpInv, NEW r \in Request, Enter(r)
    PROVE  HttpInv'
<1> USE HttpChatAssumption
<1> DEFINE n == Len(history)
<1>1. TypeOK /\ TurnsOK /\ HistoryOK /\ PairsAdjacent /\ OutOfOrderMeansFailed
    BY DEF HttpInv
<1>2. /\ handler[r] = "waiting" /\ lock = None /\ lock' = r
      /\ handler' = [handler EXCEPT ![r] = "generating"]
      /\ history' = Append(history, PromptOf(r))
      /\ UNCHANGED clientVars
    BY DEF Enter
<1>3. /\ handler'[r] = "generating"
      /\ \A q \in Request : q # r => handler'[q] = handler[q]
    BY <1>1, <1>2 DEF TypeOK
<1>4. PromptOf(r) \in Entry /\ PromptOf(r).request = r /\ PromptOf(r).role = "user"
    BY DEF PromptOf, Entry
<1>5. /\ TurnsOK' /\ OutOfOrderMeansFailed'
      /\ \A i \in 1 .. Len(history') : handler'[history'[i].request] \in Started
    BY <1>2, <1>3, <1>4, AppendKeeps DEF Started
<1>6. /\ history \in Seq(Entry) /\ n \in Nat
      /\ \A i \in 1 .. n : history[i] \in Entry /\ history[i].request \in Request
    BY <1>1, Types
<1>7. /\ history' \in Seq(Entry)
      /\ Len(history') = n + 1 /\ history'[n + 1] = PromptOf(r)
      /\ \A i \in 1 .. n : history'[i] = history[i]
    BY <1>2, <1>4, <1>6
<1>8. \A q \in Request : handler[q] # "generating"
    <2>1. \A q \in Request : q # None
        BY DEF Request
    <2> QED
        BY <2>1, <1>1, <1>2 DEF TypeOK
<1>9. TypeOK'
    <2>1. \A q \in Request : lock' = q <=> handler'[q] = "generating"
        BY <1>2, <1>3, <1>8
    <2>2. history' \in Seq([role : {"user", "assistant"}, request : Request])
        BY <1>7 DEF Entry
    <2> QED
        BY <1>1, <1>2, <2>1, <2>2 DEF TypeOK, clientVars
<1>10. HistoryOK'
    <2>1. history'[Len(history')] = PromptOf(r) /\ history' # <<>>
        BY <1>6, <1>7
    <2> QED
        BY <2>1, <1>3, <1>4, <1>5, <1>8 DEF HistoryOK
<1>11. PairsAdjacent'
    <2> SUFFICES ASSUME NEW i \in 1 .. Len(history')
                 PROVE  IF history'[i].role = "assistant"
                        THEN /\ i > 1
                             /\ history'[i - 1] = PromptOf(history'[i].request)
                        ELSE \/ i = Len(history')
                             \/ history'[i + 1] = ReplyTo(history'[i].request)
                             \/ handler'[history'[i].request] = "closed"
        BY DEF PairsAdjacent, PromptOf, ReplyTo
    <2>1. CASE i = n + 1
        BY <2>1, <1>4, <1>7
    <2>2. CASE i \in 1 .. n /\ history[i].role = "assistant"
        <3>1. i > 1 /\ history[i - 1] = PromptOf(history[i].request)
            BY <2>2, <1>1 DEF PairsAdjacent
        <3>2. i - 1 \in 1 .. n
            BY <2>2, <3>1, <1>6
        <3> QED
            BY <2>2, <3>1, <3>2, <1>7
    <2>3. CASE i = n /\ history[i].role # "assistant"
        <3>1. history # <<>> /\ i \in 1 .. n /\ history[i].role = "user"
            BY <2>3, <1>6 DEF Entry
        <3>2. handler[history[i].request] \in Started \ {"replied", "generating"}
            BY <2>3, <3>1, <1>1, <1>6, <1>8 DEF HistoryOK
        <3>3. history[i].request # r
            BY <3>2, <1>2 DEF Started
        <3> QED
            BY <2>3, <3>1, <3>2, <3>3, <1>3, <1>6, <1>7 DEF Started
    <2>4. CASE i \in 1 .. n - 1 /\ history[i].role # "assistant"
        <3>1. i \in 1 .. n /\ i + 1 \in 1 .. n /\ i # Len(history)
            BY <2>4, <1>6
        <3>2. \/ history[i + 1] = ReplyTo(history[i].request)
              \/ handler[history[i].request] = "closed"
            BY <2>4, <3>1, <1>1 DEF PairsAdjacent
        <3> QED
            BY <2>4, <3>1, <3>2, <1>2, <1>3, <1>6, <1>7
    <2> QED
        BY <2>1, <2>2, <2>3, <2>4, <1>6, <1>7
<1> QED
    BY <1>5, <1>9, <1>10, <1>11 DEF HttpInv

LEMMA LeaveInv ==
    ASSUME HttpInv, NEW r \in Request, Leave(r)
    PROVE  HttpInv'
<1> USE HttpChatAssumption
<1> DEFINE n == Len(history)
<1>1. TypeOK /\ TurnsOK /\ HistoryOK /\ PairsAdjacent /\ OutOfOrderMeansFailed
    BY DEF HttpInv
<1>2. /\ handler[r] = "generating" /\ lock' = None
      /\ handler' = [handler EXCEPT ![r] = "replied"]
      /\ history' = Append(history, ReplyTo(r))
      /\ UNCHANGED clientVars
    BY DEF Leave
<1>3. /\ handler'[r] = "replied"
      /\ \A q \in Request : q # r => handler'[q] = handler[q]
    BY <1>1, <1>2 DEF TypeOK
<1>4. ReplyTo(r) \in Entry /\ ReplyTo(r).request = r /\ ReplyTo(r).role = "assistant"
    BY DEF ReplyTo, Entry
<1>5. /\ TurnsOK' /\ OutOfOrderMeansFailed'
      /\ \A i \in 1 .. Len(history') : handler'[history'[i].request] \in Started
    BY <1>2, <1>3, <1>4, AppendKeeps DEF Started
<1>6. /\ history \in Seq(Entry) /\ n \in Nat
      /\ \A i \in 1 .. n : history[i] \in Entry /\ history[i].request \in Request
    BY <1>1, Types
<1>7. /\ history' \in Seq(Entry)
      /\ Len(history') = n + 1 /\ history'[n + 1] = ReplyTo(r)
      /\ \A i \in 1 .. n : history'[i] = history[i]
    BY <1>2, <1>4, <1>6
<1>8. \A q \in Request : handler'[q] # "generating"
    BY <1>1, <1>2, <1>3 DEF TypeOK
<1>9. n > 0 /\ history[n] = PromptOf(r)
    BY <1>1, <1>2, <1>6 DEF HistoryOK
<1>10. TypeOK'
    <2>1. \A q \in Request : lock' = q <=> handler'[q] = "generating"
        BY <1>2, <1>8 DEF Request
    <2>2. history' \in Seq([role : {"user", "assistant"}, request : Request])
        BY <1>7 DEF Entry
    <2> QED
        BY <1>1, <1>2, <2>1, <2>2 DEF TypeOK, clientVars
<1>11. HistoryOK'
    <2>1. history'[Len(history')].role = "assistant"
        BY <1>4, <1>6, <1>7
    <2> QED
        BY <2>1, <1>5, <1>8 DEF HistoryOK
<1>12. PairsAdjacent'
    <2> SUFFICES ASSUME NEW i \in 1 .. Len(history')
                 PROVE  IF history'[i].role = "assistant"
                        THEN /\ i > 1
                             /\ history'[i - 1] = PromptOf(history'[i].request)
                        ELSE \/ i = Len(history')
                             \/ history'[i + 1] = ReplyTo(history'[i].request)
                             \/ handler'[history'[i].request] = "closed"
        BY DEF PairsAdjacent, PromptOf, ReplyTo
    <2>1. CASE i = n + 1
        BY <2>1, <1>4, <1>6, <1>7, <1>9
    <2>2. CASE i \in 1 .. n /\ history[i].role = "assistant"
        <3>1. i > 1 /\ history[i - 1] = PromptOf(history[i].request)
            BY <2>2, <1>1 DEF PairsAdjacent
        <3>2. i - 1 \in 1 .. n
            BY <2>2, <3>1, <1>6
        <3> QED
            BY <2>2, <3>1, <3>2, <1>7
    <2>3. CASE i = n /\ history[i].role # "assistant"
        BY <2>3, <1>6, <1>7, <1>9 DEF PromptOf
    <2>4. CASE i \in 1 .. n - 1 /\ history[i].role # "assistant"
        <3>1. i \in 1 .. n /\ i + 1 \in 1 .. n /\ i # Len(history)
            BY <2>4, <1>6
        <3>2. \/ history[i + 1] = ReplyTo(history[i].request)
              \/ handler[history[i].request] = "closed"
            BY <2>4, <3>1, <1>1 DEF PairsAdjacent
        <3> QED
            BY <2>4, <3>1, <3>2, <1>2, <1>3, <1>6, <1>7
    <2> QED
        BY <2>1, <2>2, <2>3, <2>4, <1>6, <1>7
<1> QED
    BY <1>5, <1>10, <1>11, <1>12 DEF HttpInv

LEMMA RaiseInv ==
    ASSUME HttpInv, NEW r \in Request, Raise(r)
    PROVE  HttpInv'
<1> USE HttpChatAssumption
<1>1. TypeOK /\ TurnsOK /\ HistoryOK /\ PairsAdjacent /\ OutOfOrderMeansFailed
    BY DEF HttpInv
<1>2. /\ handler[r] = "generating" /\ lock' = None
      /\ handler' = [handler EXCEPT ![r] = "closed"]
      /\ UNCHANGED <<pc, turn, outcome, history>>
    BY DEF Raise, clientVars
<1>3. /\ handler'[r] = "closed"
      /\ \A q \in Request : q # r => handler'[q] = handler[q]
    BY <1>1, <1>2 DEF TypeOK
<1>4. \A i \in 1 .. Len(history) : history[i].request \in Request
    BY <1>1, Types
<1>5. \A q \in Request : handler'[q] # "generating"
    BY <1>1, <1>2, <1>3 DEF TypeOK
<1>6. TypeOK'
    BY <1>1, <1>2, <1>5 DEF TypeOK, Request
<1>7. TurnsOK'
    <2>1. \A q \in Request : handler'[q] = "none" <=> handler[q] = "none"
        BY <1>2, <1>3
    <2>2. \A q \in Request : handler[q] = "replied" => handler'[q] = "replied"
        BY <1>2, <1>3
    <2>3. \A d \in Client : \A t \in 1 .. Len(outcome[d]) : <<d, t>> \in Request
        <3> TAKE d \in Client
        <3> TAKE t \in 1 .. Len(outcome[d])
        <3>1. turn[d] \in 0 .. Turns /\ Len(outcome[d]) <= turn[d]
            BY <1>1 DEF TypeOK, TurnsOK
        <3> QED
            BY <3>1 DEF Request
    <2> QED
        BY <1>1, <1>2, <2>1, <2>2, <2>3 DEF TurnsOK
<1>8. HistoryOK'
    <2>1. history # <<>> => Len(history) \in 1 .. Len(history)
        BY <1>1, Types
    <2> QED
        BY <1>1, <1>2, <1>3, <1>4, <1>5, <2>1 DEF HistoryOK, Started
<1>9. PairsAdjacent'
    BY <1>1, <1>2, <1>3, <1>4 DEF PairsAdjacent
<1>10. OutOfOrderMeansFailed'
    BY <1>1, <1>2 DEF OutOfOrderMeansFailed
<1> QED
    BY <1>6, <1>7, <1>8, <1>9, <1>10 DEF HttpInv

LEMMA NextInv == HttpInv /\ [Next]_vars => HttpInv'
<1> SUFFICES ASSUME HttpInv, [Next]_vars
             PROVE  HttpInv'
    OBVIOUS
<1>1. ASSUME NEW c \in Client, Post(c)
      PROVE  HttpInv'
    BY <1>1, PostInv
<1>2. ASSUME NEW c \in Client, Answered(c)
      PROVE  HttpInv'
    <2>1. turn[c] \in 0 .. Turns /\ Len(outcome[c]) = turn[c] - 1 /\ Len(outcome[c]) \in Nat
        BY <1>2, Types DEF Answered, HttpInv, TurnsOK
    <2>2. Current(c) \in Request
        BY <2>1, HttpChatAssumption DEF Current, Request
    <2>3. ReplyTo(Current(c)) \in Reply
        BY <2>2 DEF ReplyTo, Reply
    <2> QED
        BY <1>2, <2>3, ReturnInv DEF Answered
<1>3. ASSUME NEW c \in Client, Fails(c)
      PROVE  HttpInv'
    BY <1>3, ReturnInv DEF Fails, Reply
<1>4. ASSUME NEW r \in Request, Enter(r)
      PROVE  HttpInv'
    BY <1>4, EnterInv
<1>5. ASSUME NEW r \in Request, Leave(r)
      PROVE  HttpInv'
    BY <1>5, LeaveInv
<1>6. ASSUME NEW r \in Request, Raise(r)
      PROVE  HttpInv'
    BY <1>6, RaiseInv
<1>7. CASE UNCHANGED vars
    BY <1>7 DEF vars, clientVars, HttpInv, TypeOK, TurnsOK, HistoryOK,
               PairsAdjacent, OutOfOrderMeansFailed
<1> QED
    BY <1>1, <1>2, <1>3, <1>4, <1>5, <1>6, <1>7
       DEF Next, ClientStep, HandlerStep, Finished

\* Every behaviour keeps the inductive invariant.
THEOREM HttpInvariant == Spec => []HttpInv
BY InitInv, NextInv, PTL DEF Spec

\* The history, the handlers and the lock keep their types, and the lock is
\* held by exactly the handler that generates.
THEOREM HttpTypeCorrect == Spec => []TypeOK
BY HttpInvariant, PTL DEF HttpInv

\* The history the handler threads share stays a conversation for any number
\* of clients: no reply is parted from its prompt, and a prompt without one
\* is the last or belongs to a handler whose generate() raised.
THEOREM ConversationKept == Spec => []PairsAdjacent
BY HttpInvariant, PTL DEF HttpInv

\* A prompt the backend is shown after one of a later turn of its client is
\* one its client gave up: the turn failed.
THEOREM OvertakenTurnsFailed == Spec => []OutOfOrderMeansFailed
BY HttpInvariant, PTL DEF HttpInv
=============================================================================
