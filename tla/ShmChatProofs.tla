---------------------------- MODULE ShmChatProofs ----------------------------
(***************************************************************************)
(* What a session in time promises: the payload of a turn survives both    *)
(* processes' allocations, each turn ends with the reply to its prompt,    *)
(* the session implements Chat, and responses bear their request's seq_no. *)
(*                                                                         *)
(* The argument.  When no timeout ends a call early, one turn is underway  *)
(* at a time (TurnByTurn): the client reserves only when every request was *)
(* answered, the server only between a request and its response.  So one   *)
(* process at most is in _write_data, nobody overwrites the payload of the *)
(* turn until it was read, and whichever copy exists is that of the turn   *)
(* (PayloadOfTurn).  A server that died leaves no response (Quiet), and    *)
(* the client's later prompts, which nobody reads, may overwrite others:   *)
(* this is why PayloadsIntact is about a server that lives.                *)
(*                                                                         *)
(* SeqNumbersEchoed needs less than time: seq_no is read after the slot    *)
(* was given back, so it is that of the request unless the client has      *)
(* come round the ring meanwhile (Paced).                                  *)
(*                                                                         *)
(* SessionIsFifo is about both platforms.  The rings of Linux write a slot *)
(* without a test for room; where the session itself leaves room (Roomy)   *)
(* each of their steps is one of the Windows rings, or changes no queue.   *)
(***************************************************************************)
EXTENDS ShmSessionProofs

-----------------------------------------------------------------------------
(* The invariant *)

\* In memory mem, what descriptor d points to is the payload t, whole.
Holds(mem, d, t) ==
    /\ d.len = Size[t]
    /\ \A k \in 1 .. Size[t] : mem[d.off + k - 1] = <<t, k>>

\* The copy that p's _write_data has made is whole.
Copied(p) ==
    \A k \in 1 .. Size[writing[p].text] :
        pool[writing[p].off + k - 1] = <<writing[p].text, k>>

OldestRequest  == slot["req"][SlotOf(tail["req"])]
OldestResponse == slot["resp"][SlotOf(tail["resp"])]

\* At most one turn is unanswered, and the client begins none before.
TurnByTurn ==
    /\ pc = "idle" \/ InTransit("client", "req") => tail["resp"] = head["req"]
    /\ ~Closing /\ (pc = "receiving" \/ ppc["req"] = "published") =>
          tail["resp"] = head["req"] - (IF cpc["resp"] = "released" THEN 0 ELSE 1)
    /\ Closing /\ ~InTransit("client", "req") =>
          /\ tail["resp"] = head["req"] - 1
          /\ head["resp"] = tail["resp"]
          /\ ~Serving
    /\ spc = "stopped" =>
          Closing /\ ~InTransit("client", "req") /\ tail["req"] = head["req"]

\* Where the payload of the turn is, from the copy to the call's return.
PayloadOfTurn ==
    /\ \A p \in Process : writing[p] # None /\ writing[p].filled => Copied(p)
    /\ ppc["req"] \in {"waiting", "written"} => Holds(pool, item["req"], Current)
    /\ head["req"] > tail["req"] => Holds(pool, OldestRequest, Current)
    /\ cpc["req"] \in {"read", "released"} => text["server"] = Bytes(Current)
    /\ spc = "generating" => text["server"] = Bytes(Prompt(turn))
    /\ writing["server"] # None => writing["server"].text = ReplyTo(turn)
    /\ ppc["resp"] \in {"waiting", "written"} =>
          Holds(pool, item["resp"], ReplyTo(turn))
    /\ head["resp"] > tail["resp"] => Holds(pool, OldestResponse, ReplyTo(turn))
    /\ cpc["resp"] \in {"read", "released"} =>
          text["client"] = Bytes(ReplyTo(turn))

\* A dead server leaves no response behind.
Quiet == head["resp"] = tail["resp"] /\ cpc["resp"] \notin {"read", "released"}

OutcomesCounted ==
    Len(outcome) = turn - (IF pc \in {"sending", "receiving"} THEN 1 ELSE 0)

ChatInv ==
    /\ SessionInv
    /\ SessionWakeups
    /\ Timely =>
          /\ ReplyMatchesRequest
          /\ OutcomesCounted
          /\ IF spc = "dead" THEN Quiet ELSE TurnByTurn /\ PayloadOfTurn

-----------------------------------------------------------------------------
(* Payloads *)

LEMMA HoldsReads ==
    ASSUME NEW d, NEW t, Holds(pool, d, t)
    PROVE  ReadData(d) = Bytes(t)
BY DEF Holds, ReadData, Bytes

\* Payloads are told apart by their bytes: none is empty.
LEMMA BytesInjective ==
    ASSUME NEW t \in Texts, NEW u \in Texts, Bytes(t) = Bytes(u)
    PROVE  t = u
<1>1. 1 \in 1 .. Size[t] /\ 1 \in 1 .. Size[u]
    BY Sizes
<1>2. Bytes(t)[1] = <<t, 1>> /\ Bytes(u)[1] = <<u, 1>>
    BY <1>1 DEF Bytes
<1> QED
    BY <1>2

LEMMA PromptsDiffer ==
    ASSUME NEW t \in 1 .. Turns
    PROVE  /\ Bytes(Prompt(t)) # Bytes(Shutdown)
           /\ ReplyText(Bytes(Prompt(t))) = ReplyTo(t)
<1>1. Prompt(t) # Shutdown /\ \A u \in 1 .. Turns : Prompt(u) = Prompt(t) => u = t
    BY DEF Prompt, Shutdown
<1>2. \A u \in 1 .. Turns : Bytes(Prompt(t)) = Bytes(Prompt(u)) => u = t
    BY <1>1, TextTypes, BytesInjective
<1>3. (CHOOSE u \in 1 .. Turns : Bytes(Prompt(t)) = Bytes(Prompt(u))) = t
    BY <1>2
<1> QED
    BY <1>1, <1>3, TextTypes, BytesInjective DEF ReplyText

LEMMA FillCopies ==
    ASSUME Types, NEW p \in Process, Fill(p)
    PROVE  \A k \in 1 .. Size[writing[p].text] :
              pool'[writing[p].off + k - 1] = <<writing[p].text, k>>
<1> DEFINE w == writing[p]
<1>1. w # None /\ w \in Write /\ w.off \in 0 .. PoolSize - Size[w.text]
    BY DEF Fill, Types, PoolTypes
<1>2. Size[w.text] \in 1 .. PoolSize /\ PoolSize \in Nat /\ w.off \in Nat
    BY <1>1, Sizes DEF Write
<1>3. /\ DOMAIN pool = 0 .. PoolSize - 1
      /\ pool' = [k \in DOMAIN pool |->
                     IF k \in w.off .. w.off + Size[w.text] - 1
                     THEN <<w.text, k - w.off + 1>> ELSE pool[k]]
    BY DEF Fill, Types, PoolTypes
<1> HIDE DEF w
<1>4. ASSUME NEW k \in 1 .. Size[w.text]
      PROVE  pool'[w.off + k - 1] = <<w.text, k>>
    <2>1. /\ w.off + k - 1 \in 0 .. PoolSize - 1
          /\ w.off + k - 1 \in w.off .. w.off + Size[w.text] - 1
          /\ (w.off + k - 1) - w.off + 1 = k
        BY <1>1, <1>2
    <2> QED
        BY <1>3, <2>1
<1> QED
    BY <1>4 DEF w

-----------------------------------------------------------------------------
(* One turn at a time *)

\* The cursors never part by more than the turn under way, and only one of the
\* two processes has anything in the pool.
LEMMA OneTurn ==
    ASSUME SessionInv, TurnByTurn
    PROVE  /\ tail["resp"] <= head["resp"] /\ head["resp"] <= tail["req"]
           /\ tail["req"] <= head["req"] /\ head["req"] <= tail["resp"] + 1
<1>1. /\ head \in [Ring -> Nat] /\ tail \in [Ring -> Nat]
      /\ ppc \in [Ring -> {"idle", "waiting", "written", "published"}]
      /\ Ring = {"req", "resp"}
    BY Shape DEF SessionInv
<1>2. /\ tail["resp"] <= head["resp"] /\ tail["req"] <= head["req"]
      /\ head["resp"] <= tail["req"]
    BY <1>1 DEF SessionInv, RingsOK, ResponsesCounted
<1>3. \/ pc = "idle" \/ InTransit("client", "req")
      \/ ~Closing /\ (pc = "receiving" \/ ppc["req"] = "published")
      \/ Closing /\ ~InTransit("client", "req")
    BY <1>1 DEF SessionInv, Types, ClientTypes, Control, Closing, InTransit
<1> QED
    BY <1>1, <1>2, <1>3 DEF TurnByTurn

\* Nothing is under way when the client begins a turn or writes its request.
LEMMA AllAnswered ==
    ASSUME SessionInv, TurnByTurn, pc = "idle" \/ InTransit("client", "req")
    PROVE  /\ head["resp"] = tail["resp"] /\ tail["req"] = tail["resp"]
           /\ head["req"] = tail["resp"]
           /\ ~Serving
           /\ cpc["req"] \notin {"read", "released"}
           /\ cpc["resp"] \notin {"read", "released"}
<1>1. head \in [Ring -> Nat] /\ tail \in [Ring -> Nat] /\ Ring = {"req", "resp"}
    BY Shape DEF SessionInv
<1>2. /\ head["resp"] = tail["resp"] /\ tail["req"] = tail["resp"]
      /\ head["req"] = tail["resp"]
    BY <1>1, OneTurn DEF TurnByTurn
<1>3. ~Serving /\ cpc["req"] \notin {"read", "released"}
    BY <1>1, <1>2 DEF SessionInv, RingsOK, ResponsesCounted, Control
<1>4. cpc["resp"] \notin {"read", "released"}
    BY DEF SessionInv, Control, InTransit
<1> QED
    BY <1>2, <1>3, <1>4

\* While the server answers, the client waits.
LEMMA ClientWaits ==
    ASSUME SessionInv, TurnByTurn, Serving
    PROVE  /\ tail["req"] = head["req"] /\ head["resp"] = tail["resp"]
           /\ head["req"] = tail["resp"] + 1 /\ head["req"] = turn
           /\ ~Closing /\ pc # "idle" /\ ~InTransit("client", "req")
           /\ cpc["resp"] \notin {"read", "released"}
<1>1. head \in [Ring -> Nat] /\ tail \in [Ring -> Nat] /\ Ring = {"req", "resp"}
      /\ turn \in Nat
    BY Shape, TurnTypes DEF SessionInv
<1>2. tail["req"] = head["resp"] + 1
    BY DEF SessionInv, ResponsesCounted
<1>3. /\ tail["req"] = head["req"] /\ head["resp"] = tail["resp"]
      /\ head["req"] = tail["resp"] + 1
    BY <1>1, <1>2, OneTurn
<1>4. ~Closing /\ pc # "idle" /\ ~InTransit("client", "req")
    BY <1>1, <1>3 DEF TurnByTurn
<1>5. head["req"] = turn
    BY <1>1, <1>4 DEF SessionInv, RequestsCounted
<1>6. cpc["resp"] # "read"
    BY <1>1, <1>3 DEF SessionInv, RingsOK
<1>7. cpc["resp"] # "released"
    <2>1. cpc["resp"] = "released" => pc = "receiving"
        BY DEF SessionInv, Control
    <2> QED
        BY <1>1, <1>3, <1>4, <2>1 DEF TurnByTurn
<1> QED
    BY <1>3, <1>4, <1>5, <1>6, <1>7

-----------------------------------------------------------------------------
(* Each step keeps the turns apart *)

\* A wait for a descriptor disturbs nothing.
LEMMA WaitFrame ==
    ASSUME TurnByTurn, PayloadOfTurn,
           UNCHANGED <<pc, turn, spc, writing, pool, head, tail, ppc, item, slot, text>>,
           \A r \in {"req", "resp"} :
              \/ cpc'[r] = cpc[r]
              \/ cpc[r] \notin {"read", "released"} /\ cpc'[r] \notin {"read", "released"}
    PROVE  TurnByTurn' /\ PayloadOfTurn'
<1>1. TurnByTurn'
    BY DEF TurnByTurn, InTransit, Closing, Serving
<1>2. PayloadOfTurn'
    BY DEF PayloadOfTurn, Copied, Closing, Current, OldestRequest, OldestResponse
<1> QED
    BY <1>1, <1>2

LEMMA StartsTurn ==
    ASSUME SessionInv, TurnByTurn, PayloadOfTurn, spc # "dead",
           StartTurn \/ StartShutdown
    PROVE  TurnByTurn' /\ PayloadOfTurn'
<1> USE Rings
<1>1. Types /\ Control
    BY DEF SessionInv
<1>2. pc = "idle" /\ pc' \in {"sending", "closing"}
    BY DEF StartTurn, StartShutdown
<1>3. PICK t \in Texts : Reserve("client", t)
    BY <1>1, TextTypes, TurnTypes, Sizes DEF StartTurn, StartShutdown
<1>4. /\ writing["client"] = None /\ writing'["client"] # None
      /\ ~writing'["client"].filled
      /\ writing'["server"] = writing["server"] /\ pool' = pool
    BY <1>1, <1>3, ReserveEffect
<1>5. UNCHANGED <<head, slot, ppc, item, tail, cpc, text, spc>>
    BY DEF StartTurn, StartShutdown, linuxVars, ringVars, producerVars, consumerVars,
           serverVars
<1>6. /\ head["resp"] = tail["resp"] /\ tail["req"] = tail["resp"]
      /\ head["req"] = tail["resp"] /\ ~Serving
      /\ cpc["req"] \notin {"read", "released"}
      /\ cpc["resp"] \notin {"read", "released"}
    BY <1>2, AllAnswered
<1>7. ~Closing /\ ppc["req"] = "idle" /\ spc # "stopped"
    BY <1>1, <1>2, <1>4 DEF Control, Closing, TurnByTurn
<1>8. TurnByTurn'
    BY <1>2, <1>4, <1>5, <1>6, <1>7 DEF TurnByTurn, InTransit, Closing, Serving
<1>9. PayloadOfTurn'
    <2>1. head["req"] \in Nat /\ head["resp"] \in Nat /\ tail \in [Ring -> Nat]
        BY <1>1, Shape
    <2> QED
        BY <1>4, <1>5, <1>6, <1>7, <2>1
           DEF PayloadOfTurn, Copied, Serving, InTransit
<1> QED
    BY <1>8, <1>9

LEMMA EnqueuesRequest ==
    ASSUME SessionInv, TurnByTurn, PayloadOfTurn, EnqueueRequest
    PROVE  TurnByTurn' /\ PayloadOfTurn'
<1> USE Rings
<1>1. Types /\ Control /\ RequestsCounted
    BY DEF SessionInv
<1>2. /\ writing["client"] # None /\ writing["client"].filled
      /\ writing'["client"] = None
      /\ writing'["server"] = writing["server"] /\ pool' = pool
    BY <1>1, AdvanceEffect DEF EnqueueRequest, StartEnqueue, Advance
<1>3. /\ ppc["req"] = "idle" /\ ppc'["req"] = "waiting"
      /\ ppc'["resp"] = ppc["resp"] /\ item'["resp"] = item["resp"]
      /\ item'["req"] = DescriptorFor("client", head["req"])
      /\ UNCHANGED <<head, slot, tail, cpc, text, spc, pc, turn>>
    BY <1>1, Shape DEF EnqueueRequest, StartEnqueue, EnqueueCall, consumerVars,
                       clientVars, serverVars
<1>4. InTransit("client", "req") /\ InTransit("client", "req")'
    BY <1>2, <1>3 DEF InTransit
<1>5. TurnByTurn'
    BY <1>2, <1>3, <1>4 DEF TurnByTurn, Closing, Serving, InTransit
<1>6. Holds(pool, item'["req"], Current)
    BY <1>1, <1>2, <1>3 DEF RequestsCounted, PayloadOfTurn, Copied, Holds, DescriptorFor
<1>7. PayloadOfTurn'
    BY <1>2, <1>3, <1>6
       DEF PayloadOfTurn, Copied, Closing, Current, OldestRequest, OldestResponse
<1> QED
    BY <1>5, <1>7

LEMMA SendsRequest ==
    ASSUME SessionInv, TurnByTurn, PayloadOfTurn, RequestSent
    PROVE  TurnByTurn' /\ PayloadOfTurn'
<1> USE Rings
<1>1. Types /\ Control
    BY DEF SessionInv
<1>2. /\ ppc["req"] = "published" /\ ppc'["req"] = "idle"
      /\ ppc'["resp"] = ppc["resp"]
      /\ pc' = IF pc = "closing" THEN "done" ELSE "receiving"
      /\ UNCHANGED <<head, slot, item, tail, cpc, text, spc, turn, writing, pool>>
    BY <1>1, Shape DEF RequestSent, EndEnqueue, Notify, EnqueueReturn, consumerVars,
                       poolVars, serverVars
<1>3. pc \in {"sending", "closing"} /\ writing["client"] = None
    BY <1>1, <1>2 DEF Control
<1>4. TurnByTurn'
    BY <1>2, <1>3 DEF TurnByTurn, Closing, Serving, InTransit
<1>5. PayloadOfTurn'
    BY <1>2, <1>3
       DEF PayloadOfTurn, Copied, Closing, Current, OldestRequest, OldestResponse
<1> QED
    BY <1>4, <1>5

LEMMA ReadsResponse ==
    ASSUME SessionInv, TurnByTurn, PayloadOfTurn, ReadResponse
    PROVE  TurnByTurn' /\ PayloadOfTurn'
<1> USE Rings
<1>1. Types /\ Control /\ RingsOK
    BY DEF SessionInv
<1>2. /\ cpc["resp"] = "polling" /\ cpc'["resp"] = "read"
      /\ cpc'["req"] = cpc["req"] /\ head["resp"] > localTail["resp"]
      /\ got'["resp"] = slot["resp"][SlotOf(localTail["resp"])]
      /\ text'["client"] = ReadData(got'["resp"])
      /\ text'["server"] = text["server"]
      /\ UNCHANGED <<head, slot, ppc, item, tail, pc, spc, turn, writing, pool>>
    BY <1>1, Shape DEF ReadResponse, Take, TakeLinux, ReadDescriptor, Available,
                       producerVars, poolVars, clientVars, serverVars, Types, RingTypeOK
<1>3. text'["client"] = Bytes(ReplyTo(turn))
    BY <1>1, <1>2, HoldsReads DEF RingsOK, PayloadOfTurn, OldestResponse
<1>4. TurnByTurn'
    BY <1>2 DEF TurnByTurn, Closing, Serving, InTransit
<1>5. PayloadOfTurn'
    BY <1>2, <1>3
       DEF PayloadOfTurn, Copied, Closing, Current, OldestRequest, OldestResponse
<1> QED
    BY <1>4, <1>5

LEMMA ReturnsResponse ==
    ASSUME SessionInv, TurnByTurn, PayloadOfTurn, ResponseReturned
    PROVE  TurnByTurn' /\ PayloadOfTurn'
<1> USE Rings
<1>1. Types /\ Control
    BY DEF SessionInv
<1>2. /\ cpc["resp"] = "released" /\ cpc'["resp"] = "idle"
      /\ cpc'["req"] = cpc["req"] /\ pc' = "idle"
      /\ UNCHANGED <<head, slot, ppc, item, tail, text, spc, turn, writing, pool>>
      /\ head["req"] \in Nat
    BY <1>1, Shape DEF ResponseReturned, ReturnLinux, DequeueReturn,
                       producerVars, poolVars, serverVars
<1>3. /\ pc = "receiving" /\ ~InTransit("client", "req") /\ ~Closing
      /\ ppc["req"] = "idle"
    BY <1>1, <1>2 DEF Control, InTransit, Closing
<1>4. TurnByTurn'
    BY <1>2, <1>3 DEF TurnByTurn, Closing, Serving, InTransit
<1>5. PayloadOfTurn'
    BY <1>2, <1>3
       DEF PayloadOfTurn, Copied, Closing, Current, OldestRequest, OldestResponse
<1> QED
    BY <1>4, <1>5

LEMMA ReadsRequest ==
    ASSUME SessionInv, TurnByTurn, PayloadOfTurn, ReadRequest
    PROVE  TurnByTurn' /\ PayloadOfTurn'
<1> USE Rings
<1>1. Types /\ Control /\ RingsOK
    BY DEF SessionInv
<1>2. /\ cpc["req"] = "polling" /\ cpc'["req"] = "read"
      /\ cpc'["resp"] = cpc["resp"] /\ head["req"] > localTail["req"]
      /\ got'["req"] = slot["req"][SlotOf(localTail["req"])]
      /\ text'["server"] = ReadData(got'["req"])
      /\ text'["client"] = text["client"]
      /\ UNCHANGED <<head, slot, ppc, item, tail, pc, spc, turn, writing, pool>>
    BY <1>1, Shape DEF ReadRequest, Take, TakeLinux, ReadDescriptor, Available,
                       producerVars, poolVars, clientVars, serverVars, Types, RingTypeOK
<1>3. text'["server"] = Bytes(Current)
    BY <1>1, <1>2, HoldsReads DEF RingsOK, PayloadOfTurn, OldestRequest
<1>4. spc = "receiving"
    BY <1>1, <1>2 DEF Control
<1>5. TurnByTurn'
    BY <1>2 DEF TurnByTurn, Closing, Serving, InTransit
<1>6. PayloadOfTurn'
    BY <1>2, <1>3, <1>4
       DEF PayloadOfTurn, Copied, Closing, Current, OldestRequest, OldestResponse
<1> QED
    BY <1>5, <1>6

\* The server goes on to the model with a prompt, and ends with the shutdown.
LEMMA ReturnsRequest ==
    ASSUME SessionInv, TurnByTurn, PayloadOfTurn, RequestReturned
    PROVE  /\ TurnByTurn' /\ PayloadOfTurn'
           /\ spc' = IF Closing THEN "stopped" ELSE "generating"
           /\ ~Closing => text["server"] = Bytes(Prompt(turn))
           /\ ~InTransit("client", "req") /\ pc # "idle"
           /\ tail["req"] = head["req"] /\ tail["req"] = head["resp"] + 1
<1> USE Rings
<1>1. Types /\ Control /\ RingsOK /\ RequestsCounted /\ ResponsesCounted
    BY DEF SessionInv
<1>t. /\ head["req"] \in Nat /\ head["resp"] \in Nat
      /\ tail["req"] \in Nat /\ tail["resp"] \in Nat
      /\ turn \in 0 .. Turns /\ Turns \in Nat
    BY <1>1, Shape, TurnTypes, Sizes
<1>2. /\ cpc["req"] = "released" /\ cpc'["req"] = "idle"
      /\ cpc'["resp"] = cpc["resp"]
      /\ spc' = IF text["server"] = Bytes(Shutdown) THEN "stopped" ELSE "generating"
      /\ UNCHANGED <<head, slot, ppc, item, tail, text, pc, turn, writing, pool>>
    BY <1>1, Shape DEF RequestReturned, ReturnLinux, DequeueReturn, producerVars,
                       poolVars, clientVars
<1>3. /\ spc = "receiving" /\ writing["server"] = None /\ ppc["resp"] = "idle"
      /\ text["server"] = Bytes(Current)
    BY <1>1, <1>2 DEF Control, PayloadOfTurn
<1>4. tail["req"] = head["resp"] + 1
    BY <1>1, <1>2, <1>3 DEF ResponsesCounted
<1>5. ~InTransit("client", "req") /\ pc # "idle"
    BY <1>2, AllAnswered
<1>6. /\ tail["req"] = head["req"] /\ head["resp"] = tail["resp"]
    BY <1>t, <1>4, OneTurn
<1>7. ~Closing => turn \in 1 .. Turns
    BY <1>t, <1>1, <1>4, <1>5, <1>6 DEF RequestsCounted
<1>8. /\ spc' = IF Closing THEN "stopped" ELSE "generating"
      /\ ~Closing => text["server"] = Bytes(Prompt(turn))
    BY <1>2, <1>3, <1>7, PromptsDiffer DEF Current
<1>9. TurnByTurn'
    BY <1>2, <1>3, <1>4, <1>5, <1>6, <1>8
       DEF TurnByTurn, Closing, Serving, InTransit
<1>10. PayloadOfTurn'
    <2>1. spc' = "generating" => text["server"] = Bytes(Prompt(turn))
        BY <1>8
    <2> QED
        BY <1>2, <2>1
           DEF PayloadOfTurn, Copied, Closing, Current, OldestRequest, OldestResponse
<1> QED
    BY <1>4, <1>5, <1>6, <1>8, <1>9, <1>10

LEMMA Generates ==
    ASSUME SessionInv, TurnByTurn, PayloadOfTurn, Generate
    PROVE  /\ TurnByTurn' /\ PayloadOfTurn'
           /\ ReplyText(text["server"]) = ReplyTo(turn)
<1> USE Rings
<1>1. Types /\ Control /\ RequestsCounted
    BY DEF SessionInv
<1>2. /\ spc = "generating" /\ spc' = "replying"
      /\ UNCHANGED <<head, slot, ppc, item, tail, cpc, text, pc, turn>>
    BY DEF Generate, linuxVars, ringVars, producerVars, consumerVars, clientVars
<1>3. text["server"] = Bytes(Prompt(turn)) /\ Serving
    BY <1>2 DEF PayloadOfTurn, Serving
<1>4. turn \in 1 .. Turns
    <2>1. turn = tail["resp"] + 1 /\ tail["resp"] \in Nat
        BY <1>1, <1>3, Shape, ClientWaits
    <2> QED
        BY <1>1, <2>1, TurnTypes, Sizes
<1>5. ReplyText(text["server"]) = ReplyTo(turn)
    BY <1>3, <1>4, PromptsDiffer
<1>6. Reserve("server", ReplyTo(turn)) /\ ReplyTo(turn) \in Texts
    BY <1>4, <1>5, Sizes, TextTypes DEF Generate
<1>7. /\ writing'["server"] # None /\ writing'["server"].text = ReplyTo(turn)
      /\ ~writing'["server"].filled
      /\ writing'["client"] = writing["client"] /\ pool' = pool
    BY <1>1, <1>6, ReserveEffect
<1>8. TurnByTurn'
    BY <1>2, <1>3, <1>7, ClientWaits DEF TurnByTurn, Closing, Serving, InTransit
<1>9. PayloadOfTurn'
    BY <1>2, <1>7
       DEF PayloadOfTurn, Copied, Closing, Current, OldestRequest, OldestResponse
<1> QED
    BY <1>5, <1>8, <1>9

LEMMA EnqueuesResponse ==
    ASSUME SessionInv, TurnByTurn, PayloadOfTurn, EnqueueResponse
    PROVE  TurnByTurn' /\ PayloadOfTurn'
<1> USE Rings
<1>1. Types /\ Control
    BY DEF SessionInv
<1>2. /\ writing["server"] # None /\ writing["server"].filled
      /\ writing'["server"] = None
      /\ writing'["client"] = writing["client"] /\ pool' = pool
    BY <1>1, AdvanceEffect DEF EnqueueResponse, StartEnqueue, Advance
<1>3. /\ ppc["resp"] = "idle" /\ ppc'["resp"] = "waiting"
      /\ ppc'["req"] = ppc["req"] /\ item'["req"] = item["req"]
      /\ item'["resp"] = DescriptorFor("server", seq)
      /\ UNCHANGED <<head, slot, tail, cpc, text, spc, pc, turn>>
    BY <1>1, Shape DEF EnqueueResponse, StartEnqueue, EnqueueCall, consumerVars,
                       clientVars, serverVars
<1>4. Serving /\ Serving'
    BY <1>2, <1>3 DEF Serving, InTransit
<1>5. TurnByTurn'
    BY <1>2, <1>3, <1>4 DEF TurnByTurn, Closing, InTransit
<1>6. Holds(pool, item'["resp"], ReplyTo(turn))
    BY <1>1, <1>2, <1>3 DEF PayloadOfTurn, Copied, Holds, DescriptorFor
<1>7. PayloadOfTurn'
    BY <1>2, <1>3, <1>6
       DEF PayloadOfTurn, Copied, Closing, Current, OldestRequest, OldestResponse
<1> QED
    BY <1>5, <1>7

LEMMA SendsResponse ==
    ASSUME SessionInv, TurnByTurn, PayloadOfTurn, ResponseSent
    PROVE  TurnByTurn' /\ PayloadOfTurn'
<1> USE Rings
<1>1. Types /\ Control
    BY DEF SessionInv
<1>2. /\ ppc["resp"] = "published" /\ ppc'["resp"] = "idle"
      /\ ppc'["req"] = ppc["req"] /\ spc' = "receiving"
      /\ UNCHANGED <<head, slot, item, tail, cpc, text, pc, turn, writing, pool>>
    BY <1>1, Shape DEF ResponseSent, EndEnqueue, Notify, EnqueueReturn, consumerVars,
                       poolVars, clientVars
<1>3. spc = "replying" /\ writing["server"] = None
    BY <1>1, <1>2 DEF Control
<1>4. TurnByTurn'
    BY <1>2, <1>3 DEF TurnByTurn, Closing, Serving, InTransit
<1>5. PayloadOfTurn'
    BY <1>2, <1>3
       DEF PayloadOfTurn, Copied, Closing, Current, OldestRequest, OldestResponse
<1> QED
    BY <1>4, <1>5

\* A copy into the pool: whoever makes it, no other payload is needed any more.
LEMMA FillsPool ==
    ASSUME SessionInv, TurnByTurn, PayloadOfTurn, NEW p \in Process, FillOne(p)
    PROVE  TurnByTurn' /\ PayloadOfTurn'
<1> USE Rings
<1>1. Types /\ Control
    BY DEF SessionInv
<1>t. /\ head["req"] \in Nat /\ head["resp"] \in Nat
      /\ tail["req"] \in Nat /\ tail["resp"] \in Nat
    BY <1>1, Shape
<1>2. UNCHANGED <<head, slot, ppc, item, tail, cpc, text, pc, turn, spc>>
    BY DEF FillOne, linuxVars, ringVars, producerVars, consumerVars, clientVars,
           serverVars
<1>3. /\ writing[p] # None /\ writing'[p] # None
      /\ writing'[p].text = writing[p].text /\ writing'[p].off = writing[p].off
      /\ \A q \in Process : q # p => writing'[q] = writing[q]
    BY <1>1, FillEffect DEF FillOne
<1>4. \A k \in 1 .. Size[writing[p].text] :
         pool'[writing[p].off + k - 1] = <<writing[p].text, k>>
    BY <1>1, FillCopies DEF FillOne
<1>5. \A q \in Process : writing'[q] # None <=> writing[q] # None
    BY <1>3
<1>6. TurnByTurn'
    BY <1>2, <1>5 DEF TurnByTurn, Closing, Serving, InTransit
<1>7. \A q \in Process : q # p => writing[q] = None
    <2>1. CASE p = "client"
        BY <1>3, <2>1, AllAnswered DEF InTransit, Serving
    <2>2. CASE p = "server"
        BY <1>3, <2>2, ClientWaits DEF InTransit, Serving
    <2> QED
        BY <2>1, <2>2
<1>8. /\ ppc["req"] \notin {"waiting", "written"}
      /\ ppc["resp"] \notin {"waiting", "written"}
      /\ ~(head["req"] > tail["req"]) /\ ~(head["resp"] > tail["resp"])
    <2>1. CASE p = "client"
        BY <1>1, <1>t, <1>3, <2>1, AllAnswered DEF InTransit, Serving, Control
    <2>2. CASE p = "server"
        BY <1>1, <1>t, <1>3, <2>2, ClientWaits DEF InTransit, Serving, Control
    <2> QED
        BY <2>1, <2>2
<1>9. PayloadOfTurn'
    <2>1. \A q \in Process : writing'[q] # None /\ writing'[q].filled => Copied(q)'
        BY <1>3, <1>4, <1>7 DEF Copied
    <2>2. writing'["server"] # None => writing'["server"].text = ReplyTo(turn)
        BY <1>3 DEF PayloadOfTurn
    <2>3. UNCHANGED <<Current, Closing>>
        BY <1>2 DEF Current, Closing
    <2>4. UNCHANGED <<Prompt(turn), ReplyTo(turn)>>
        BY <1>2
    <2> QED
        BY <1>2, <1>8, <2>1, <2>2, <2>3, <2>4 DEF PayloadOfTurn
<1> QED
    BY <1>6, <1>9

LEMMA FillsSlot ==
    ASSUME SessionInv, TurnByTurn, PayloadOfTurn, NEW r \in Ring, RingStep(r),
           WriteDescriptor(r) \/ WriteDescriptorLinux(r)
    PROVE  TurnByTurn' /\ PayloadOfTurn'
<1> USE Rings
<1>1. Types /\ Control /\ RingsOK
    BY DEF SessionInv
<1>t. /\ head["req"] \in Nat /\ head["resp"] \in Nat
      /\ tail["req"] \in Nat /\ tail["resp"] \in Nat
    BY <1>1, Shape
<1>2. /\ ppc[r] = "waiting" /\ ppc'[r] = "written"
      /\ \A q \in Ring : q # r => ppc'[q] = ppc[q] /\ slot'[q] = slot[q]
      /\ UNCHANGED <<head, item, tail, cpc, text, pc, turn, spc, writing, pool>>
    BY <1>1, Shape DEF WriteDescriptor, WriteDescriptorLinux, consumerVars,
                       RingStep, poolVars, clientVars, serverVars, Types, RingTypeOK
<1>3. TurnByTurn'
    BY <1>2 DEF TurnByTurn, Closing, Serving, InTransit
<1>4. ~(head[r] > tail[r])
    <2>1. CASE r = "req"
        BY <1>t, <1>2, <2>1, AllAnswered DEF InTransit
    <2>2. CASE r = "resp"
        BY <1>t, <1>2, <2>2, ClientWaits DEF InTransit, Serving
    <2> QED
        BY <2>1, <2>2
<1>5. PayloadOfTurn'
    BY <1>2, <1>4
       DEF PayloadOfTurn, Copied, Closing, Current, OldestRequest, OldestResponse
<1> QED
    BY <1>3, <1>5

LEMMA Publishes ==
    ASSUME SessionInv, TurnByTurn, PayloadOfTurn, NEW r \in Ring, RingStep(r), Publish(r)
    PROVE  TurnByTurn' /\ PayloadOfTurn'
<1> USE Rings
<1>1. Types /\ Control /\ RingsOK
    BY DEF SessionInv
<1>t. /\ head["req"] \in Nat /\ head["resp"] \in Nat
      /\ tail["req"] \in Nat /\ tail["resp"] \in Nat
    BY <1>1, Shape
<1>2. /\ ppc[r] = "written" /\ ppc'[r] = "published"
      /\ head'[r] = head[r] + 1 /\ slot[r][SlotOf(head[r])] = item[r]
      /\ \A q \in Ring : q # r => ppc'[q] = ppc[q] /\ head'[q] = head[q]
      /\ UNCHANGED <<slot, item, tail, cpc, text, pc, turn, spc, writing, pool>>
    BY <1>1, Shape DEF Publish, consumerVars, RingStep, poolVars, clientVars,
                       serverVars, RingsOK
<1>3. writing["client"] = None \/ r = "resp"
    BY <1>1, <1>2 DEF Control
<1>4. CASE r = "req"
    <2>1. /\ head["resp"] = tail["resp"] /\ tail["req"] = tail["resp"]
          /\ head["req"] = tail["resp"] /\ ~Serving /\ cpc["resp"] # "released"
        BY <1>2, <1>4, AllAnswered DEF InTransit
    <2>2. /\ spc # "stopped" /\ writing["client"] = None /\ pc # "idle"
          /\ pc # "receiving"
        BY <1>1, <1>2, <1>4 DEF TurnByTurn, InTransit, Control
    <2>3. TurnByTurn'
        BY <1>t, <1>2, <1>4, <2>1, <2>2 DEF TurnByTurn, Closing, Serving, InTransit
    <2>4. PayloadOfTurn'
        BY <1>2, <1>4, <2>1
           DEF PayloadOfTurn, Copied, Closing, Current, OldestRequest, OldestResponse
    <2> QED
        BY <2>3, <2>4
<1>5. CASE r = "resp"
    <2>1. Serving
        BY <1>2, <1>5 DEF Serving, InTransit
    <2>2. /\ head["resp"] = tail["resp"] /\ ~Closing
          /\ spc = "replying"
        BY <1>1, <1>2, <1>5, <2>1, ClientWaits DEF Control
    <2>3. TurnByTurn'
        BY <1>t, <1>2, <1>5, <2>1, <2>2 DEF TurnByTurn, Closing, Serving, InTransit
    <2>4. PayloadOfTurn'
        BY <1>2, <1>5, <2>2
           DEF PayloadOfTurn, Copied, Closing, Current, OldestRequest, OldestResponse
    <2> QED
        BY <2>3, <2>4
<1> QED
    BY <1>4, <1>5

LEMMA ReleasesSlot ==
    ASSUME SessionInv, TurnByTurn, PayloadOfTurn, NEW r \in Ring, RingStep(r), Release(r)
    PROVE  TurnByTurn' /\ PayloadOfTurn'
<1> USE Rings
<1>1. Types /\ Control /\ RingsOK
    BY DEF SessionInv
<1>t. /\ head["req"] \in Nat /\ head["resp"] \in Nat
      /\ tail["req"] \in Nat /\ tail["resp"] \in Nat
    BY <1>1, Shape
<1>2. /\ cpc[r] = "read" /\ cpc'[r] = "released"
      /\ head[r] > tail[r] /\ tail'[r] = tail[r] + 1
      /\ \A q \in Ring : q # r => cpc'[q] = cpc[q] /\ tail'[q] = tail[q]
      /\ UNCHANGED <<head, slot, ppc, item, text, pc, turn, spc, writing, pool>>
    BY <1>1, Shape DEF Release, producerVars, RingStep, poolVars, clientVars,
                       serverVars, RingsOK
<1>3. head[r] = tail[r] + 1
    BY <1>t, <1>2, OneTurn
<1>4. TurnByTurn'
    <2>1. CASE r = "req"
        BY <1>1, <1>t, <1>2, <1>3, <2>1
           DEF TurnByTurn, Closing, Serving, InTransit, Control
    <2>2. CASE r = "resp"
        <3>1. /\ pc = "receiving" /\ ~InTransit("client", "req")
            BY <1>1, <1>2, <2>2 DEF Control, InTransit
        <3> QED
            BY <1>t, <1>2, <1>3, <2>2, <3>1
               DEF TurnByTurn, Closing, Serving, InTransit
    <2> QED
        BY <2>1, <2>2
<1>5. PayloadOfTurn'
    BY <1>t, <1>2, <1>3
       DEF PayloadOfTurn, Copied, Closing, Current, OldestRequest, OldestResponse
<1> QED
    BY <1>4, <1>5

-----------------------------------------------------------------------------
(* The invariant holds *)

\* A dead server's ring of responses stays empty.
LEMMA StaysQuiet ==
    ASSUME SessionInv, Quiet, spc = "dead", [SessionNext]_vars
    PROVE  Quiet' /\ spc' = "dead"
<1> USE Rings
<1>1. Types /\ Control /\ RingsOK
    BY DEF SessionInv
<1>t. /\ head \in [Ring -> Nat] /\ tail \in [Ring -> Nat]
      /\ ppc \in [Ring -> {"idle", "waiting", "written", "published"}]
      /\ cpc \in [Ring -> {"idle", "selecting", "woken", "polling", "read",
                           "released"}]
    BY <1>1, Shape
<1>2. /\ writing["server"] = None /\ ppc["resp"] = "idle" /\ cpc["req"] = "idle"
    BY <1>1 DEF Control
<1>3. CASE ServerStep
    BY <1>1, <1>2, <1>3
       DEF ServerStep, AwaitRequest, CheckRequest, CheckCursors, ReadRequest, Take,
           TakeLinux, ReadDescriptor, RequestReturned, ReturnLinux, DequeueReturn,
           IdleTimeout, Expire, SelectTimeout, DequeueTimeout, Generate,
           GenerateRaises, EnqueueResponse, StartEnqueue, Advance, ResponseSent,
           EndEnqueue, Notify, EnqueueReturn
<1>4. CASE ClientStep
    <2>1. head' = head /\ spc' = spc
        BY <1>4, ClientLeaves DEF serverVars
    <2>2. tail'["resp"] = tail["resp"] /\ cpc'["resp"] \notin {"read", "released"}
        <3>1. CASE StartTurn \/ StartShutdown
            BY <1>t, <3>1 DEF Quiet, StartTurn, StartShutdown, linuxVars, ringVars,
                              consumerVars
        <3>2. CASE EnqueueRequest \/ RequestSent
            BY <1>t, <3>2 DEF Quiet, EnqueueRequest, StartEnqueue, EnqueueCall,
                              RequestSent, EndEnqueue, Notify, EnqueueReturn,
                              consumerVars
        <3>3. CASE AwaitResponse
            BY <1>t, <3>3 DEF Quiet, AwaitResponse, StartDequeue, Select, DequeueCall
        <3>4. CASE CheckResponse
            BY <1>t, <3>4 DEF Quiet, CheckResponse, CheckCursors
        <3>5. CASE ReadResponse
            BY <1>t, <1>1, <3>5 DEF Quiet, ReadResponse, Take, TakeLinux,
                                    ReadDescriptor, Available, RingsOK
        <3>6. CASE ResponseReturned
            BY <1>t, <3>6 DEF Quiet, ResponseReturned, ReturnLinux, DequeueReturn
        <3>7. CASE ResponseTimeout
            BY <1>t, <3>7 DEF Quiet, ResponseTimeout, Expire, SelectTimeout,
                              DequeueTimeout
        <3> QED
            BY <1>4, <3>1, <3>2, <3>3, <3>4, <3>5, <3>6, <3>7 DEF ClientStep
    <2> QED
        BY <2>1, <2>2 DEF Quiet
<1>5. ASSUME NEW p \in Process, FillOne(p)
      PROVE  Quiet' /\ spc' = "dead"
    BY <1>5 DEF FillOne, linuxVars, ringVars, producerVars, consumerVars, serverVars,
                Quiet
<1>6. ASSUME NEW r \in Ring, RingStep(r), Put(r)
      PROVE  Quiet' /\ spc' = "dead"
    <2>1. ppc[r] \in {"waiting", "written"}
        BY <1>6 DEF Put, WriteDescriptor, WriteDescriptorLinux, PublishLinux, Publish
    <2>2. r = "req"
        BY <1>2, <2>1
    <2>3. head'["resp"] = head["resp"] /\ UNCHANGED <<tail, cpc, spc>>
        BY <1>6, <1>t, <2>2
           DEF RingStep, Put, WriteDescriptor, WriteDescriptorLinux, PublishLinux,
               Publish, consumerVars, serverVars
    <2> QED
        BY <2>3 DEF Quiet
<1>7. ASSUME NEW r \in Ring, RingStep(r), Move(r)
      PROVE  Quiet' /\ spc' = "dead"
    <2>1. UNCHANGED <<head, spc>>
        BY <1>7 DEF RingStep, Move, Wake, ReleaseLinux, Release, producerVars,
                    serverVars
    <2>2. cpc[r] \in {"selecting", "read"}
        BY <1>7 DEF Move, Wake, ReleaseLinux, Release
    <2>3. cpc[r] # "read" /\ r = "resp"
        BY <1>2, <2>2 DEF Quiet
    <2>4. tail' = tail /\ cpc'["resp"] = "woken"
        BY <1>7, <1>t, <2>3 DEF Move, Wake, ReleaseLinux, Release
    <2> QED
        BY <2>1, <2>4 DEF Quiet
<1>8. CASE UNCHANGED vars
    BY <1>8 DEF vars, linuxVars, ringVars, producerVars, consumerVars, serverVars, Quiet
<1> QED
    BY <1>3, <1>4, <1>5, <1>6, <1>7, <1>8 DEF SessionNext, RingStep, Finished

\* On Linux, a woken dequeue finds a descriptor.
LEMMA WokenFinds ==
    ASSUME SessionInv, SessionWakeups, NEW r \in Ring, CheckCursors(r), Linux
    PROVE  ~Empty(r)
<1>1. cpc[r] = "woken" /\ WakeupsMatch
    BY DEF CheckCursors, SessionWakeups
<1>2. head[r] \in Nat /\ tail[r] \in Nat /\ evt[r] \in Nat
    BY DEF SessionInv, Types, RingTypeOK
<1>3. head[r] - tail[r] = evt[r] + (IF ppc[r] = "published" THEN 1 ELSE 0) + 1
    BY <1>1 DEF WakeupsMatch
<1> QED
    BY <1>2, <1>3 DEF Empty

LEMMA LiveClient ==
    ASSUME SessionInv, SessionWakeups, Timely, TurnByTurn, PayloadOfTurn,
           spc # "dead", ClientStep
    PROVE  TurnByTurn' /\ PayloadOfTurn'
<1> USE Rings
<1>1. Types /\ Control
    BY DEF SessionInv
<1>t. cpc \in [Ring -> {"idle", "selecting", "woken", "polling", "read", "released"}]
    BY <1>1, Shape
<1>2. CASE AwaitResponse
    BY <1>t, <1>2, WaitFrame
       DEF AwaitResponse, StartDequeue, Select, DequeueCall, producerVars,
           clientVars, serverVars, poolVars
<1>3. CASE CheckResponse
    <2>1. ~Empty("resp")
        BY <1>3, WokenFinds DEF CheckResponse
    <2> QED
        BY <1>t, <1>3, <2>1, WaitFrame
           DEF CheckResponse, CheckCursors, producerVars, serverVars, poolVars
\* The server ends in a timely session only once the client is done.
<1>4. ~ResponseTimeout
    <2>1. SUFFICES ASSUME ResponseTimeout
                   PROVE  FALSE
        OBVIOUS
    <2>2. spc = "stopped" /\ cpc["resp"] \in {"selecting", "polling"}
        BY <2>1 DEF ResponseTimeout, ServerEnded, Expire, SelectTimeout, DequeueTimeout
    <2> QED
        BY <1>1, <2>2 DEF TurnByTurn, Control, Closing
<1> QED
    BY <1>2, <1>3, <1>4, StartsTurn, EnqueuesRequest, SendsRequest, ReadsResponse,
       ReturnsResponse
       DEF ClientStep

LEMMA LiveServer ==
    ASSUME SessionInv, SessionWakeups, Timely, TurnByTurn, PayloadOfTurn,
           spc # "dead", ServerStep
    PROVE  IF spc' = "dead" THEN Quiet' ELSE TurnByTurn' /\ PayloadOfTurn'
<1> USE Rings
<1>1. Types /\ Control /\ ResponsesCounted
    BY DEF SessionInv
<1>t. /\ cpc \in [Ring -> {"idle", "selecting", "woken", "polling", "read",
                           "released"}]
      /\ head["req"] \in Nat /\ head["resp"] \in Nat
      /\ tail["req"] \in Nat /\ tail["resp"] \in Nat
    BY <1>1, Shape
<1>2. CASE AwaitRequest
    BY <1>t, <1>2, WaitFrame
       DEF AwaitRequest, StartDequeue, Select, DequeueCall, producerVars,
           clientVars, serverVars, poolVars
<1>3. CASE CheckRequest
    <2>1. ~Empty("req")
        BY <1>3, WokenFinds DEF CheckRequest
    <2> QED
        BY <1>t, <1>3, <2>1, WaitFrame
           DEF CheckRequest, CheckCursors, producerVars, clientVars, poolVars
\* The client's shutdown comes before the deadline does.
<1>4. ~IdleTimeout
    <2>1. SUFFICES ASSUME IdleTimeout
                   PROVE  FALSE
        OBVIOUS
    <2>2. /\ pc = "done" /\ head["req"] = tail["req"]
          /\ cpc["req"] \in {"selecting", "polling"}
        BY <2>1 DEF IdleTimeout, Expire, SelectTimeout, DequeueTimeout
    <2>3. spc = "receiving" /\ ~InTransit("client", "req")
        BY <1>1, <2>2 DEF Control, InTransit
    <2>4. tail["req"] = head["resp"] /\ head["resp"] = head["req"] - 1
        BY <1>1, <1>t, <2>2, <2>3 DEF ResponsesCounted, TurnByTurn, Closing
    <2> QED
        BY <1>t, <2>2, <2>4
<1>5. CASE GenerateRaises
    <2>1. Serving /\ UNCHANGED <<head, tail, cpc>> /\ spc' = "dead"
        BY <1>5 DEF GenerateRaises, Serving, linuxVars, ringVars, producerVars,
                    consumerVars
    <2> QED
        BY <2>1, ClientWaits DEF Quiet
<1>6. ASSUME ~GenerateRaises, ~AwaitRequest, ~CheckRequest
      PROVE  TurnByTurn' /\ PayloadOfTurn'
    BY <1>4, <1>6, ReadsRequest, ReturnsRequest, Generates,
       EnqueuesResponse, SendsResponse
       DEF ServerStep
<1>7. ~GenerateRaises => spc' # "dead"
    BY DEF ServerStep, AwaitRequest, CheckRequest, ReadRequest, RequestReturned,
           IdleTimeout, Generate, EnqueueResponse, ResponseSent, serverVars
<1> QED
    BY <1>2, <1>3, <1>5, <1>6, <1>7

LEMMA LiveStep ==
    ASSUME SessionInv, SessionWakeups, Timely, TurnByTurn, PayloadOfTurn,
           spc # "dead", [SessionNext]_vars
    PROVE  IF spc' = "dead" THEN Quiet' ELSE TurnByTurn' /\ PayloadOfTurn'
<1> USE Rings
<1>1. CASE ClientStep
    BY <1>1, LiveClient, ClientLeaves DEF serverVars
<1>2. CASE ServerStep
    BY <1>2, LiveServer
<1>3. ASSUME NEW p \in Process, FillOne(p)
      PROVE  TurnByTurn' /\ PayloadOfTurn' /\ spc' = spc
    BY <1>3, FillsPool DEF FillOne, serverVars
<1>4. ASSUME NEW r \in Ring, RingStep(r), ~Wake(r)
      PROVE  TurnByTurn' /\ PayloadOfTurn' /\ spc' = spc
    BY <1>4, FillsSlot, Publishes, ReleasesSlot
       DEF RingStep, Put, PublishLinux, Move, ReleaseLinux, serverVars
<1>5. ASSUME NEW r \in Ring, RingStep(r), Wake(r)
      PROVE  TurnByTurn' /\ PayloadOfTurn' /\ spc' = spc
    <2>1. cpc \in [Ring -> {"idle", "selecting", "woken", "polling", "read",
                            "released"}]
        BY Shape DEF SessionInv
    <2> QED
        BY <1>5, <2>1, WaitFrame
           DEF RingStep, Wake, producerVars, clientVars, serverVars, poolVars
<1>6. CASE UNCHANGED vars
    <2>1. TurnByTurn' /\ PayloadOfTurn'
        BY <1>6, WaitFrame DEF vars, linuxVars, ringVars, producerVars, consumerVars,
                               clientVars, serverVars, poolVars
    <2> QED
        BY <1>6, <2>1 DEF vars, serverVars
<1> QED
    BY <1>1, <1>2, <1>3, <1>4, <1>5, <1>6 DEF SessionNext, Finished

-----------------------------------------------------------------------------
(* What send returned *)

LEMMA SameAnswers ==
    ASSUME ReplyMatchesRequest, OutcomesCounted, Timely,
           UNCHANGED <<outcome, turn, pc>>
    PROVE  ReplyMatchesRequest' /\ OutcomesCounted'
BY DEF ReplyMatchesRequest, OutcomesCounted

\* The turn under way ends with its own reply, or with nothing.
LEMMA AnswerCounted ==
    ASSUME SessionInv, Timely, ReplyMatchesRequest, OutcomesCounted,
           pc = "receiving", pc' = "idle", turn' = turn,
           NEW reply, NEW since, Returned(reply, since),
           \/ reply = Nothing /\ since = None
           \/ reply = Bytes(ReplyTo(turn)) /\ since = turn - 1
    PROVE  ReplyMatchesRequest' /\ OutcomesCounted'
<1> DEFINE res == [reply |-> reply, since |-> since]
<1>1. turn \in Nat /\ outcome \in Seq(Result)
    BY TurnTypes DEF SessionInv, Types, ClientTypes
<1>2. Len(outcome) = turn - 1
    BY DEF OutcomesCounted
<1>3. outcome' = Append(outcome, res)
    BY DEF Returned
<1>4. res \in {[reply |-> Bytes(ReplyTo(turn)), since |-> turn - 1],
               [reply |-> Nothing, since |-> None]}
    OBVIOUS
<1> HIDE DEF res
<1>5. Len(outcome') = turn
    BY <1>1, <1>2, <1>3
<1>6. ASSUME NEW t \in 1 .. Len(outcome')
      PROVE  outcome'[t] \in {[reply |-> Bytes(ReplyTo(t)), since |-> t - 1],
                              [reply |-> Nothing, since |-> None]}
    <2>1. CASE t = turn
        <3>1. outcome'[t] = res
            BY <1>1, <1>2, <1>3, <2>1
        <3> QED
            BY <1>4, <2>1, <3>1
    <2>2. CASE t # turn
        <3>1. t \in 1 .. Len(outcome)
            BY <1>1, <1>2, <1>5, <1>6, <2>2
        <3>2. outcome'[t] = outcome[t]
            BY <1>1, <1>3, <3>1
        <3> QED
            BY <3>1, <3>2 DEF ReplyMatchesRequest
    <2> QED
        BY <2>1, <2>2
<1> QED
    BY <1>1, <1>5, <1>6 DEF ReplyMatchesRequest, OutcomesCounted

LEMMA AnswersClient ==
    ASSUME ChatInv, Timely, ClientStep
    PROVE  ReplyMatchesRequest' /\ OutcomesCounted'
<1> USE Rings
<1>1. /\ SessionInv /\ Types /\ Control /\ RequestsCounted /\ SessionWakeups
      /\ ReplyMatchesRequest /\ OutcomesCounted
      /\ IF spc = "dead" THEN Quiet ELSE TurnByTurn /\ PayloadOfTurn
    BY DEF ChatInv, SessionInv
<1>t. /\ turn \in Nat /\ outcome \in Seq(Result)
      /\ Timely' = Timely
    BY <1>1, TurnTypes DEF Types, ClientTypes, ClientStep, Timely
<1>2. CASE StartTurn
    BY <1>1, <1>t, <1>2 DEF StartTurn, ReplyMatchesRequest, OutcomesCounted
<1>3. CASE StartShutdown
    BY <1>1, <1>t, <1>3 DEF StartShutdown, ReplyMatchesRequest, OutcomesCounted
<1>4. CASE RequestSent
    <2>1. pc \in {"sending", "closing"} /\ pc' = IF pc = "closing" THEN "done" ELSE "receiving"
        BY <1>1, <1>4 DEF RequestSent, EndEnqueue, Notify, EnqueueReturn, Control
    <2> QED
        BY <1>1, <1>4, <2>1 DEF RequestSent, ReplyMatchesRequest, OutcomesCounted
<1>5. CASE EnqueueRequest \/ AwaitResponse \/ ReadResponse
    BY <1>1, <1>5, SameAnswers
       DEF EnqueueRequest, AwaitResponse, ReadResponse, clientVars
<1>6. CASE CheckResponse
    <2>1. ~Empty("resp")
        BY <1>1, <1>6, WokenFinds DEF CheckResponse
    <2> QED
        BY <1>1, <1>6, <2>1, SameAnswers DEF CheckResponse
<1>7. CASE ResponseReturned
    <2>1. cpc["resp"] = "released" /\ pc' = "idle" /\ turn' = turn
        BY <1>7 DEF ResponseReturned, ReturnLinux, DequeueReturn
    <2>2. pc = "receiving" /\ lastRequest = turn - 1
        BY <1>1, <2>1 DEF Control, RequestsCounted
    <2>3. text["client"] = Bytes(ReplyTo(turn))
        BY <1>1, <2>1 DEF Quiet, PayloadOfTurn
    <2> QED
        BY <1>1, <1>7, <2>1, <2>2, <2>3, AnswerCounted DEF ResponseReturned
<1>8. CASE ResponseTimeout
    <2>1. /\ cpc["resp"] \in {"selecting", "polling"} /\ pc' = "idle" /\ turn' = turn
          /\ Returned(Nothing, None)
        BY <1>8 DEF ResponseTimeout, Expire, SelectTimeout, DequeueTimeout
    <2>2. pc = "receiving"
        BY <1>1, <2>1 DEF Control
    <2> QED
        BY <1>1, <2>1, <2>2, AnswerCounted
<1> QED
    BY <1>2, <1>3, <1>4, <1>5, <1>6, <1>7, <1>8 DEF ClientStep

LEMMA AnswersStep ==
    ASSUME ChatInv, Timely, [SessionNext]_vars
    PROVE  ReplyMatchesRequest' /\ OutcomesCounted'
<1>1. SessionInv /\ ReplyMatchesRequest /\ OutcomesCounted
    BY DEF ChatInv
<1>2. CASE ServerStep
    BY <1>1, <1>2, ServerLeaves, SameAnswers DEF clientVars
<1>3. ASSUME UNCHANGED clientVars
      PROVE  ReplyMatchesRequest' /\ OutcomesCounted'
    BY <1>1, <1>3, SameAnswers DEF clientVars
<1> QED
    BY <1>2, <1>3, AnswersClient DEF SessionNext, FillOne, RingStep, Finished, vars

LEMMA WakeupsKept ==
    ASSUME SessionInv, SessionWakeups, [SessionNext]_vars
    PROVE  SessionWakeups'
<1> SUFFICES ASSUME Linux'
             PROVE  WakeupsMatch'
    BY DEF SessionWakeups
<1>1. Linux /\ PlatformStep
    BY SessionRings DEF Linux
<1> QED
    BY <1>1, WakeupsStep DEF SessionWakeups, PlatformStep, SessionInv, Types

LEMMA ChatInvInit == SessionInit => ChatInv
<1> SUFFICES ASSUME SessionInit
             PROVE  ChatInv
    OBVIOUS
<1>1. /\ \A r \in Ring : head[r] = 0 /\ tail[r] = 0 /\ ppc[r] = "idle" /\ cpc[r] = "idle"
      /\ Ring = {"req", "resp"} /\ Process = {"client", "server"}
    BY Rings DEF SessionInit, LinuxInit, Init
<1>2. SessionInv /\ SessionWakeups
    BY SessionInvInit DEF SessionWakeups
<1>3. ReplyMatchesRequest /\ OutcomesCounted
    <2>1. outcome = <<>> /\ Len(outcome) = 0 /\ turn = 0 /\ pc = "idle"
        BY DEF SessionInit
    <2>2. 1 .. 0 = {} /\ 0 - 0 = 0
        OBVIOUS
    <2>3. ReplyMatchesRequest
        BY <2>1, <2>2 DEF ReplyMatchesRequest
    <2>4. OutcomesCounted
        BY <2>1, <2>2 DEF OutcomesCounted
    <2> QED
        BY <2>3, <2>4
<1>4. TurnByTurn /\ PayloadOfTurn
    BY <1>1 DEF SessionInit, TurnByTurn, PayloadOfTurn, InTransit, Closing, Serving
<1> QED
    BY <1>2, <1>3, <1>4 DEF ChatInv, SessionInit

LEMMA ChatInvStep == ChatInv /\ [SessionNext]_vars => ChatInv'
<1> SUFFICES ASSUME ChatInv, [SessionNext]_vars
             PROVE  ChatInv'
    OBVIOUS
<1>1. SessionInv' /\ SessionWakeups'
    BY SessionInvStep, WakeupsKept DEF ChatInv
<1>2. Timely' = Timely
    BY SessionRings DEF ChatInv, Timely
<1>3. CASE Timely
    <2>1. IF spc' = "dead" THEN Quiet' ELSE TurnByTurn' /\ PayloadOfTurn'
        BY <1>3, LiveStep, StaysQuiet DEF ChatInv
    <2> QED
        BY <1>1, <1>3, <2>1, AnswersStep DEF ChatInv
<1> QED
    BY <1>1, <1>2, <1>3 DEF ChatInv

-----------------------------------------------------------------------------
(* The theorems for the sessions in time *)

\* The inductive invariant of a session in time: one turn at a time, with its
\* payload whole wherever it is.
THEOREM ChatInvariant == SessionSpec => []ChatInv
BY ChatInvInit, ChatInvStep, PTL DEF SessionSpec

\* Whatever the model does and whenever it fails, a turn of a timely session
\* ends with the reply to its own prompt, byte for byte, or with nothing.
THEOREM RepliesMatch == SessionSpec => []ReplyMatchesRequest
<1>1. ChatInv => ReplyMatchesRequest
    BY DEF ChatInv, ReplyMatchesRequest
<1> QED
    BY <1>1, ChatInvariant, PTL

\* As long as the server lives, both rings hold at most the turn's own
\* descriptor and its payload is whole in the pool.
THEOREM PoolSafe == SessionSpec => []PayloadsIntact
<1>1. ASSUME ChatInv, spc # "dead", Timely, NEW r \in Ring,
             NEW i \in 1 .. head[r] - tail[r]
      PROVE  \E t \in Texts : ReadData(Unread[r][i]) = Bytes(t)
    <2>1. SessionInv /\ Types /\ TurnByTurn /\ PayloadOfTurn /\ RequestsCounted
        BY <1>1 DEF ChatInv, SessionInv
    <2>2. /\ head["req"] \in Nat /\ head["resp"] \in Nat
          /\ tail["req"] \in Nat /\ tail["resp"] \in Nat
          /\ Ring = {"req", "resp"}
          /\ turn \in 0 .. Turns /\ Turns \in Nat
        BY <2>1, Shape, TurnTypes, Sizes
    <2>3. i = 1 /\ head[r] > tail[r]
        BY <2>1, <2>2, OneTurn
    <2>4. Unread[r][i] = slot[r][SlotOf(tail[r])]
        BY <2>2, <2>3 DEF Unread
    <2>5. CASE r = "req"
        <3>1. turn = 0 => Closing
            BY <2>1, <2>2, <2>3, <2>5 DEF RequestsCounted
        <3>2. Current \in Texts
            BY <2>2, <3>1, TextTypes DEF Current
        <3> QED
            BY <2>1, <2>3, <2>4, <2>5, <3>2, HoldsReads DEF PayloadOfTurn, OldestRequest
    <2>6. CASE r = "resp"
        <3>1. ReplyTo(turn) \in Texts
            BY <2>2, TextTypes
        <3> QED
            BY <2>1, <2>3, <2>4, <2>6, <3>1, HoldsReads DEF PayloadOfTurn, OldestResponse
    <2> QED
        BY <2>2, <2>5, <2>6
<1>2. ChatInv => PayloadsIntact
    BY <1>1 DEF PayloadsIntact
<1> QED
    BY <1>2, ChatInvariant, PTL

-----------------------------------------------------------------------------
(* A timely session implements Chat *)

\* What the model has been shown and has answered.
HistoryCounted ==
    spc # "dead" =>
        Len(history) =
            2 * head["resp"] + (IF spc = "generating" THEN 1
                                ELSE IF InTransit("server", "resp") THEN 2 ELSE 0)

ConversationInv ==
    ChatInv /\ HistoryCounted /\ (spc = "dead" => BackendFails)

LEMMA HistoryFrame ==
    ASSUME HistoryCounted, UNCHANGED <<spc, history>>,
           head'["resp"] = head["resp"], ppc'["resp"] = ppc["resp"],
           writing'["server"] # None <=> writing["server"] # None
    PROVE  HistoryCounted'
BY DEF HistoryCounted, InTransit

LEMMA HistoryServer ==
    ASSUME SessionInv, HistoryCounted, spc = "dead" => BackendFails, ServerStep
    PROVE  HistoryCounted' /\ (spc' = "dead" => BackendFails)
<1> USE Rings
<1>1. Types /\ Control
    BY DEF SessionInv
<1>2. /\ ppc \in [Ring -> {"idle", "waiting", "written", "published"}]
      /\ head["resp"] \in Nat /\ history \in Seq(Body) /\ text["server"] \in Body
    BY <1>1, Shape DEF Types, ServerTypes
<1>3. head' = head
    BY ServerLeaves
<1>4. CASE AwaitRequest \/ ReadRequest
    BY <1>3, <1>4, HistoryFrame
       DEF AwaitRequest, StartDequeue, Select, DequeueCall, ReadRequest, Take,
           TakeLinux, ReadDescriptor, producerVars, serverVars, poolVars
<1>5. CASE CheckRequest \/ IdleTimeout
    <2>1. cpc["req"] # "idle"
        BY <1>5 DEF CheckRequest, CheckCursors, IdleTimeout, Expire, SelectTimeout,
                    DequeueTimeout
    <2>2. /\ spc = "receiving" /\ spc' \in {"receiving", "stopped"}
          /\ UNCHANGED <<ppc, writing, history>>
        BY <1>1, <1>5, <2>1
           DEF CheckRequest, CheckCursors, IdleTimeout, Expire, SelectTimeout,
               DequeueTimeout, producerVars, poolVars, Control
    <2> QED
        BY <1>3, <2>2 DEF HistoryCounted, InTransit
<1>6. CASE RequestReturned
    <2>1. cpc["req"] = "released" /\ UNCHANGED <<ppc, writing>>
        BY <1>6 DEF RequestReturned, ReturnLinux, DequeueReturn, producerVars, poolVars
    <2>2. spc = "receiving" /\ ~InTransit("server", "resp")
        BY <1>1, <2>1 DEF Control, InTransit
    <2>3. Len(Append(history, text["server"])) = Len(history) + 1
        BY <1>2
    <2> QED
        BY <1>2, <1>3, <1>6, <2>1, <2>2, <2>3
           DEF RequestReturned, HistoryCounted, InTransit
<1>7. CASE Generate
    <2> DEFINE b == Bytes(ReplyText(text["server"]))
    <2>1. /\ spc = "generating" /\ spc' = "replying" /\ ppc' = ppc
          /\ history' = Append(history, b)
        BY <1>7 DEF Generate, linuxVars, ringVars, producerVars
    <2>2. writing'["server"] # None
        BY <1>1, <1>7, ReplyTextType, ReserveEffect DEF Generate
    <2>3. b \in Body
        BY ReplyTextType, BytesType
    <2> HIDE DEF b
    <2>4. Len(history') = Len(history) + 1
        BY <1>2, <2>1, <2>3
    <2> QED
        BY <1>2, <1>3, <2>1, <2>2, <2>4 DEF HistoryCounted, InTransit
<1>8. CASE GenerateRaises
    BY <1>8 DEF GenerateRaises, HistoryCounted
<1>9. CASE EnqueueResponse
    <2>1. writing["server"] # None /\ writing'["server"] = None
        BY <1>1, <1>9, AdvanceEffect DEF EnqueueResponse, StartEnqueue
    <2>2. ppc'["resp"] = "waiting" /\ UNCHANGED <<spc, history>>
        BY <1>2, <1>9 DEF EnqueueResponse, StartEnqueue, EnqueueCall, serverVars
    <2> QED
        BY <1>3, <2>1, <2>2 DEF HistoryCounted, InTransit
<1>10. CASE ResponseSent
    <2>1. /\ ppc["resp"] = "published" /\ ppc'["resp"] = "idle"
          /\ spc' = "receiving" /\ UNCHANGED <<history, writing>>
        BY <1>2, <1>10 DEF ResponseSent, EndEnqueue, Notify, EnqueueReturn, poolVars
    <2>2. spc = "replying"
        BY <1>1, <2>1 DEF Control
    <2> QED
        BY <1>3, <2>1, <2>2 DEF HistoryCounted, InTransit
<1>11. ~GenerateRaises => spc' # "dead" \/ spc' = spc
    BY DEF ServerStep, AwaitRequest, CheckRequest, ReadRequest, RequestReturned,
           IdleTimeout, Generate, EnqueueResponse, ResponseSent, serverVars
<1> QED
    BY <1>4, <1>5, <1>6, <1>7, <1>8, <1>9, <1>10, <1>11
       DEF ServerStep, GenerateRaises

LEMMA HistoryStep ==
    ASSUME SessionInv, HistoryCounted, spc = "dead" => BackendFails,
           [SessionNext]_vars
    PROVE  HistoryCounted' /\ (spc' = "dead" => BackendFails')
<1> USE Rings
<1>1. Types /\ Control
    BY DEF SessionInv
<1>2. /\ ppc \in [Ring -> {"idle", "waiting", "written", "published"}]
      /\ head \in [Ring -> Nat]
    BY <1>1, Shape
<1>3. BackendFails' = BackendFails
    BY SessionRings DEF BackendFails
<1>4. ASSUME ClientStep
      PROVE  HistoryCounted' /\ spc' = spc
    BY <1>4, ClientLeaves, HistoryFrame DEF serverVars
<1>5. ASSUME NEW p \in Process, FillOne(p)
      PROVE  HistoryCounted' /\ spc' = spc
    <2>1. writing'["server"] # None <=> writing["server"] # None
        BY <1>1, <1>5, FillEffect DEF FillOne
    <2> QED
        BY <1>5, <2>1, HistoryFrame
           DEF FillOne, linuxVars, ringVars, producerVars, serverVars
<1>6. ASSUME NEW r \in Ring, RingStep(r)
      PROVE  HistoryCounted' /\ spc' = spc
    <2>1. UNCHANGED <<spc, history, writing>>
        BY <1>6 DEF RingStep, serverVars, poolVars
    <2>2. CASE r = "resp" /\ Publish(r)
        <3>1. /\ ppc["resp"] = "written" /\ ppc'["resp"] = "published"
              /\ head'["resp"] = head["resp"] + 1
            BY <1>2, <2>2 DEF Publish
        <3>2. spc = "replying" /\ writing["server"] = None
            BY <1>1, <3>1 DEF Control
        <3>3. 2 * (head["resp"] + 1) = 2 * head["resp"] + 2
            BY <1>2
        <3> QED
            BY <2>1, <3>1, <3>2, <3>3, <1>2 DEF HistoryCounted, InTransit
    <2>3. CASE r = "resp" /\ (WriteDescriptor(r) \/ WriteDescriptorLinux(r))
        <3>1. /\ ppc["resp"] = "waiting" /\ ppc'["resp"] = "written" /\ head' = head
            BY <1>2, <2>3 DEF WriteDescriptor, WriteDescriptorLinux
        <3> QED
            BY <2>1, <3>1 DEF HistoryCounted, InTransit
    <2>4. CASE r = "req" \/ Wake(r) \/ Release(r)
        <3>1. head'["resp"] = head["resp"] /\ ppc'["resp"] = ppc["resp"]
            BY <1>2, <1>6, <2>4
               DEF RingStep, Put, WriteDescriptor, WriteDescriptorLinux,
                   PublishLinux, Publish, Move, Wake, ReleaseLinux, Release,
                   producerVars
        <3> QED
            BY <2>1, <3>1, HistoryFrame
    <2> QED
        BY <1>6, <2>1, <2>2, <2>3, <2>4
           DEF RingStep, Put, PublishLinux, Move, ReleaseLinux
<1>7. ASSUME UNCHANGED vars
      PROVE  HistoryCounted' /\ spc' = spc
    BY <1>7, HistoryFrame
       DEF vars, linuxVars, ringVars, producerVars, serverVars, poolVars
<1> QED
    BY <1>3, <1>4, <1>5, <1>6, <1>7, HistoryServer DEF SessionNext, Finished, serverVars

LEMMA ConversationInvInit == SessionInit => ConversationInv
<1> SUFFICES ASSUME SessionInit
             PROVE  HistoryCounted
    BY ChatInvInit DEF SessionInit, ConversationInv
<1>1. /\ head["resp"] = 0 /\ ppc["resp"] = "idle" /\ history = <<>>
      /\ writing["server"] = None /\ spc = "receiving"
    BY Rings DEF SessionInit, LinuxInit, Init
<1>2. Len(history) = 0
    BY <1>1
<1> QED
    BY <1>1, <1>2 DEF HistoryCounted, InTransit

LEMMA ConversationInvStep ==
    ConversationInv /\ [SessionNext]_vars => ConversationInv'
BY ChatInvStep, HistoryStep DEF ConversationInv, ChatInv

\* What the client was given, as Chat's outcome.
Replies == [t \in 1 .. Len(outcome) |-> outcome[t].reply]

LEMMA RepliesGrow ==
    ASSUME outcome \in Seq(Result), NEW reply \in Body,
           NEW since \in 0 .. Turns \cup {None}, Returned(reply, since)
    PROVE  Replies' = Append(Replies, reply)
<1> DEFINE res == [reply |-> reply, since |-> since]
<1>1. res \in Result /\ res.reply = reply
    BY DEF Result
<1>2. outcome' = Append(outcome, res)
    BY DEF Returned
<1> HIDE DEF res
<1>3. /\ Len(outcome') = Len(outcome) + 1 /\ Len(outcome) \in Nat
      /\ outcome'[Len(outcome) + 1] = res
      /\ \A t \in 1 .. Len(outcome) : outcome'[t] = outcome[t] /\ outcome[t] \in Result
    BY <1>1, <1>2
<1>4. Replies \in Seq(Body) /\ Len(Replies) = Len(outcome)
    <2>1. Replies \in [1 .. Len(outcome) -> Body]
        BY <1>3 DEF Replies, Result
    <2> QED
        BY <1>3, <2>1 DEF Replies
<1>5. Append(Replies, reply) =
         [t \in 1 .. Len(outcome) + 1 |->
             IF t = Len(outcome) + 1 THEN reply ELSE Replies[t]]
    <2> DEFINE A == Append(Replies, reply)
    <2>1. A \in Seq(Body) /\ Len(A) = Len(outcome) + 1
        BY <1>4
    <2>2. \A t \in 1 .. Len(outcome) + 1 :
             A[t] = IF t = Len(outcome) + 1 THEN reply ELSE Replies[t]
        BY <1>3, <1>4
    <2> HIDE DEF A
    <2>3. A = [t \in 1 .. Len(outcome) + 1 |-> A[t]]
        BY <2>1
    <2> QED
        BY <2>2, <2>3 DEF A
<1>6. ASSUME NEW t \in 1 .. Len(outcome) + 1
      PROVE  outcome'[t].reply = IF t = Len(outcome) + 1 THEN reply ELSE Replies[t]
    BY <1>1, <1>3, <1>6 DEF Replies
<1>7. Replies' = [t \in 1 .. Len(outcome) + 1 |-> outcome'[t].reply]
    BY <1>3 DEF Replies
<1> QED
    BY <1>5, <1>6, <1>7

LEMMA RepliesCounted ==
    ASSUME SessionInv
    PROVE  Len(Replies) = Len(outcome)
<1>1. Len(outcome) \in Nat
    BY DEF SessionInv, Types, ClientTypes
<1> QED
    BY <1>1 DEF Replies

LEMMA ChatStutters ==
    ASSUME UNCHANGED <<turn, history, outcome>>
    PROVE  UNCHANGED Conversation!chatVars
BY DEF Conversation!chatVars

LEMMA ClientChats ==
    ASSUME ConversationInv, Timely, ~BackendFails, ClientStep
    PROVE  Conversation!Next \/ UNCHANGED Conversation!chatVars
<1> USE Rings
<1>1. /\ SessionInv /\ SessionWakeups /\ Types /\ Control /\ RequestsCounted
      /\ OutcomesCounted /\ HistoryCounted /\ TurnByTurn /\ PayloadOfTurn
      /\ spc # "dead"
    BY DEF ConversationInv, ChatInv, SessionInv
<1>t. /\ turn \in 0 .. Turns /\ turn \in Nat /\ outcome \in Seq(Result)
      /\ head["resp"] \in Nat /\ head["req"] \in Nat /\ tail["resp"] \in Nat
      /\ tail["req"] \in Nat
    BY <1>1, TurnTypes, Shape DEF Types, ClientTypes
<1>2. history' = history
    BY <1>1, ClientTypesStep DEF serverVars
<1>3. CASE StartTurn
    <2>1. Len(Replies) = turn
        BY <1>1, <1>t, <1>3, RepliesCounted DEF StartTurn, OutcomesCounted
    <2>2. Replies' = Replies /\ turn' = turn + 1
        BY <1>3 DEF StartTurn, Replies
    <2> QED
        BY <1>2, <2>1, <2>2 DEF Conversation!Next, Conversation!Ask, Replies
<1>4. CASE StartShutdown \/ RequestSent \/ EnqueueRequest \/ AwaitResponse
           \/ ReadResponse
    BY <1>2, <1>4, ChatStutters
       DEF StartShutdown, RequestSent, EnqueueRequest, AwaitResponse, ReadResponse,
           clientVars
<1>5. CASE CheckResponse
    <2>1. ~Empty("resp")
        BY <1>1, <1>5, WokenFinds DEF CheckResponse
    <2> QED
        BY <1>2, <1>5, <2>1, ChatStutters DEF CheckResponse
<1>6. CASE ResponseReturned
    <2>1. cpc["resp"] = "released" /\ turn' = turn
        BY <1>6 DEF ResponseReturned, ReturnLinux, DequeueReturn
    <2>2. pc = "receiving"
        BY <1>1, <2>1 DEF Control
    <2>3. /\ ~Closing /\ ~InTransit("client", "req") /\ ~Serving
        <3>1. ~Closing /\ ~InTransit("client", "req")
            BY <1>1, <2>2 DEF Control, Closing, InTransit
        <3>2. ~Serving
            BY <1>1, <2>1, ClientWaits
        <3> QED
            BY <3>1, <3>2
    <2>4. head["resp"] = turn
        <3>1. head["req"] = turn /\ tail["resp"] = head["req"]
            BY <1>1, <1>t, <2>1, <2>2, <2>3 DEF RequestsCounted, TurnByTurn
        <3> QED
            BY <1>1, <1>t, <3>1, OneTurn
    <2>5. Len(history) = 2 * turn
        BY <1>1, <1>t, <2>3, <2>4 DEF HistoryCounted, Serving
    <2>6. text["client"] = Bytes(ReplyTo(turn)) /\ lastRequest \in 0 .. Turns \cup {None}
        BY <1>1, <2>1 DEF PayloadOfTurn, Types, ClientTypes
    <2>7. Returned(text["client"], lastRequest) /\ text["client"] \in Body
        BY <1>1, <1>6 DEF ResponseReturned, Types
    <2>8. Replies' = Append(Replies, ReplyBytes(turn))
        BY <1>t, <2>6, <2>7, RepliesGrow DEF ReplyBytes
    <2>9. Len(Replies) + 1 = turn
        BY <1>1, <1>t, <2>2, RepliesCounted DEF OutcomesCounted
    <2> QED
        BY <1>2, <2>1, <2>5, <2>8, <2>9
           DEF Conversation!Next, Conversation!Give, Replies
<1>7. ~ResponseTimeout
    <2>1. SUFFICES ASSUME ResponseTimeout
                   PROVE  FALSE
        OBVIOUS
    <2>2. spc = "stopped" /\ cpc["resp"] \in {"selecting", "polling"}
        BY <1>1, <2>1 DEF ResponseTimeout, ServerEnded, Expire, SelectTimeout,
                          DequeueTimeout
    <2> QED
        BY <1>1, <2>2 DEF TurnByTurn, Control, Closing
<1> QED
    BY <1>3, <1>4, <1>5, <1>6, <1>7 DEF ClientStep

LEMMA ServerChats ==
    ASSUME ConversationInv, Timely, ~BackendFails, ServerStep
    PROVE  Conversation!Next \/ UNCHANGED Conversation!chatVars
<1> USE Rings
<1>1. /\ SessionInv /\ Types /\ Control /\ RequestsCounted
      /\ HistoryCounted /\ TurnByTurn /\ PayloadOfTurn
      /\ spc # "dead"
    BY DEF ConversationInv, ChatInv, SessionInv
<1>t. /\ turn \in 0 .. Turns /\ turn \in Nat /\ history \in Seq(Body)
      /\ head["resp"] \in Nat /\ head["req"] \in Nat /\ tail["resp"] \in Nat
      /\ tail["req"] \in Nat
    BY <1>1, TurnTypes, Shape DEF Types, ServerTypes
<1>2. UNCHANGED <<turn, outcome, Replies>>
    BY <1>1, ServerTypesStep DEF clientVars, Replies
<1>3. CASE RequestReturned
    <2>1. cpc["req"] = "released"
        BY <1>3 DEF RequestReturned, ReturnLinux, DequeueReturn
    <2>2. /\ spc = "receiving" /\ writing["server"] = None /\ ppc["resp"] = "idle"
        BY <1>1, <2>1 DEF Control
    <2>3. /\ spc' = IF Closing THEN "stopped" ELSE "generating"
          /\ ~Closing => text["server"] = Bytes(Prompt(turn))
          /\ ~InTransit("client", "req")
          /\ tail["req"] = head["req"] /\ tail["req"] = head["resp"] + 1
        BY <1>1, <1>3, ReturnsRequest
    <2>4. CASE Closing
        <3>1. history' = history
            BY <1>3, <2>3, <2>4 DEF RequestReturned
        <3> QED
            BY <1>2, <3>1, ChatStutters
    <2>5. CASE ~Closing
        <3>1. history' = Append(history, PromptBytes(turn))
            BY <1>3, <2>3, <2>5 DEF RequestReturned, PromptBytes
        <3>2. head["resp"] + 1 = turn
            BY <1>1, <1>t, <2>3, <2>5 DEF RequestsCounted
        <3>3. Len(history) = 2 * head["resp"]
            BY <1>1, <1>t, <2>2 DEF HistoryCounted, InTransit
        <3>4. Len(history) + 2 = 2 * turn
            BY <1>t, <3>2, <3>3
        <3> QED
            BY <1>2, <3>1, <3>4 DEF Conversation!Next, Conversation!Show, Replies
    <2> QED
        BY <2>4, <2>5
<1>4. CASE Generate
    <2>1. spc = "generating" /\ Serving
        BY <1>4 DEF Generate, Serving
    <2>2. head["resp"] + 1 = turn
        BY <1>1, <1>t, <2>1, ClientWaits
    <2>3. Len(history) = 2 * head["resp"] + 1
        BY <1>1, <2>1 DEF HistoryCounted
    <2>4. Len(history) + 1 = 2 * turn
        BY <1>t, <2>2, <2>3
    <2>5. ReplyText(text["server"]) = ReplyTo(turn)
        BY <1>1, <1>4, Generates
    <2>6. history' = Append(history, ReplyBytes(turn))
        BY <1>4, <2>5 DEF Generate, ReplyBytes
    <2> QED
        BY <1>2, <2>4, <2>6 DEF Conversation!Next, Conversation!Reply, Replies
<1>5. CASE ~RequestReturned /\ ~Generate
    <2>1. history' = history
        BY <1>5 DEF ServerStep, AwaitRequest, CheckRequest, ReadRequest, IdleTimeout,
                    GenerateRaises, EnqueueResponse, ResponseSent, serverVars
    <2> QED
        BY <1>2, <2>1, ChatStutters
<1> QED
    BY <1>3, <1>4, <1>5

LEMMA SessionChats ==
    ConversationInv /\ [SessionNext]_vars =>
        [Timely /\ ~BackendFails => Conversation!Next]_(Conversation!chatVars)
<1> SUFFICES ASSUME ConversationInv, [SessionNext]_vars, Timely, ~BackendFails
             PROVE  Conversation!Next \/ UNCHANGED Conversation!chatVars
    OBVIOUS
<1>1. ASSUME UNCHANGED <<clientVars, serverVars>>
      PROVE  UNCHANGED Conversation!chatVars
    BY <1>1, ChatStutters DEF clientVars, serverVars
<1> QED
    BY <1>1, ClientChats, ServerChats DEF SessionNext, FillOne, RingStep, Finished, vars

LEMMA ChatBegins == SessionInit => Conversation!Init
BY DEF SessionInit, Conversation!Init

\* A timely session whose model answers is a chat: prompts and replies enter
\* the conversation in turn order, none twice, and the client is given each
\* reply in its own turn.
THEOREM SessionIsChat == SessionSpec => ImplementsChat
<1>1. SessionSpec => []ConversationInv
    BY ConversationInvInit, ConversationInvStep, PTL DEF SessionSpec
<1> QED
    BY <1>1, ChatBegins, SessionChats, PTL DEF SessionSpec, ImplementsChat

-----------------------------------------------------------------------------
(* Sequence numbers *)

Written(r) == IF ppc[r] = "written" THEN 1 ELSE 0

\* A slot bears the number of its descriptor until it is filled in again.
SlotsNumbered(r) ==
    \A i \in 0 .. head[r] - 1 :
        i + Capacity >= head[r] + Written(r) => slot[r][SlotOf(i)].seq = i

ResponsesNumbered ==
    /\ spc = "generating" \/ writing["server"] # None => seq = head["resp"]
    /\ ppc["resp"] \in {"waiting", "written"} => item["resp"].seq = head["resp"]
    /\ SlotsNumbered("resp")
    /\ cpc["resp"] = "read" => got["resp"].seq = tail["resp"]

Echoed ==
    \A i \in 1 .. Len(delivered["resp"]) : delivered["resp"][i].seq = i - 1

EchoInv ==
    /\ ChatInv
    /\ SlotsNumbered("req")
    /\ Len(delivered["resp"]) = tail["resp"]
    /\ Paced => Echoed /\ (~Closing => ResponsesNumbered)

LEMMA NumberedFrame ==
    ASSUME NEW r \in Ring, SlotsNumbered(r), head'[r] = head[r], slot'[r] = slot[r],
           ppc'[r] = "written" <=> ppc[r] = "written"
    PROVE  SlotsNumbered(r)'
BY DEF SlotsNumbered, Written

LEMMA NumberedWrite ==
    ASSUME Types, RingsOK, NEW r \in Ring, SlotsNumbered(r),
           item[r].seq = head[r], WriteDescriptor(r) \/ WriteDescriptorLinux(r)
    PROVE  SlotsNumbered(r)'
<1>1. /\ ppc[r] = "waiting" /\ item[r] \in Item
      /\ slot' = [slot EXCEPT ![r][SlotOf(head[r])] = item[r]]
      /\ ppc'[r] = "written" /\ head' = head
    BY DEF WriteDescriptor, WriteDescriptorLinux, RingsOK, Types, RingTypeOK
<1>2. \A k \in 0 .. Capacity - 1 : k # SlotOf(head[r]) => slot'[r][k] = slot[r][k]
    BY <1>1, FilledKept DEF Types
<1>3. head[r] \in Nat /\ Capacity \in Nat \ {0}
    BY RingAssumption DEF Types, RingTypeOK
<1>4. ASSUME NEW i \in 0 .. head[r] - 1, i + Capacity >= head[r] + 1
      PROVE  slot'[r][SlotOf(i)].seq = i
    <2>1. SlotOf(i) # SlotOf(head[r])
        <3>1. i \in Nat /\ i < head[r] /\ head[r] - i < Capacity
            BY <1>3, <1>4
        <3>2. i % Capacity # head[r] % Capacity
            BY <1>3, <3>1, ModDistinct
        <3> QED
            BY <3>2 DEF SlotOf
    <2>2. SlotOf(i) \in 0 .. Capacity - 1
        BY SlotInRange
    <2>3. slot[r][SlotOf(i)].seq = i
        BY <1>1, <1>3, <1>4 DEF SlotsNumbered, Written
    <2> QED
        BY <1>2, <2>1, <2>2, <2>3
<1>5. Written(r)' = 1
    BY <1>1 DEF Written
<1> QED
    BY <1>1, <1>4, <1>5 DEF SlotsNumbered, SlotOf

LEMMA NumberedPublish ==
    ASSUME Types, RingsOK, NEW r \in Ring, SlotsNumbered(r),
           item[r].seq = head[r], Publish(r)
    PROVE  SlotsNumbered(r)'
<1>1. /\ ppc[r] = "written" /\ ppc'[r] = "published" /\ head'[r] = head[r] + 1
      /\ slot' = slot /\ slot[r][SlotOf(head[r])] = item[r]
    BY DEF Publish, RingsOK, Types, RingTypeOK
<1>2. head[r] \in Nat /\ Capacity \in Nat \ {0}
    BY RingAssumption DEF Types, RingTypeOK
<1>3. Written(r) = 1 /\ Written(r)' = 0
    BY <1>1 DEF Written
<1>4. ASSUME NEW i \in 0 .. head[r], i + Capacity >= head[r] + 1
      PROVE  slot[r][SlotOf(i)].seq = i
    BY <1>1, <1>2, <1>3, <1>4 DEF SlotsNumbered
<1> QED
    BY <1>1, <1>2, <1>3, <1>4 DEF SlotsNumbered, SlotOf

\* The window in which a seq_no is read.
LEMMA InWindow ==
    ASSUME ChatInv, Paced, ~Closing
    PROVE  /\ cpc["req"] = "released" =>
                 head["resp"] + Capacity >= head["req"] + Written("req")
           /\ tail["resp"] < head["resp"] =>
                 tail["resp"] + Capacity >= head["resp"] + Written("resp")
<1>1. SessionInv /\ Types /\ RingsOK /\ Control /\ RequestsCounted /\ ResponsesCounted
    BY DEF ChatInv, SessionInv
<1>t. /\ head["req"] \in Nat /\ head["resp"] \in Nat
      /\ tail["req"] \in Nat /\ tail["resp"] \in Nat
      /\ turn \in Nat /\ Prompts \in Nat /\ Capacity \in Nat \ {0}
      /\ Ring = {"req", "resp"} /\ Turns \in Nat
    BY <1>1, Shape, TurnTypes, RingAssumption, Sizes
<1>2. /\ Written("req") \in {0, 1} /\ Written("resp") \in {0, 1}
      /\ Written("req") = 1 => InTransit("client", "req")
      /\ Written("resp") = 1 => InTransit("server", "resp")
    BY DEF Written, InTransit
<1>3. CASE Prompts <= Capacity
    <2>1. head["req"] + Written("req") <= turn /\ turn <= Prompts
        BY <1>1, <1>t, <1>2 DEF RequestsCounted
    <2>2. head["resp"] + Written("resp") <= tail["req"] /\ tail["req"] <= head["req"]
        BY <1>1, <1>t, <1>2 DEF ResponsesCounted, Serving, RingsOK
    <2> QED
        BY <1>t, <1>2, <1>3, <2>1, <2>2
<1>4. CASE Timely /\ spc = "dead"
    BY <1>1, <1>t, <1>4 DEF ChatInv, Quiet, Control
<1>5. CASE Timely /\ spc # "dead"
    <2>1. TurnByTurn
        BY <1>5 DEF ChatInv
    <2>2. ASSUME cpc["req"] = "released"
          PROVE  head["resp"] + Capacity >= head["req"] + Written("req")
        <3>1. ~InTransit("client", "req")
            BY <1>1, <2>1, <2>2, AllAnswered
        <3>2. head["req"] <= head["resp"] + 1
            BY <1>1, <1>t, <2>1, OneTurn
        <3> QED
            BY <1>t, <1>2, <3>1, <3>2
    <2>3. ASSUME tail["resp"] < head["resp"]
          PROVE  tail["resp"] + Capacity >= head["resp"] + Written("resp")
        <3>1. ~Serving
            BY <1>1, <1>t, <2>1, <2>3, ClientWaits
        <3>2. head["resp"] <= tail["resp"] + 1
            BY <1>1, <1>t, <2>1, OneTurn
        <3> QED
            BY <1>t, <1>2, <3>1, <3>2 DEF Serving
    <2> QED
        BY <2>2, <2>3
<1> QED
    BY <1>3, <1>4, <1>5 DEF Paced

LEMMA RequestsNumbered ==
    ASSUME SessionInv, SlotsNumbered("req"), [SessionNext]_vars
    PROVE  SlotsNumbered("req")'
<1> USE Rings
<1>1. Types /\ RingsOK /\ RequestsCounted
    BY DEF SessionInv
<1>2. /\ ppc \in [Ring -> {"idle", "waiting", "written", "published"}]
      /\ head \in [Ring -> Nat]
      /\ slot \in [Ring -> [0 .. Capacity - 1 -> Item \cup {None}]]
    BY <1>1, Shape DEF Types, RingTypeOK
<1>3. CASE WriteDescriptor("req") \/ WriteDescriptorLinux("req")
    <2>1. item["req"].seq = head["req"]
        BY <1>1, <1>3 DEF WriteDescriptor, WriteDescriptorLinux, RequestsCounted
    <2> QED
        BY <1>1, <1>3, <2>1, NumberedWrite
<1>4. CASE Publish("req")
    <2>1. item["req"].seq = head["req"]
        BY <1>1, <1>4 DEF Publish, RequestsCounted
    <2> QED
        BY <1>1, <1>4, <2>1, NumberedPublish
<1>5. ASSUME ~(WriteDescriptor("req") \/ WriteDescriptorLinux("req") \/ Publish("req"))
      PROVE  /\ head'["req"] = head["req"] /\ slot'["req"] = slot["req"]
             /\ ppc'["req"] = "written" <=> ppc["req"] = "written"
    <2>1. (\E r \in Ring : RingAction(r)) \/ UNCHANGED ringVars
        BY SessionRingAction
    <2> QED
        BY <1>2, <1>5, <2>1
           DEF RingAction, ProducerStep, ConsumerStep, LinuxStep, EnqueueCall,
               WriteDescriptor, WriteDescriptorLinux, PublishLinux, Publish, Notify,
               EnqueueReturn, DequeueCall, DequeueTimeout, ReadDescriptor, Release,
               DequeueReturn, Select, SelectTimeout, Wake, CheckCursors, TakeLinux,
               ReleaseLinux, ReturnLinux, ringVars, producerVars
<1> QED
    BY <1>3, <1>4, <1>5, NumberedFrame

LEMMA DeliveredStep ==
    ASSUME SessionInv, Len(delivered["resp"]) = tail["resp"], [SessionNext]_vars
    PROVE  /\ Len(delivered'["resp"]) = tail'["resp"]
           /\ \/ delivered'["resp"] = delivered["resp"]
              \/ /\ cpc["resp"] = "read"
                 /\ delivered'["resp"] = Append(delivered["resp"], got["resp"])
<1> USE Rings
<1>1. Types /\ RingsOK
    BY DEF SessionInv
<1>2. /\ tail \in [Ring -> Nat]
      /\ delivered \in [Ring -> Seq(Item \cup {None})]
      /\ got \in [Ring -> Item \cup {None}]
    BY <1>1 DEF Types, RingTypeOK
<1>3. CASE Release("resp")
    <2>1. /\ cpc["resp"] = "read" /\ tail'["resp"] = tail["resp"] + 1
          /\ delivered'["resp"] = Append(delivered["resp"], got["resp"])
        BY <1>1, <1>2, <1>3 DEF Release, RingsOK
    <2>2. Len(Append(delivered["resp"], got["resp"])) = Len(delivered["resp"]) + 1
        BY <1>2
    <2> QED
        BY <2>1, <2>2
<1>4. ASSUME ~Release("resp")
      PROVE  delivered'["resp"] = delivered["resp"] /\ tail'["resp"] = tail["resp"]
    <2>1. (\E r \in Ring : RingAction(r)) \/ UNCHANGED ringVars
        BY SessionRingAction
    <2> QED
        BY <1>2, <1>4, <2>1
           DEF RingAction, ProducerStep, ConsumerStep, LinuxStep, EnqueueCall,
               WriteDescriptor, WriteDescriptorLinux, PublishLinux, Publish, Notify,
               EnqueueReturn, DequeueCall, DequeueTimeout, ReadDescriptor, Release,
               DequeueReturn, Select, SelectTimeout, Wake, CheckCursors, TakeLinux,
               ReleaseLinux, ReturnLinux, ringVars, consumerVars
<1> QED
    BY <1>3, <1>4

LEMMA ResponsesNumberedFrame ==
    ASSUME ResponsesNumbered, UNCHANGED <<spc, seq, tail>>,
           writing'["server"] # None <=> writing["server"] # None,
           ppc'["resp"] = ppc["resp"], item'["resp"] = item["resp"],
           head'["resp"] = head["resp"], slot'["resp"] = slot["resp"],
           cpc'["resp"] = "read" => cpc["resp"] = "read" /\ got'["resp"] = got["resp"]
    PROVE  ResponsesNumbered'
BY DEF ResponsesNumbered, SlotsNumbered, Written

LEMMA NumberedByClient ==
    ASSUME ChatInv, Paced, ~Closing, ResponsesNumbered, ClientStep
    PROVE  ResponsesNumbered'
<1> USE Rings
<1>1. SessionInv /\ Types /\ RingsOK
    BY DEF ChatInv, SessionInv
<1>t. /\ head["resp"] \in Nat /\ tail["resp"] \in Nat
      /\ cpc \in [Ring -> {"idle", "selecting", "woken", "polling", "read",
                           "released"}]
      /\ got \in [Ring -> Item \cup {None}]
    BY <1>1, Shape DEF Types, RingTypeOK
<1>2. /\ UNCHANGED <<spc, seq, head, slot>>
      /\ writing'["server"] = writing["server"]
      /\ ppc'["resp"] = ppc["resp"] /\ item'["resp"] = item["resp"]
    BY <1>1, ClientLeaves DEF serverVars
<1>3. CASE ReadResponse
    <2>1. /\ head["resp"] > localTail["resp"] /\ localTail["resp"] = tail["resp"]
          /\ got'["resp"] = slot["resp"][SlotOf(tail["resp"])] /\ tail' = tail
          /\ cpc'["resp"] = "read"
        BY <1>1, <1>t, <1>3 DEF ReadResponse, Take, TakeLinux, ReadDescriptor,
                                Available, RingsOK
    <2>2. got'["resp"].seq = tail["resp"]
        <3>1. tail["resp"] + Capacity >= head["resp"] + Written("resp")
            BY <2>1, InWindow
        <3>2. tail["resp"] \in 0 .. head["resp"] - 1
            BY <1>t, <2>1
        <3> QED
            BY <2>1, <3>1, <3>2 DEF ResponsesNumbered, SlotsNumbered
    <2> QED
        BY <1>2, <2>1, <2>2 DEF ResponsesNumbered, SlotsNumbered, Written
<1>4. CASE ~ReadResponse
    <2>1. /\ tail' = tail
          /\ cpc'["resp"] = "read" => cpc["resp"] = "read" /\ got'["resp"] = got["resp"]
        BY <1>t, <1>4
           DEF ClientStep, StartTurn, StartShutdown, EnqueueRequest, StartEnqueue,
               EnqueueCall, RequestSent, EndEnqueue, Notify, EnqueueReturn,
               AwaitResponse, StartDequeue, Select, DequeueCall, CheckResponse,
               CheckCursors, ResponseReturned, ReturnLinux, DequeueReturn,
               ResponseTimeout, Expire, SelectTimeout, DequeueTimeout, linuxVars,
               ringVars, consumerVars
    <2> QED
        BY <1>2, <2>1, ResponsesNumberedFrame
<1> QED
    BY <1>3, <1>4

LEMMA NumberedByServer ==
    ASSUME ChatInv, Paced, ~Closing, SlotsNumbered("req"), ResponsesNumbered, ServerStep
    PROVE  ResponsesNumbered'
<1> USE Rings
<1>1. SessionInv /\ Types /\ RingsOK /\ Control /\ ResponsesCounted
    BY DEF ChatInv, SessionInv
<1>t. /\ head["resp"] \in Nat /\ tail["req"] \in Nat /\ localTail["req"] \in Nat
      /\ head["req"] \in Nat
      /\ ppc \in [Ring -> {"idle", "waiting", "written", "published"}]
      /\ item \in [Ring -> Item \cup {None}]
    BY <1>1, Shape DEF Types, RingTypeOK
<1>2. /\ UNCHANGED <<head, slot>>
      /\ tail'["resp"] = tail["resp"] /\ cpc'["resp"] = cpc["resp"]
      /\ got'["resp"] = got["resp"]
    BY <1>1, ServerLeaves
\* seq_no is read from a slot that was given back, but not filled in again.
<1>3. CASE RequestReturned
    <2>1. /\ cpc["req"] = "released" /\ seq' = slot["req"][SlotOf(localTail["req"])].seq
          /\ UNCHANGED <<ppc, item, writing>>
        BY <1>3 DEF RequestReturned, ReturnLinux, DequeueReturn, LateDescriptor,
                    producerVars, poolVars
    <2>2. spc = "receiving" /\ writing["server"] = None /\ ppc["resp"] = "idle"
        BY <1>1, <2>1 DEF Control
    <2>3. localTail["req"] = head["resp"] /\ head["resp"] \in 0 .. head["req"] - 1
        BY <1>1, <1>t, <2>1, <2>2 DEF RingsOK, ResponsesCounted
    <2>4. seq' = head["resp"]
        BY <2>1, <2>3, InWindow DEF SlotsNumbered
    <2> QED
        BY <1>2, <2>1, <2>2, <2>4 DEF ResponsesNumbered, SlotsNumbered, Written
<1>4. CASE Generate
    BY <1>2, <1>4
       DEF Generate, linuxVars, ringVars, producerVars, consumerVars,
           ResponsesNumbered, SlotsNumbered, Written
<1>5. CASE EnqueueResponse
    <2>1. writing["server"] # None /\ writing'["server"] = None
        BY <1>1, <1>5, AdvanceEffect DEF EnqueueResponse, StartEnqueue
    <2>2. /\ ppc["resp"] = "idle" /\ ppc'["resp"] = "waiting"
          /\ item'["resp"] = DescriptorFor("server", seq)
          /\ UNCHANGED <<spc, seq>>
        BY <1>t, <1>5 DEF EnqueueResponse, StartEnqueue, EnqueueCall, serverVars
    <2>3. item'["resp"].seq = head["resp"]
        BY <2>1, <2>2 DEF ResponsesNumbered, DescriptorFor
    <2>4. spc # "generating"
        BY <1>1, <2>1 DEF Control
    <2> QED
        BY <1>2, <2>1, <2>2, <2>3, <2>4 DEF ResponsesNumbered, SlotsNumbered, Written
<1>6. CASE ResponseSent
    <2>1. /\ ppc["resp"] = "published" /\ ppc'["resp"] = "idle" /\ spc' = "receiving"
          /\ UNCHANGED <<item, seq, writing>>
        BY <1>t, <1>6 DEF ResponseSent, EndEnqueue, Notify, EnqueueReturn, poolVars
    <2> QED
        BY <1>2, <2>1 DEF ResponsesNumbered, SlotsNumbered, Written
<1>7. CASE AwaitRequest \/ CheckRequest \/ ReadRequest \/ IdleTimeout \/ GenerateRaises
    <2>1. UNCHANGED <<ppc, item, seq, writing>>
        BY <1>7 DEF AwaitRequest, StartDequeue, Select, DequeueCall, CheckRequest,
                    CheckCursors, ReadRequest, Take, TakeLinux, ReadDescriptor,
                    IdleTimeout, Expire, SelectTimeout, DequeueTimeout,
                    GenerateRaises, linuxVars, ringVars, producerVars, serverVars,
                    poolVars
    <2>2. spc' = "generating" => spc = "generating"
        BY <1>7 DEF AwaitRequest, CheckRequest, ReadRequest, IdleTimeout,
                    GenerateRaises, serverVars
    <2> QED
        BY <1>2, <2>1, <2>2 DEF ResponsesNumbered, SlotsNumbered, Written
<1> QED
    BY <1>3, <1>4, <1>5, <1>6, <1>7 DEF ServerStep

LEMMA NumberedByRing ==
    ASSUME ChatInv, ResponsesNumbered, NEW r \in Ring, RingStep(r)
    PROVE  ResponsesNumbered'
<1> USE Rings
<1>1. SessionInv /\ Types /\ RingsOK /\ Control
    BY DEF ChatInv, SessionInv
<1>t. /\ head \in [Ring -> Nat] /\ tail \in [Ring -> Nat]
      /\ ppc \in [Ring -> {"idle", "waiting", "written", "published"}]
      /\ cpc \in [Ring -> {"idle", "selecting", "woken", "polling", "read",
                           "released"}]
      /\ slot \in [Ring -> [0 .. Capacity - 1 -> Item \cup {None}]]
    BY <1>1, Shape DEF Types, RingTypeOK
<1>2. UNCHANGED <<spc, seq, writing>>
    BY DEF RingStep, serverVars, poolVars
<1>3. CASE r = "resp" /\ (WriteDescriptor(r) \/ WriteDescriptorLinux(r))
    <2>1. /\ ppc["resp"] = "waiting" /\ UNCHANGED <<head, item, tail, cpc, got>>
        BY <1>3 DEF WriteDescriptor, WriteDescriptorLinux, consumerVars
    <2>2. item["resp"].seq = head["resp"]
        BY <2>1 DEF ResponsesNumbered
    <2>3. SlotsNumbered("resp")'
        BY <1>1, <1>3, <2>2, NumberedWrite DEF ResponsesNumbered
    <2> QED
        BY <1>2, <2>1, <2>2, <2>3 DEF ResponsesNumbered
<1>4. CASE r = "resp" /\ Publish(r)
    <2>1. /\ ppc["resp"] = "written" /\ ppc'["resp"] = "published"
          /\ UNCHANGED <<item, tail, cpc, got>>
        BY <1>t, <1>4 DEF Publish, consumerVars
    <2>2. /\ writing["server"] = None /\ spc = "replying"
        BY <1>1, <2>1 DEF Control
    <2>3. SlotsNumbered("resp")'
        BY <1>1, <1>4, <2>1, NumberedPublish DEF ResponsesNumbered
    <2> QED
        BY <1>2, <2>1, <2>2, <2>3 DEF ResponsesNumbered
<1>5. CASE r = "req" /\ Put(r)
    BY <1>t, <1>2, <1>5, ResponsesNumberedFrame
       DEF Put, WriteDescriptor, WriteDescriptorLinux, PublishLinux, Publish,
           consumerVars
<1>6. CASE Move(r)
    <2>1. /\ UNCHANGED producerVars /\ got' = got
          /\ cpc'["resp"] = "read" =>
                cpc["resp"] = "read" /\ tail'["resp"] = tail["resp"]
        BY <1>t, <1>6 DEF Move, Wake, ReleaseLinux, Release
    <2> QED
        BY <1>2, <2>1 DEF ResponsesNumbered, SlotsNumbered, Written, producerVars
<1> QED
    BY <1>3, <1>4, <1>5, <1>6 DEF RingStep, Put, PublishLinux

LEMMA NumberedStep ==
    ASSUME ChatInv, Paced, ~Closing, SlotsNumbered("req"), ResponsesNumbered,
           [SessionNext]_vars
    PROVE  ResponsesNumbered'
<1> USE Rings
<1>1. Types
    BY DEF ChatInv, SessionInv
<1>2. ASSUME NEW p \in Process, FillOne(p)
      PROVE  ResponsesNumbered'
    <2>1. writing'["server"] # None <=> writing["server"] # None
        BY <1>1, <1>2, FillEffect DEF FillOne
    <2> QED
        BY <1>2, <2>1, ResponsesNumberedFrame
           DEF FillOne, linuxVars, ringVars, producerVars, consumerVars, serverVars
<1>3. CASE UNCHANGED vars
    BY <1>3, ResponsesNumberedFrame
       DEF vars, linuxVars, ringVars, producerVars, consumerVars, serverVars, poolVars
<1> QED
    BY <1>2, <1>3, NumberedByClient, NumberedByServer, NumberedByRing
       DEF SessionNext, Finished

LEMMA EchoInvInit == SessionInit => EchoInv
<1> SUFFICES ASSUME SessionInit
             PROVE  EchoInv
    OBVIOUS
<1>1. /\ \A r \in Ring : head[r] = 0 /\ tail[r] = 0 /\ ppc[r] = "idle"
                         /\ cpc[r] = "idle" /\ delivered[r] = <<>>
      /\ Ring = {"req", "resp"} /\ Process = {"client", "server"}
    BY Rings DEF SessionInit, LinuxInit, Init
<1>2. \A r \in Ring : SlotsNumbered(r)
    BY <1>1 DEF SlotsNumbered
<1>3. Len(delivered["resp"]) = 0
    BY <1>1
<1>4. Echoed
    <2>1. 1 .. 0 = {}
        OBVIOUS
    <2> QED
        BY <1>3, <2>1 DEF Echoed
<1>5. ResponsesNumbered
    BY <1>1, <1>2 DEF SessionInit, ResponsesNumbered
<1> QED
    BY <1>1, <1>2, <1>3, <1>4, <1>5, ChatInvInit DEF EchoInv

LEMMA EchoInvStep == EchoInv /\ [SessionNext]_vars => EchoInv'
<1> SUFFICES ASSUME EchoInv, [SessionNext]_vars
             PROVE  EchoInv'
    OBVIOUS
<1> USE Rings
<1>1. ChatInv /\ SessionInv /\ Types /\ Control
    BY DEF EchoInv, ChatInv, SessionInv
<1>2. ChatInv' /\ SlotsNumbered("req")'
    BY <1>1, ChatInvStep, RequestsNumbered DEF EchoInv
<1>3. /\ Len(delivered'["resp"]) = tail'["resp"]
      /\ \/ delivered'["resp"] = delivered["resp"]
         \/ /\ cpc["resp"] = "read"
            /\ delivered'["resp"] = Append(delivered["resp"], got["resp"])
    BY <1>1, DeliveredStep DEF EchoInv
<1>4. Paced' = Paced
    BY <1>1, SessionRings DEF Paced, Timely, Prompts
<1>5. ASSUME Paced
      PROVE  Echoed'
    <2>1. /\ tail["resp"] \in Nat /\ got["resp"] \in Item \cup {None}
          /\ delivered["resp"] \in Seq(Item \cup {None})
          /\ Len(delivered["resp"]) = tail["resp"]
        BY <1>1 DEF EchoInv, Types, RingTypeOK
    <2>2. Echoed
        BY <1>5 DEF EchoInv
    <2>3. CASE delivered'["resp"] = delivered["resp"]
        BY <2>2, <2>3 DEF Echoed
    <2>4. CASE /\ cpc["resp"] = "read"
               /\ delivered'["resp"] = Append(delivered["resp"], got["resp"])
        <3>1. ~Closing
            BY <1>1, <2>4 DEF Control, Closing
        <3>2. got["resp"].seq = tail["resp"]
            BY <1>5, <2>4, <3>1 DEF EchoInv, ResponsesNumbered
        <3>3. ASSUME NEW i \in 1 .. Len(delivered'["resp"])
              PROVE  delivered'["resp"][i].seq = i - 1
            <4>1. CASE i = tail["resp"] + 1
                BY <2>1, <2>4, <3>2, <4>1
            <4>2. CASE i # tail["resp"] + 1
                <5>1. i \in 1 .. Len(delivered["resp"])
                    BY <2>1, <2>4, <4>2
                <5>2. delivered'["resp"][i] = delivered["resp"][i]
                    BY <2>1, <2>4, <5>1
                <5> QED
                    BY <2>2, <5>1, <5>2 DEF Echoed
            <4> QED
                BY <4>1, <4>2
        <3> QED
            BY <3>3 DEF Echoed
    <2> QED
        BY <1>3, <2>3, <2>4
\* A client that is closing takes no more responses.
<1>6. ASSUME ~Closing'
      PROVE  ~Closing
    <2>1. UNCHANGED pc \/ ClientStep
        BY <1>1, ServerLeaves
           DEF SessionNext, FillOne, RingStep, Finished, vars, clientVars
    <2>2. CASE ClientStep
        <3>1. pc = "closing" => ~RequestSent \/ pc' = "done"
            BY DEF RequestSent
        <3>2. StartTurn \/ StartShutdown => pc = "idle"
            BY DEF StartTurn, StartShutdown
        <3>3. EnqueueRequest \/ AwaitResponse \/ ReadResponse => pc' = pc
            BY DEF EnqueueRequest, AwaitResponse, ReadResponse, clientVars
        <3>4. CheckResponse \/ ResponseReturned \/ ResponseTimeout => pc = "receiving"
            BY <1>1 DEF CheckResponse, CheckCursors, ResponseReturned, ReturnLinux,
                        DequeueReturn, ResponseTimeout, Expire, SelectTimeout,
                        DequeueTimeout, Control
        <3>5. RequestSent => pc \in {"sending", "closing"}
            BY <1>1 DEF RequestSent, EndEnqueue, Notify, EnqueueReturn, Control
        <3> QED
            BY <1>6, <2>2, <3>1, <3>2, <3>3, <3>4, <3>5 DEF ClientStep, Closing
    <2> QED
        BY <1>6, <2>1, <2>2 DEF Closing
<1>7. ASSUME Paced, ~Closing'
      PROVE  ResponsesNumbered'
    BY <1>1, <1>6, <1>7, NumberedStep DEF EchoInv
<1> QED
    BY <1>2, <1>3, <1>4, <1>5, <1>7 DEF EchoInv

\* The response to a request bears its seq_no, although seq_no is read from a
\* slot that was given back: in a timely session there is no other request, and
\* in any other the client must not send more requests than there are slots.
THEOREM SeqNumbersEchoed == SessionSpec => []SeqEchoed
<1>1. EchoInv => SeqEchoed
    BY DEF EchoInv, Echoed, SeqEchoed
<1> QED
    BY <1>1, EchoInvInit, EchoInvStep, PTL DEF SessionSpec
-----------------------------------------------------------------------------
(* The queues of a session *)

\* The client finds the slot at its head free.
LEMMA RoomForRequest ==
    ASSUME ConversationInv, RoomForAll, ppc["req"] = "waiting"
    PROVE  ~RingFull("req")
<1>1. /\ head["req"] \in Nat /\ tail["req"] \in Nat /\ Capacity \in Nat \ {0}
      /\ turn \in Nat /\ Prompts \in Nat
    BY Shape, TurnTypes, RingAssumption DEF ConversationInv, ChatInv, SessionInv
<1>2. InTransit("client", "req")
    BY DEF InTransit
<1>3. CASE Prompts < Capacity
    <2>1. head["req"] <= Prompts
        BY <1>1, <1>2 DEF ConversationInv, ChatInv, SessionInv, RequestsCounted
    <2> QED
        BY <1>1, <1>3, <2>1 DEF RingFull
<1>4. CASE Timely /\ ~BackendFails
    <2>1. SessionInv /\ TurnByTurn
        BY <1>4 DEF ConversationInv, ChatInv
    <2>2. tail["resp"] = head["req"] /\ tail["resp"] <= head["resp"]
          /\ head["resp"] <= tail["req"] /\ tail["resp"] \in Nat /\ head["resp"] \in Nat
        BY <1>2, <2>1, OneTurn, Shape DEF TurnByTurn, SessionInv
    <2> QED
        BY <1>1, <2>2 DEF RingFull
<1> QED
    BY <1>3, <1>4 DEF RoomForAll

\* So does the server: a response is for a request that was taken.
LEMMA RoomForResponse ==
    ASSUME ConversationInv, RoomForAll, ppc["resp"] = "waiting"
    PROVE  ~RingFull("resp")
<1>1. /\ head["req"] \in Nat /\ tail["req"] \in Nat /\ Capacity \in Nat \ {0}
      /\ head["resp"] \in Nat /\ tail["resp"] \in Nat
      /\ turn \in Nat /\ Prompts \in Nat /\ tail["req"] <= head["req"]
    BY Shape, TurnTypes, RingAssumption
       DEF ConversationInv, ChatInv, SessionInv, RingsOK
<1>2. tail["req"] = head["resp"] + 1
    BY DEF ConversationInv, ChatInv, SessionInv, ResponsesCounted, Serving, InTransit
<1>3. CASE Prompts < Capacity
    <2>1. head["req"] <= Prompts + 1
        BY <1>1 DEF ConversationInv, ChatInv, SessionInv, RequestsCounted
    <2> QED
        BY <1>1, <1>2, <1>3, <2>1 DEF RingFull
<1>4. CASE Timely /\ ~BackendFails
    <2>1. SessionInv /\ TurnByTurn
        BY <1>4 DEF ConversationInv, ChatInv
    <2>2. head["req"] <= tail["resp"] + 1
        BY <2>1, OneTurn
    <2> QED
        BY <1>1, <1>2, <2>2 DEF RingFull
<1> QED
    BY <1>3, <1>4 DEF RoomForAll

\* Who is about to write a descriptor has room for it.
LEMMA RoomFound ==
    ASSUME ConversationInv, RoomForAll, NEW r \in Ring, ppc[r] = "waiting"
    PROVE  ~RingFull(r)
BY RoomForRequest, RoomForResponse, Rings

\* On Windows enqueue waits for room; on Linux there must be some.
Roomy(st) ==
    st.linux => (st.timely /\ ~st.fails) \/ st.turns < Capacity

QueueInv == ConversationInv /\ RingInv

\* A step of a Linux consumer between its call and the first descriptor.
Blocks(r) == Select(r) \/ SelectTimeout(r) \/ Wake(r) \/ CheckCursors(r)

\* Where there is room, a step of the Linux rings is one of the Windows rings,
\* or such a one.
LEMMA QueueStep ==
    ASSUME QueueInv, Roomy(setting), [SessionNext]_vars
    PROVE  [Next]_ringVars \/ \E r \in Ring : Blocks(r)
<1>1. PlatformStep
    BY SessionRings DEF QueueInv, ConversationInv, ChatInv
<1>2. CASE ~Linux
    BY <1>1, <1>2 DEF PlatformStep
<1>3. ASSUME Linux, NEW r \in Ring, WriteDescriptorLinux(r)
      PROVE  WriteDescriptor(r)
    <2>1. RoomForAll /\ ppc[r] = "waiting"
        BY <1>3 DEF Roomy, RoomForAll, Linux, Timely, BackendFails, Prompts,
                    WriteDescriptorLinux
    <2>2. ~RingFull(r)
        BY <2>1, RoomForRequest, RoomForResponse, Rings DEF QueueInv
    <2> QED
        BY <1>3, <2>2 DEF WriteDescriptorLinux, WriteDescriptor
<1>4. ASSUME Linux, NEW r \in Ring, LinuxStep(r)
      PROVE  ProducerStep(r) \/ ConsumerStep(r) \/ Blocks(r)
    BY <1>3, <1>4 DEF LinuxStep, ProducerStep, ConsumerStep, Blocks, PublishLinux,
                      Notify, TakeLinux, ReleaseLinux, ReturnLinux
<1>5. CASE Linux
    BY <1>1, <1>4, <1>5 DEF PlatformStep, LinuxNext, linuxVars, Next
<1> QED
    BY <1>2, <1>5

LEMMA BlockEffect ==
    ASSUME NEW r \in Ring, Blocks(r)
    PROVE  /\ UNCHANGED <<tail, got, delivered, producerVars>>
           /\ \/ /\ cpc' = [cpc EXCEPT ![r] = "selecting"]
                 /\ localTail' = localTail
              \/ /\ cpc' = [cpc EXCEPT ![r] = "idle"]
                 /\ localTail' = localTail
              \/ /\ cpc' = [cpc EXCEPT ![r] = "woken"]
                 /\ localTail' = localTail
              \/ /\ cpc' = [cpc EXCEPT ![r] = "idle"]
                 /\ localTail' = [localTail EXCEPT ![r] = tail[r]]
              \/ /\ cpc' = [cpc EXCEPT ![r] = "polling"]
                 /\ localTail' = [localTail EXCEPT ![r] = tail[r]]
BY DEF Blocks, Select, SelectTimeout, Wake, CheckCursors

\* Waiting on the eventfd disturbs nothing the two processes rely on ...
LEMMA BlocksInv ==
    ASSUME RingInv, NEW r \in Ring, Blocks(r)
    PROVE  RingInv'
<1>1. RingTypeOK'
    BY BlockEffect DEF RingInv, RingTypeOK, producerVars
<1>2. CursorsInBounds' /\ ProducerOK'
    BY BlockEffect DEF RingInv, CursorsInBounds, ProducerOK, producerVars
<1>3. ConsumerOK'
    <2> SUFFICES ASSUME NEW s \in Ring
                 PROVE  /\ cpc'[s] \in {"polling", "read"} => localTail'[s] = tail'[s]
                        /\ cpc'[s] = "read" =>
                              /\ head'[s] > tail'[s]
                              /\ got'[s] = slot'[s][SlotOf(tail'[s])]
        BY DEF ConsumerOK, SlotOf
    <2>1. head' = head /\ tail' = tail /\ got' = got /\ slot' = slot
        BY BlockEffect DEF producerVars
    <2>2. CASE s = r
        BY <2>1, <2>2, BlockEffect DEF RingInv, RingTypeOK
    <2>3. CASE s # r
        <3>t. /\ cpc \in [Ring -> {"idle", "selecting", "woken", "polling", "read",
                                   "released"}]
              /\ localTail \in [Ring -> Nat]
            BY DEF RingInv, RingTypeOK
        <3>1. cpc'[s] = cpc[s]
            BY <2>3, <3>t, BlockEffect
        <3>2. localTail'[s] = localTail[s]
            BY <2>3, <3>t, BlockEffect
        <3> QED
            BY <2>1, <3>1, <3>2 DEF RingInv, ConsumerOK
    <2> QED
        BY <2>2, <2>3
<1> QED
    BY <1>1, <1>2, <1>3 DEF RingInv

\* ... and neither queue.
LEMMA BlocksFifo ==
    ASSUME RingInv, NEW r \in Ring, Blocks(r)
    PROVE  UNCHANGED Fifo!fifoVars
<1>1. UNCHANGED <<head, tail, slot, delivered>>
    BY BlockEffect DEF producerVars
<1> QED
    BY <1>1, StutterFifo

LEMMA QueueInvInit == SessionInit => QueueInv
BY ConversationInvInit, InitInv DEF SessionInit, LinuxInit, QueueInv

LEMMA QueueInvStep ==
    ASSUME QueueInv, Roomy(setting), [SessionNext]_vars
    PROVE  QueueInv'
<1>1. ConversationInv'
    BY ConversationInvStep DEF QueueInv
<1>2. RingInv'
    BY QueueStep, NextInv, BlocksInv DEF QueueInv
<1> QED
    BY <1>1, <1>2 DEF QueueInv

LEMMA QueueFifo ==
    ASSUME QueueInv, Roomy(setting), [SessionNext]_vars
    PROVE  [Fifo!Next]_(Fifo!fifoVars)
<1>1. RingInv /\ RingInv'
    BY QueueInvStep DEF QueueInv
<1> QED
    BY <1>1, QueueStep, NextFifo, BlocksFifo

\* A behaviour runs one of the settings, to its end.
LEMMA QueueRoomy ==
    ASSUME QueueInv, \A st \in Settings : Roomy(st)
    PROVE  Roomy(setting)
BY DEF QueueInv, ConversationInv, ChatInv, SessionInv, Types

\* No producer ever comes to a full ring, whoever has ended, unless there are
\* more requests than slots and the client does not wait for its replies: on
\* Windows nobody enters the wait for room, which has no timeout, and on Linux,
\* where there is no such test, no unread descriptor is overwritten.
THEOREM NeverWithoutRoom ==
    SessionSpec =>
        [](RoomForAll => \A r \in Ring : ppc[r] = "waiting" => ~RingFull(r))
<1>1. ConversationInv =>
          (RoomForAll => \A r \in Ring : ppc[r] = "waiting" => ~RingFull(r))
    BY RoomFound
<1>2. SessionSpec => []ConversationInv
    BY ConversationInvInit, ConversationInvStep, PTL DEF SessionSpec
<1> QED
    BY <1>1, <1>2, PTL

\* The inductive invariant of a session's rings: those of ShmRing hold of them
\* on either platform, wherever a Linux session has slots for what may be unread.
THEOREM QueueInvariant ==
    ASSUME \A st \in Settings : Roomy(st)
    PROVE  SessionSpec => []QueueInv
<1>1. QueueInv /\ [SessionNext]_vars => QueueInv'
    BY QueueInvStep, QueueRoomy
<1> QED
    BY <1>1, QueueInvInit, PTL DEF SessionSpec

\* In no session is a ring overrun, although the Linux enqueue has no test for
\* it: one request at a time, or a slot for each, is test enough.
THEOREM SessionCursorsInBounds ==
    ASSUME \A st \in Settings : Roomy(st)
    PROVE  SessionSpec => []CursorsInBounds
<1>1. QueueInv => CursorsInBounds
    BY DEF QueueInv, RingInv
<1> QED
    BY <1>1, QueueInvariant, PTL

\* Both rings of such a session are bounded first-in first-out queues, on either
\* platform, whatever times out and wherever the model raises.
THEOREM SessionIsFifo ==
    ASSUME \A st \in Settings : Roomy(st)
    PROVE  SessionSpec => IsFifo
<1>1. SessionInit => Fifo!Init
    BY InitFifo DEF SessionInit, LinuxInit
<1>2. QueueInv /\ [SessionNext]_vars => [Fifo!Next]_(Fifo!fifoVars)
    BY QueueFifo, QueueRoomy
<1> QED
    BY <1>1, <1>2, QueueInvariant, PTL DEF SessionSpec, IsFifo, Fifo!Spec
=============================================================================
