------------------------- MODULE ShmLifecycleProofs -------------------------
(***************************************************************************)
(* What holds of the life of a shared-memory session for any number of     *)
(* clients, servers and prompts, on either platform, and whoever is killed *)
(* or gives up at any point.                                               *)
(*                                                                         *)
(* The invariants come in layers, each resting on those before it:         *)
(*   Types         who maps which region at each stage of his life;        *)
(*   HandshakeInv  who has been made welcome;                              *)
(*   PlacesInv     one client at a time, and one server to a connection,   *)
(*                 so that no region is zeroed while it is mapped;         *)
(*   GenuineInv    every slot below a head was written, for a prompt that  *)
(*                 was sent or its reply;                                  *)
(*   OwnersInv     an attached server has its region's client to itself;   *)
(*   OwnInv        and the rings have their conversation in them.          *)
(* HandshakeInv stands beside the chain.  The last two are about sessions  *)
(* that are not mixed.                                                     *)
(***************************************************************************)
EXTENDS ShmLifecycle, SequenceTheorems, FiniteSetTheorems, TLAPS

Descriptor == (Client \cup {Nobody}) \X Nat

\* The slots of a ring that were ever written.
Slots == UNION {[D -> Descriptor] : D \in SUBSET Nat}

Region ==
    [reqHead : Nat, reqTail : Nat, respHead : Nat, respTail : Nat,
     ready : {0, 1}, req : Slots, resp : Slots]

Unmapped == {"off", "done", "dead"}
Shaking  == {"init", "connecting", "greeting", "greeted", "waiting"}
Turning  == {"idle", "sending", "receiving", "closing"}
Shut     == {"off", "listening", "accepted", "opening", "stopped", "dead"}
Serving  == {"answering", "loading", "receiving", "polling", "generating",
             "replying"}

RegionTypes ==
    /\ mapped \in [Process -> Process \cup {None}]
    /\ mem \in [Process -> Region]

ClientTypes ==
    /\ pc \in [Client -> Unmapped \cup Shaking \cup Turning]
    /\ field \in [Client -> 1 .. 5]
    /\ hello \in [Client -> Nat]
    /\ ack \subseteq Client
    /\ turn \in [Client -> Nat]
    /\ outcome \in [Client -> Seq(Descriptor \cup {None})]
    /\ welcome \in [Client -> SUBSET Server]

ServerTypes ==
    /\ spc \in [Server -> Shut \cup Serving]
    /\ backlog \in [Server -> Seq(Client)]
    /\ peer \in [Server -> Client \cup {None}]
    /\ cursor \in [Server -> Nat]
    /\ request \in [Server -> Descriptor \cup {None}]
    /\ history \in [Server -> Seq(Descriptor)]
    /\ mixed \in BOOLEAN

\* Who maps a region, and which.
Mappings ==
    /\ \A c \in Client : mapped[c] = None <=> pc[c] \in Unmapped
    /\ \A s \in Server : mapped[s] = None <=> spc[s] \in Shut
    /\ \A s \in Server : spc[s] \in Serving \cup {"accepted", "opening"} =>
          peer[s] # None
    /\ \A s \in Server : spc[s] \in {"generating", "replying"} =>
          request[s] \in Descriptor
    /\ \A s \in Server : spc[s] = "opening" => ~Linux
    /\ \A s \in Server : spc[s] = "answering" => Linux
    /\ Linux => /\ \A c \in Client : mapped[c] \in {c, None}
                /\ \A s \in Server : mapped[s] \in {peer[s], None}
    /\ ~Linux => \A p, q \in Process :
                    mapped[p] # None /\ mapped[q] # None => mapped[p] = mapped[q]

\* What a client has sent and been given at each stage of its life.
TurnsCounted ==
    \A c \in Client :
        /\ turn[c] <= Turns + 1
        /\ Len(outcome[c]) <= Turns
        /\ pc[c] \in {"off"} \cup Shaking => turn[c] = 0 /\ outcome[c] = <<>>
        /\ pc[c] \in {"idle", "sending"} => turn[c] = Len(outcome[c])
        /\ pc[c] = "receiving" => turn[c] = Len(outcome[c]) + 1 /\ turn[c] <= Turns

Types == RegionTypes /\ ClientTypes /\ ServerTypes /\ Mappings /\ TurnsCounted

-----------------------------------------------------------------------------
(* The constants and the operators on regions *)

LEMMA Apart ==
    /\ \A c \in Client : c \in Process /\ c \notin Server /\ c # None
    /\ \A s \in Server : s \in Process /\ s \notin Client /\ s # None
    /\ \A p \in Process : p \in Client \/ p \in Server
    /\ None \notin Process
    /\ Turns \in Nat /\ Turns >= 1
BY LifecycleAssumption DEF Process

LEMMA Texts ==
    /\ \A c \in Client : \A t \in Nat : Prompt(c, t) \in Descriptor
    /\ Shutdown \in Descriptor /\ Empty \in Descriptor
BY DEF Prompt, Shutdown, Empty, Descriptor

LEMMA SlotsTyped ==
    ASSUME NEW ring \in Slots
    PROVE  /\ DOMAIN ring \subseteq Nat
           /\ \A i \in DOMAIN ring : ring[i] \in Descriptor
           /\ \A i : At(ring, i) \in Descriptor
BY Texts DEF Slots, At

LEMMA WrittenSlots ==
    ASSUME NEW ring \in Slots, NEW i \in Nat, NEW x \in Descriptor
    PROVE  /\ Written(ring, i, x) \in Slots
           /\ DOMAIN Written(ring, i, x) = DOMAIN ring \cup {i}
           /\ Written(ring, i, x)[i] = x
           /\ \A j \in DOMAIN ring : j # i => Written(ring, i, x)[j] = ring[j]
<1>1. /\ DOMAIN Written(ring, i, x) = DOMAIN ring \cup {i}
      /\ Written(ring, i, x)[i] = x
      /\ \A j \in DOMAIN ring : j # i => Written(ring, i, x)[j] = ring[j]
    BY DEF Written
<1>2. DOMAIN ring \cup {i} \in SUBSET Nat
    BY SlotsTyped
<1>3. Written(ring, i, x) \in [DOMAIN ring \cup {i} -> Descriptor]
    BY SlotsTyped DEF Written
<1> QED
    BY <1>1, <1>2, <1>3 DEF Slots

LEMMA ZeroedTyped == Zeroed \in Region
<1>1. <<>> \in [{} -> Descriptor]
    OBVIOUS
<1>2. <<>> \in Slots
    BY <1>1 DEF Slots
<1> QED
    BY <1>2 DEF Zeroed, Region

LEMMA ClearedTyped ==
    ASSUME NEW m \in Region, NEW f \in 1 .. 5
    PROVE  LET n == Cleared(m, Fields[f])
           IN  /\ n \in Region
               /\ n.req = m.req /\ n.resp = m.resp
               /\ n.reqHead = IF f = 1 THEN 0 ELSE m.reqHead
               /\ n.reqTail = IF f = 2 THEN 0 ELSE m.reqTail
               /\ n.respHead = IF f = 3 THEN 0 ELSE m.respHead
               /\ n.respTail = IF f = 4 THEN 0 ELSE m.respTail
               /\ n.ready = IF f = 5 THEN 0 ELSE m.ready
<1>1. /\ Fields[1] = "reqHead" /\ Fields[2] = "reqTail"
      /\ Fields[3] = "respHead" /\ Fields[4] = "respTail"
      /\ Fields[5] = "ready"
    BY DEF Fields
<1>2. CASE f = 1
    BY <1>1, <1>2 DEF Cleared, Region
<1>3. CASE f = 2
    BY <1>1, <1>3 DEF Cleared, Region
<1>4. CASE f = 3
    BY <1>1, <1>4 DEF Cleared, Region
<1>5. CASE f = 4
    BY <1>1, <1>5 DEF Cleared, Region
<1>6. CASE f = 5
    BY <1>1, <1>6 DEF Cleared, Region
<1> QED
    BY <1>2, <1>3, <1>4, <1>5, <1>6

-----------------------------------------------------------------------------
(* Types *)

LEMMA MapTypes ==
    ASSUME Types, NEW p \in Process, mapped[p] # None
    PROVE  mapped[p] \in Process /\ mem[mapped[p]] \in Region
BY DEF Types, RegionTypes

-----------------------------------------------------------------------------
(* The steps *)

ClientEnds(c) == pc[c] \notin Unmapped /\ ClientRaises(c)

ServerEnds(s) == spc[s] \notin {"stopped", "dead"} /\ ServerRaises(s)

Listens(s) ==
    /\ spc[s] = "off"
    /\ ServerGoes(s, "listening")
    /\ UNCHANGED <<regionVars, ack, historyVars>>

ClientMoves(c) ==
    \/ Open(c) \/ InitControl(c) \/ \E s \in Server : Connect(c, s)
    \/ Greet(c) \/ Acknowledged(c) \/ SeeReady(c)
    \/ WriteRequest(c) \/ PublishRequest(c) \/ ReceiveResponse(c)
    \/ ResponseTimeout(c) \/ CloseClient(c) \/ ClientEnds(c)

ServerMoves(s) ==
    \/ Listens(s) \/ Accept(s) \/ Answer(s) \/ OpenRegion(s)
    \/ Attach(s) \/ AnswerLinux(s) \/ Serve(s) \/ AwaitRequest(s)
    \/ TakeRequest(s) \/ IdleTimeout(s) \/ WriteResponse(s)
    \/ PublishResponse(s) \/ ServerEnds(s)

\* However a process fails, it ends in the same way.
LEMMA Moves ==
    ASSUME Next
    PROVE  \/ \E c \in Client : ClientMoves(c)
           \/ \E s \in Server : ServerMoves(s)
<1>1. ASSUME NEW c \in Client, ClientStep(c) \/ CrashClient(c)
      PROVE  ClientMoves(c)
    <2>1. ASSUME \/ ConnectFails(c) \/ ConnectionReset(c) \/ ReadyTimeout(c)
                 \/ CrashClient(c)
          PROVE  ClientEnds(c)
        BY <2>1 DEF ConnectFails, ConnectionReset, ReadyTimeout, CrashClient, Ended,
                    ClientEnds, Unmapped
    <2> QED
        BY <1>1, <2>1 DEF ClientStep, Handshake, Send, ClientMoves
<1>2. ASSUME NEW s \in Server, Listen(s) \/ ServerStep(s) \/ CrashServer(s)
      PROVE  ServerMoves(s)
    <2>1. ASSUME HelloMissing(s) \/ AnswerFails(s) \/ CrashServer(s)
          PROVE  ServerEnds(s)
        BY <2>1, Apart DEF HelloMissing, AnswerFails, CrashServer, Ended, ServerEnds
    <2>2. ASSUME Listen(s)
          PROVE  Listens(s) \/ ServerEnds(s)
        BY <2>2 DEF Listen, Listens, ServerEnds
    <2> QED
        BY <1>2, <2>1, <2>2 DEF ServerStep, ServerHandshake, ServeLoop, ServerMoves
<1> QED
    BY <1>1, <1>2 DEF Next

-----------------------------------------------------------------------------
(* What each step does to memory *)

\* The region r becomes n, and the others stay as they are.
LEMMA RegionPut ==
    ASSUME Types, NEW r \in Process, NEW n \in Region, mem' = [mem EXCEPT ![r] = n]
    PROVE  /\ mem' \in [Process -> Region]
           /\ mem'[r] = n
           /\ \A q \in Process : q # r => mem'[q] = mem[q]
BY DEF Types, RegionTypes

\* Whoever zeroes a region, nobody maps it.
OpensAt(p) ==
    /\ mapped' \in [Process -> Process \cup {None}]
    /\ \A q \in Process : q # p => mapped'[q] = mapped[q]
    /\ mapped[p] = None /\ mapped'[p] \in Process
    /\ mem' \in [Process -> Region]
    /\ \/ /\ mem'[p] = Zeroed /\ mapped'[p] = p
          /\ \A q \in Process : q # p => mem'[q] = mem[q]
          /\ Linux \/ \A q \in Process : mapped[q] = None
       \/ /\ mem' = mem /\ ~Linux
          /\ \E q \in Process : mapped[q] # None
          /\ \A q \in Process : mapped[q] # None => mapped[q] = mapped'[p]

LEMMA OpenNameEffect ==
    ASSUME Types, NEW p \in Process, OpenName(p), mapped[p] = None, ~Linux
    PROVE  OpensAt(p)
<1>1. CASE Named = {}
    <2>1. mapped' = [mapped EXCEPT ![p] = p] /\ mem' = [mem EXCEPT ![p] = Zeroed]
        BY <1>1 DEF OpenName
    <2>2. \A q \in Process : mapped[q] = None
        BY <1>1 DEF Named
    <2>3. /\ mem' \in [Process -> Region] /\ mem'[p] = Zeroed
          /\ \A q \in Process : q # p => mem'[q] = mem[q]
        BY <2>1, ZeroedTyped, RegionPut
    <2> QED
        BY <2>1, <2>2, <2>3, Apart DEF OpensAt, Types, RegionTypes
<1>2. CASE Named # {}
    <2>1. PICK q \in Process : mapped[q] # None
        BY <1>2 DEF Named
    <2>2. \A x \in Named : x = mapped[q]
        BY <2>1 DEF Named, Types, Mappings
    <2>3. mapped[q] \in Named
        BY <2>1 DEF Named
    <2>4. (CHOOSE x \in Named : TRUE) = mapped[q]
        BY <2>2, <2>3
    <2>5. mapped' = [mapped EXCEPT ![p] = mapped[q]] /\ mem' = mem
        BY <1>2, <2>4 DEF OpenName
    <2>6. \A x \in Process : mapped[x] # None => mapped[x] = mapped[q]
        BY <2>1 DEF Types, Mappings
    <2>7. mapped[q] \in Process
        BY <2>1 DEF Types, RegionTypes
    <2> QED
        BY <2>1, <2>5, <2>6, <2>7 DEF OpensAt, Types, RegionTypes
<1> QED
    BY <1>1, <1>2

LEMMA OpenEffect ==
    ASSUME Types, NEW c \in Client, Open(c)
    PROVE  OpensAt(c)
<1>1. c \in Process /\ mapped[c] = None
    BY Apart DEF Open, Types, Mappings, Unmapped
<1>2. CASE Linux
    <2>1. mapped' = [mapped EXCEPT ![c] = c] /\ mem' = [mem EXCEPT ![c] = Zeroed]
        BY <1>2 DEF Open
    <2>2. /\ mem' \in [Process -> Region] /\ mem'[c] = Zeroed
          /\ \A q \in Process : q # c => mem'[q] = mem[q]
        BY <1>1, <2>1, ZeroedTyped, RegionPut
    <2> QED
        BY <1>1, <1>2, <2>1, <2>2 DEF OpensAt, Types, RegionTypes
<1>3. CASE ~Linux
    BY <1>1, <1>3, OpenNameEffect DEF Open
<1> QED
    BY <1>2, <1>3

LEMMA OpenRegionEffect ==
    ASSUME Types, NEW s \in Server, OpenRegion(s)
    PROVE  OpensAt(s)
BY Apart, OpenNameEffect DEF OpenRegion, Types, Mappings, Shut

LEMMA InitEffect ==
    ASSUME Types, NEW c \in Client, InitControl(c)
    PROVE  LET r == mapped[c]  m == mem[r]  n == mem'[r]  f == field[c]
           IN  /\ r \in Process /\ m \in Region /\ n \in Region
               /\ mem' \in [Process -> Region]
               /\ \A q \in Process : q # r => mem'[q] = mem[q]
               /\ n.req = m.req /\ n.resp = m.resp
               /\ n.reqHead = IF f = 1 THEN 0 ELSE m.reqHead
               /\ n.reqTail = IF f = 2 THEN 0 ELSE m.reqTail
               /\ n.respHead = IF f = 3 THEN 0 ELSE m.respHead
               /\ n.respTail = IF f = 4 THEN 0 ELSE m.respTail
               /\ n.ready = IF f = 5 THEN 0 ELSE m.ready
               /\ field' = [field EXCEPT ![c] = IF f < 5 THEN f + 1 ELSE f]
               /\ pc' = [pc EXCEPT ![c] = IF f = 5 THEN "connecting" ELSE pc[c]]
<1> DEFINE r == mapped[c]
           n == Cleared(mem[r], Fields[field[c]])
<1>1. r \in Process /\ mem[r] \in Region /\ field[c] \in 1 .. 5
    BY Apart, MapTypes DEF InitControl, Types, Mappings, Unmapped, ClientTypes
<1>2. mem' = [mem EXCEPT ![r] = n]
    BY DEF InitControl
<1>3. n \in Region
    BY <1>1, ClearedTyped
<1>4. /\ mem' \in [Process -> Region] /\ mem'[r] = n
      /\ \A q \in Process : q # r => mem'[q] = mem[q]
    BY <1>1, <1>2, <1>3, RegionPut
<1>5. Len(Fields) = 5
    BY DEF Fields
<1>6. /\ field' = [field EXCEPT ![c] = IF field[c] < 5 THEN field[c] + 1 ELSE field[c]]
      /\ pc' = [pc EXCEPT ![c] = IF field[c] = 5 THEN "connecting" ELSE pc[c]]
    BY <1>5 DEF InitControl
<1> HIDE DEF n
<1> QED
    BY <1>1, <1>3, <1>4, <1>6, ClearedTyped DEF n

LEMMA WriteRequestEffect ==
    ASSUME Types, NEW c \in Client, WriteRequest(c)
    PROVE  LET r == mapped[c]  m == mem[r]  n == mem'[r]
           IN  /\ r \in Process /\ m \in Region /\ n \in Region
               /\ mem' \in [Process -> Region]
               /\ \A q \in Process : q # r => mem'[q] = mem[q]
               /\ n.req = Written(m.req, m.reqHead, NextText(c)) /\ n.resp = m.resp
               /\ n.reqHead = m.reqHead /\ n.reqTail = m.reqTail
               /\ n.respHead = m.respHead /\ n.respTail = m.respTail
               /\ n.ready = m.ready
               /\ NextText(c) \in Descriptor
<1> DEFINE r == mapped[c]
           w == Written(mem[r].req, mem[r].reqHead, NextText(c))
           n == [mem[r] EXCEPT !.req = w]
<1>1. r \in Process /\ mem[r] \in Region
    BY Apart, MapTypes DEF WriteRequest, Types, Mappings, Unmapped
<1>2. mem' = [mem EXCEPT ![r] = n]
    BY DEF WriteRequest
<1>3. NextText(c) \in Descriptor
    BY Texts DEF NextText, Types, ClientTypes
<1>4. w \in Slots
    BY <1>1, <1>3, WrittenSlots DEF Region
<1> HIDE DEF w
<1>5. n \in Region /\ n.req = w /\ n.resp = mem[r].resp
      /\ n.reqHead = mem[r].reqHead /\ n.reqTail = mem[r].reqTail
      /\ n.respHead = mem[r].respHead /\ n.respTail = mem[r].respTail
      /\ n.ready = mem[r].ready
    BY <1>1, <1>4 DEF Region
<1> HIDE DEF n
<1>6. /\ mem' \in [Process -> Region] /\ mem'[r] = n
      /\ \A q \in Process : q # r => mem'[q] = mem[q]
    BY <1>1, <1>2, <1>5, RegionPut
<1> QED
    BY <1>1, <1>3, <1>5, <1>6 DEF w

LEMMA PublishRequestEffect ==
    ASSUME Types, NEW c \in Client, PublishRequest(c)
    PROVE  LET r == mapped[c]  m == mem[r]  n == mem'[r]
           IN  /\ r \in Process /\ m \in Region /\ n \in Region
               /\ mem' \in [Process -> Region]
               /\ \A q \in Process : q # r => mem'[q] = mem[q]
               /\ n.req = m.req /\ n.resp = m.resp
               /\ n.reqHead = m.reqHead + 1 /\ n.reqTail = m.reqTail
               /\ n.respHead = m.respHead /\ n.respTail = m.respTail
               /\ n.ready = m.ready
<1> DEFINE r == mapped[c]
           n == [mem[r] EXCEPT !.reqHead = @ + 1]
<1>1. r \in Process /\ mem[r] \in Region
    BY Apart, MapTypes DEF PublishRequest, Types, Mappings, Unmapped
<1>2. mem' = [mem EXCEPT ![r] = n]
    BY DEF PublishRequest
<1>3. n \in Region /\ n.req = mem[r].req /\ n.resp = mem[r].resp
      /\ n.reqHead = mem[r].reqHead + 1 /\ n.reqTail = mem[r].reqTail
      /\ n.respHead = mem[r].respHead /\ n.respTail = mem[r].respTail
      /\ n.ready = mem[r].ready
    BY <1>1 DEF Region
<1> HIDE DEF n
<1>4. /\ mem' \in [Process -> Region] /\ mem'[r] = n
      /\ \A q \in Process : q # r => mem'[q] = mem[q]
    BY <1>1, <1>2, <1>3, RegionPut
<1> QED
    BY <1>1, <1>3, <1>4

LEMMA ReceiveEffect ==
    ASSUME Types, NEW c \in Client, ReceiveResponse(c)
    PROVE  LET r == mapped[c]  m == mem[r]  n == mem'[r]
           IN  /\ r \in Process /\ m \in Region /\ n \in Region
               /\ mem' \in [Process -> Region]
               /\ \A q \in Process : q # r => mem'[q] = mem[q]
               /\ n.req = m.req /\ n.resp = m.resp
               /\ n.reqHead = m.reqHead /\ n.reqTail = m.reqTail
               /\ n.respHead = m.respHead /\ n.respTail = m.respTail + 1
               /\ n.ready = m.ready
               /\ m.respHead > m.respTail
               /\ At(m.resp, m.respTail) \in Descriptor
               /\ outcome' = [outcome EXCEPT ![c] = Append(@, At(m.resp, m.respTail))]
<1> DEFINE r == mapped[c]
           n == [mem[r] EXCEPT !.respTail = @ + 1]
<1>1. r \in Process /\ mem[r] \in Region
    BY Apart, MapTypes DEF ReceiveResponse, Types, Mappings, Unmapped
<1>2. mem' = [mem EXCEPT ![r] = n]
    BY DEF ReceiveResponse
<1>3. n \in Region /\ n.req = mem[r].req /\ n.resp = mem[r].resp
      /\ n.reqHead = mem[r].reqHead /\ n.reqTail = mem[r].reqTail
      /\ n.respHead = mem[r].respHead /\ n.respTail = mem[r].respTail + 1
      /\ n.ready = mem[r].ready
    BY <1>1 DEF Region
<1> HIDE DEF n
<1>4. /\ mem' \in [Process -> Region] /\ mem'[r] = n
      /\ \A q \in Process : q # r => mem'[q] = mem[q]
    BY <1>1, <1>2, <1>3, RegionPut
<1>5. mem[r].resp \in Slots
    BY <1>1 DEF Region
<1>6. At(mem[r].resp, mem[r].respTail) \in Descriptor
    BY <1>5, SlotsTyped
<1>7. /\ mem[r].respHead > mem[r].respTail
      /\ outcome' = [outcome EXCEPT ![c] = Append(@, At(mem[r].resp, mem[r].respTail))]
    BY DEF ReceiveResponse, Returned
<1> QED
    BY <1>1, <1>3, <1>4, <1>6, <1>7

LEMMA ServeEffect ==
    ASSUME Types, NEW s \in Server, Serve(s)
    PROVE  LET r == mapped[s]  m == mem[r]  n == mem'[r]
           IN  /\ r \in Process /\ m \in Region /\ n \in Region
               /\ mem' \in [Process -> Region]
               /\ \A q \in Process : q # r => mem'[q] = mem[q]
               /\ n.req = m.req /\ n.resp = m.resp
               /\ n.reqHead = m.reqHead /\ n.reqTail = m.reqTail
               /\ n.respHead = m.respHead /\ n.respTail = m.respTail
<1> DEFINE r == mapped[s]
           n == [mem[r] EXCEPT !.ready = 1]
<1>1. r \in Process /\ mem[r] \in Region
    BY Apart, MapTypes DEF Serve, Types, Mappings, Shut
<1>2. mem' = [mem EXCEPT ![r] = n]
    BY DEF Serve
<1>3. n \in Region /\ n.req = mem[r].req /\ n.resp = mem[r].resp
      /\ n.reqHead = mem[r].reqHead /\ n.reqTail = mem[r].reqTail
      /\ n.respHead = mem[r].respHead /\ n.respTail = mem[r].respTail
    BY <1>1 DEF Region
<1> HIDE DEF n
<1>4. /\ mem' \in [Process -> Region] /\ mem'[r] = n
      /\ \A q \in Process : q # r => mem'[q] = mem[q]
    BY <1>1, <1>2, <1>3, RegionPut
<1> QED
    BY <1>1, <1>3, <1>4

LEMMA TakeEffect ==
    ASSUME Types, NEW s \in Server, TakeRequest(s)
    PROVE  LET r == mapped[s]  m == mem[r]  n == mem'[r]  x == At(m.req, cursor[s])
           IN  /\ r \in Process /\ m \in Region /\ n \in Region
               /\ mem' \in [Process -> Region]
               /\ \A q \in Process : q # r => mem'[q] = mem[q]
               /\ n.req = m.req /\ n.resp = m.resp
               /\ n.reqHead = m.reqHead /\ n.reqTail = cursor[s] + 1
               /\ n.respHead = m.respHead /\ n.respTail = m.respTail
               /\ n.ready = m.ready
               /\ m.reqHead > cursor[s] /\ x \in Descriptor
               /\ IF x = Shutdown
                  THEN /\ mapped' = [mapped EXCEPT ![s] = None]
                       /\ spc' = [spc EXCEPT ![s] = "stopped"]
                       /\ request' = request /\ history' = history
                  ELSE /\ mapped' = mapped
                       /\ spc' = [spc EXCEPT ![s] = "generating"]
                       /\ request' = [request EXCEPT ![s] = x]
                       /\ history' = [history EXCEPT ![s] = Append(@, x)]
<1> DEFINE r == mapped[s]
           n == Released(mem[r], cursor[s])
           x == At(mem[r].req, cursor[s])
<1>1. r \in Process /\ mem[r] \in Region
    BY Apart, MapTypes DEF TakeRequest, Types, Mappings, Shut
<1>2. mem' = [mem EXCEPT ![r] = n]
    BY DEF TakeRequest
<1>3. n \in Region /\ n.req = mem[r].req /\ n.resp = mem[r].resp
      /\ n.reqHead = mem[r].reqHead /\ n.reqTail = cursor[s] + 1
      /\ n.respHead = mem[r].respHead /\ n.respTail = mem[r].respTail
      /\ n.ready = mem[r].ready
    <2>1. cursor[s] + 1 \in Nat
        BY DEF Types, ServerTypes
    <2> QED
        BY <1>1, <2>1 DEF Region, Released
<1> HIDE DEF n
<1>4. /\ mem' \in [Process -> Region] /\ mem'[r] = n
      /\ \A q \in Process : q # r => mem'[q] = mem[q]
    BY <1>1, <1>2, <1>3, RegionPut
<1>5. mem[r].req \in Slots
    BY <1>1 DEF Region
<1>6. x \in Descriptor
    BY <1>5, SlotsTyped
<1>7. /\ mem[r].reqHead > cursor[s]
      /\ IF x = Shutdown
         THEN /\ mapped' = [mapped EXCEPT ![s] = None]
              /\ spc' = [spc EXCEPT ![s] = "stopped"]
              /\ request' = request /\ history' = history
         ELSE /\ mapped' = mapped
              /\ spc' = [spc EXCEPT ![s] = "generating"]
              /\ request' = [request EXCEPT ![s] = x]
              /\ history' = [history EXCEPT ![s] = Append(@, x)]
    BY DEF TakeRequest, Stop
<1> HIDE DEF x, r
<1>8. QED
    BY <1>1, <1>3, <1>4, <1>6, <1>7 DEF x, r

LEMMA WriteResponseEffect ==
    ASSUME Types, NEW s \in Server, WriteResponse(s)
    PROVE  LET r == mapped[s]  m == mem[r]  n == mem'[r]
           IN  /\ r \in Process /\ m \in Region /\ n \in Region
               /\ mem' \in [Process -> Region]
               /\ \A q \in Process : q # r => mem'[q] = mem[q]
               /\ n.req = m.req
               /\ n.resp = Written(m.resp, m.respHead, request[s])
               /\ n.reqHead = m.reqHead /\ n.reqTail = m.reqTail
               /\ n.respHead = m.respHead /\ n.respTail = m.respTail
               /\ n.ready = m.ready
               /\ cursor' = [cursor EXCEPT ![s] = m.respHead]
<1> DEFINE r == mapped[s]
           w == Written(mem[r].resp, mem[r].respHead, request[s])
           n == [mem[r] EXCEPT !.resp = w]
<1>1. r \in Process /\ mem[r] \in Region
    BY Apart, MapTypes DEF WriteResponse, Types, Mappings, Shut
<1>2. mem' = [mem EXCEPT ![r] = n]
    BY DEF WriteResponse
<1>3. w \in Slots
    <2>1. request[s] \in Descriptor
        BY DEF WriteResponse, Types, ServerTypes, Mappings
    <2> QED
        BY <1>1, <2>1, WrittenSlots DEF Region
<1> HIDE DEF w
<1>4. n \in Region /\ n.req = mem[r].req /\ n.resp = w
      /\ n.reqHead = mem[r].reqHead /\ n.reqTail = mem[r].reqTail
      /\ n.respHead = mem[r].respHead /\ n.respTail = mem[r].respTail
      /\ n.ready = mem[r].ready
    BY <1>1, <1>3 DEF Region
<1> HIDE DEF n
<1>5. /\ mem' \in [Process -> Region] /\ mem'[r] = n
      /\ \A q \in Process : q # r => mem'[q] = mem[q]
    BY <1>1, <1>2, <1>4, RegionPut
<1>6. cursor' = [cursor EXCEPT ![s] = mem[r].respHead]
    BY DEF WriteResponse
<1> QED
    BY <1>1, <1>4, <1>5, <1>6 DEF w

LEMMA PublishResponseEffect ==
    ASSUME Types, NEW s \in Server, PublishResponse(s)
    PROVE  LET r == mapped[s]  m == mem[r]  n == mem'[r]
           IN  /\ r \in Process /\ m \in Region /\ n \in Region
               /\ mem' \in [Process -> Region]
               /\ \A q \in Process : q # r => mem'[q] = mem[q]
               /\ n.req = m.req /\ n.resp = m.resp
               /\ n.reqHead = m.reqHead /\ n.reqTail = m.reqTail
               /\ n.respHead = cursor[s] + 1 /\ n.respTail = m.respTail
               /\ n.ready = m.ready
<1> DEFINE r == mapped[s]
           n == [mem[r] EXCEPT !.respHead = cursor[s] + 1]
<1>1. r \in Process /\ mem[r] \in Region
    BY Apart, MapTypes DEF PublishResponse, Types, Mappings, Shut
<1>2. mem' = [mem EXCEPT ![r] = n]
    BY DEF PublishResponse
<1>3. n \in Region /\ n.req = mem[r].req /\ n.resp = mem[r].resp
      /\ n.reqHead = mem[r].reqHead /\ n.reqTail = mem[r].reqTail
      /\ n.respHead = cursor[s] + 1 /\ n.respTail = mem[r].respTail
      /\ n.ready = mem[r].ready
    <2>1. cursor[s] + 1 \in Nat
        BY DEF Types, ServerTypes
    <2> QED
        BY <1>1, <2>1 DEF Region
<1> HIDE DEF n
<1>4. /\ mem' \in [Process -> Region] /\ mem'[r] = n
      /\ \A q \in Process : q # r => mem'[q] = mem[q]
    BY <1>1, <1>2, <1>3, RegionPut
<1> QED
    BY <1>1, <1>3, <1>4

-----------------------------------------------------------------------------
(* Every step keeps the types *)

LEMMA TypesClient ==
    ASSUME Types, NEW c \in Client,
           \/ \E s \in Server : Connect(c, s)
           \/ Greet(c) \/ Acknowledged(c) \/ SeeReady(c)
           \/ ResponseTimeout(c) \/ CloseClient(c)
    PROVE  Types'
<1> USE DEF serverVars, clientVars, historyVars, regionVars
<1>1. ASSUME NEW s \in Server, Connect(c, s)
      PROVE  Types'
    <2>1. backlog' \in [Server -> Seq(Client)]
        BY <1>1 DEF Connect, Types, ServerTypes
    <2>2. RegionTypes' /\ ClientTypes' /\ ServerTypes'
        BY <1>1, <2>1 DEF Types, RegionTypes, ClientTypes, ServerTypes, Connect,
           Unmapped, Shaking, Turning, Shut, Serving
    <2>3. Mappings'
        BY <1>1, <2>1, Apart
           DEF Types, RegionTypes, ClientTypes, ServerTypes, Mappings, Linux,
               Connect, Unmapped, Shut, Serving
    <2>4. TurnsCounted'
        BY <1>1, <2>1, Apart DEF Types, ClientTypes, TurnsCounted, Connect, Shaking
    <2> QED
        BY <2>2, <2>3, <2>4 DEF Types
<1>2. CASE Greet(c)
    <2>1. RegionTypes' /\ ClientTypes' /\ ServerTypes'
        BY <1>2 DEF Types, RegionTypes, ClientTypes, ServerTypes, Greet,
           Unmapped, Shaking, Turning, Shut, Serving
    <2>2. Mappings'
        BY <1>2, Apart
           DEF Types, RegionTypes, ClientTypes, ServerTypes, Mappings, Linux, Greet,
               Unmapped, Shut, Serving
    <2>3. TurnsCounted'
        BY <1>2, Apart DEF Types, ClientTypes, TurnsCounted, Greet, Shaking
    <2> QED
        BY <2>1, <2>2, <2>3 DEF Types
<1>3. CASE Acknowledged(c)
    <2>1. RegionTypes' /\ ClientTypes' /\ ServerTypes'
        BY <1>3
           DEF Types, RegionTypes, ClientTypes, ServerTypes, Acknowledged,
               ClientGoes, Unmapped, Shaking, Turning, Shut, Serving
    <2>2. Mappings'
        BY <1>3, Apart
           DEF Types, RegionTypes, ClientTypes, ServerTypes, Mappings, Linux,
               Acknowledged, ClientGoes, Unmapped, Shut, Serving
    <2>3. TurnsCounted'
        BY <1>3, Apart
           DEF Types, ClientTypes, TurnsCounted, Acknowledged, ClientGoes, Shaking
    <2> QED
        BY <2>1, <2>2, <2>3 DEF Types
<1>4. CASE SeeReady(c)
    <2>1. RegionTypes' /\ ClientTypes' /\ ServerTypes'
        BY <1>4 DEF Types, RegionTypes, ClientTypes, ServerTypes, SeeReady, ClientGoes,
           Unmapped, Shaking, Turning, Shut, Serving
    <2>2. Mappings'
        BY <1>4, Apart
           DEF Types, RegionTypes, ClientTypes, ServerTypes, Mappings, Linux,
               SeeReady, ClientGoes, Unmapped, Shut, Serving
    <2>3. TurnsCounted'
        BY <1>4, Apart
           DEF Types, ClientTypes, TurnsCounted, SeeReady, ClientGoes, Shaking
    <2> QED
        BY <2>1, <2>2, <2>3 DEF Types
<1>5. CASE ResponseTimeout(c)
    <2>1. RegionTypes' /\ ClientTypes' /\ ServerTypes'
        BY <1>5
           DEF Types, RegionTypes, ClientTypes, ServerTypes, ResponseTimeout,
               Returned, Unmapped, Shaking, Turning, Shut, Serving
    <2>2. Mappings'
        BY <1>5, Apart
           DEF Types, RegionTypes, ClientTypes, ServerTypes, Mappings, Linux,
               ResponseTimeout, Returned, Unmapped, Shut, Serving
    <2>3. TurnsCounted'
        BY <1>5, Apart
           DEF Types, ClientTypes, TurnsCounted, ResponseTimeout, Returned, Shaking
    <2> QED
        BY <2>1, <2>2, <2>3 DEF Types
<1>6. CASE CloseClient(c)
    <2>1. RegionTypes' /\ ClientTypes' /\ ServerTypes'
        BY <1>6
           DEF Types, RegionTypes, ClientTypes, ServerTypes, CloseClient,
               ClientGoes, Unmapped, Shaking, Turning, Shut, Serving
    <2>2. Mappings'
        BY <1>6, Apart
           DEF Types, RegionTypes, ClientTypes, ServerTypes, Mappings, Linux,
               CloseClient, ClientGoes, Unmapped, Shut, Serving
    <2>3. TurnsCounted'
        BY <1>6, Apart
           DEF Types, ClientTypes, TurnsCounted, CloseClient, ClientGoes, Shaking
    <2> QED
        BY <2>1, <2>2, <2>3 DEF Types
<1> QED
    BY <1>1, <1>2, <1>3, <1>4, <1>5, <1>6

LEMMA TypesRaise ==
    ASSUME Types, NEW c \in Client, ClientRaises(c), pc[c] \notin {"done", "dead"}
    PROVE  Types'
BY Apart
   DEF Types, RegionTypes, ClientTypes, ServerTypes, Mappings, TurnsCounted, Linux,
       Unmapped, Shaking, Turning, Shut, Serving, ClientRaises, ClientGoes,
       serverVars, historyVars

LEMMA TypesServerRaise ==
    ASSUME Types, NEW s \in Server, ServerRaises(s), spc[s] # "stopped"
    PROVE  Types'
BY Apart
   DEF Types, RegionTypes, ClientTypes, ServerTypes, Mappings, TurnsCounted, Linux,
       Unmapped, Shaking, Turning, Shut, Serving, ServerRaises, ServerGoes,
       clientVars, historyVars

LEMMA TypesClientMem ==
    ASSUME Types, NEW c \in Client,
           \/ InitControl(c) \/ WriteRequest(c) \/ PublishRequest(c) \/ ReceiveResponse(c)
    PROVE  Types'
<1> USE DEF serverVars, clientVars, historyVars, regionVars
<1>1. CASE InitControl(c)
    <2>1. mem' \in [Process -> Region]
        BY <1>1, InitEffect
    <2>2. /\ field' = [field EXCEPT ![c] = IF field[c] < 5 THEN field[c] + 1 ELSE field[c]]
          /\ pc' = [pc EXCEPT ![c] = IF field[c] = 5 THEN "connecting" ELSE pc[c]]
        BY <1>1, InitEffect
    <2>3. RegionTypes' /\ ClientTypes' /\ ServerTypes'
        BY <1>1, <2>1, <2>2
           DEF Types, RegionTypes, ClientTypes, ServerTypes, InitControl, Unmapped,
               Shaking, Turning, Shut, Serving
    <2>4. Mappings'
        BY <1>1, <2>1, <2>2, Apart
           DEF Types, RegionTypes, ClientTypes, ServerTypes, Mappings, Linux,
               InitControl, Unmapped, Shut, Serving
    <2>5. TurnsCounted'
        BY <1>1, <2>1, <2>2, Apart
           DEF Types, ClientTypes, TurnsCounted, InitControl, Shaking
    <2> QED
        BY <2>3, <2>4, <2>5 DEF Types
<1>2. CASE WriteRequest(c)
    <2>1. mem' \in [Process -> Region]
        BY <1>2, WriteRequestEffect
    <2>2. RegionTypes' /\ ClientTypes' /\ ServerTypes'
        BY <1>2, <2>1
           DEF Types, RegionTypes, ClientTypes, ServerTypes, WriteRequest,
               ClientGoes, Unmapped, Shaking, Turning, Shut, Serving
    <2>3. Mappings'
        BY <1>2, <2>1, Apart
           DEF Types, RegionTypes, ClientTypes, ServerTypes, Mappings, Linux,
               WriteRequest, ClientGoes, Unmapped, Shut, Serving
    <2>4. TurnsCounted'
        BY <1>2, <2>1, Apart
           DEF Types, ClientTypes, TurnsCounted, WriteRequest, ClientGoes, Shaking
    <2> QED
        BY <2>2, <2>3, <2>4 DEF Types
<1>3. CASE PublishRequest(c)
    <2>1. mem' \in [Process -> Region]
        BY <1>3, PublishRequestEffect
    <2>2. RegionTypes' /\ ClientTypes' /\ ServerTypes'
        BY <1>3, <2>1 DEF Types, RegionTypes, ClientTypes, ServerTypes, PublishRequest,
           Unmapped, Shaking, Turning, Shut, Serving
    <2>3. Mappings'
        BY <1>3, <2>1, Apart
           DEF Types, RegionTypes, ClientTypes, ServerTypes, Mappings, Linux,
               PublishRequest, Unmapped, Shut, Serving
    <2>4. TurnsCounted'
        BY <1>3, <2>1, Apart
           DEF Types, ClientTypes, TurnsCounted, PublishRequest, Shaking
    <2> QED
        BY <2>2, <2>3, <2>4 DEF Types
<1>4. CASE ReceiveResponse(c)
    <2>1. mem' \in [Process -> Region]
        BY <1>4, ReceiveEffect
    <2>2. PICK x \in Descriptor : outcome' = [outcome EXCEPT ![c] = Append(@, x)]
        BY <1>4, ReceiveEffect
    <2>3. RegionTypes' /\ ClientTypes' /\ ServerTypes'
        BY <1>4, <2>1, <2>2
           DEF Types, RegionTypes, ClientTypes, ServerTypes, ReceiveResponse,
               Returned, Unmapped, Shaking, Turning, Shut, Serving
    <2>4. Mappings'
        BY <1>4, <2>1, <2>2, Apart
           DEF Types, RegionTypes, ClientTypes, ServerTypes, Mappings, Linux,
               ReceiveResponse, Returned, Unmapped, Shut, Serving
    <2>5. TurnsCounted'
        BY <1>4, <2>1, <2>2, Apart
           DEF Types, ClientTypes, TurnsCounted, ReceiveResponse, Returned, Shaking
    <2> QED
        BY <2>3, <2>4, <2>5 DEF Types
<1> QED
    BY <1>1, <1>2, <1>3, <1>4

LEMMA TypesServerHandshake ==
    ASSUME Types, NEW s \in Server,
           \/ Listens(s) \/ Accept(s) \/ Answer(s) \/ Attach(s)
           \/ AnswerLinux(s)
    PROVE  Types'
<1> USE DEF serverVars, clientVars, historyVars, regionVars
<1>1. CASE Listens(s)
    <2>1. /\ spc[s] = "off" /\ ServerGoes(s, "listening")
          /\ UNCHANGED <<regionVars, ack, historyVars>>
        BY <1>1 DEF Listens
    <2>2. RegionTypes' /\ ClientTypes' /\ ServerTypes'
        BY <2>1 DEF Types, RegionTypes, ClientTypes, ServerTypes, ServerGoes,
           Unmapped, Shaking, Turning, Shut, Serving
    <2>3. Mappings'
        BY <2>1, Apart
           DEF Types, RegionTypes, ClientTypes, ServerTypes, Mappings, Linux,
               ServerGoes, Unmapped, Shut, Serving
    <2>4. TurnsCounted'
        BY <2>1, Apart DEF Types, ClientTypes, TurnsCounted, ServerGoes, Shaking
    <2> QED
        BY <2>2, <2>3, <2>4 DEF Types
<1>2. CASE Accept(s)
    <2>1. Head(backlog[s]) \in Client
        BY <1>2 DEF Accept, Types, ServerTypes
    <2>2. RegionTypes' /\ ClientTypes' /\ ServerTypes'
        BY <1>2, <2>1 DEF Types, RegionTypes, ClientTypes, ServerTypes, Accept,
           Unmapped, Shaking, Turning, Shut, Serving
    <2>3. Mappings'
        <3>1. /\ mapped' = mapped /\ pc' = pc /\ request' = request
              /\ (Linux' <=> Linux)
              /\ mapped[s] = None
              /\ spc'[s] = "accepted" /\ peer'[s] \in Client
              /\ \A t \in Server : t # s => spc'[t] = spc[t] /\ peer'[t] = peer[t]
            BY <1>2, <2>1 DEF Accept, Types, ServerTypes, Mappings, Linux, Shut
        <3> QED
            BY <3>1, Apart DEF Types, Mappings, Shut
    <2>4. TurnsCounted'
        BY <1>2, <2>1, Apart DEF Types, ClientTypes, TurnsCounted, Accept, Shaking
    <2> QED
        BY <2>2, <2>3, <2>4 DEF Types
<1>3. CASE Answer(s)
    <2>1. peer[s] \in Client
        BY <1>3 DEF Answer, Types, ServerTypes, Mappings, Serving
    <2>2. RegionTypes' /\ ClientTypes' /\ ServerTypes'
        BY <1>3, <2>1
           DEF Types, RegionTypes, ClientTypes, ServerTypes, Answer, SendOK,
               ServerGoes, Unmapped, Shaking, Turning, Shut, Serving
    <2>3. Mappings'
        BY <1>3, <2>1, Apart
           DEF Types, RegionTypes, ClientTypes, ServerTypes, Mappings, Linux,
               Answer, SendOK, ServerGoes, Unmapped, Shut, Serving
    <2>4. TurnsCounted'
        BY <1>3, <2>1, Apart
           DEF Types, ClientTypes, TurnsCounted, Answer, SendOK, ServerGoes, Shaking
    <2> QED
        BY <2>2, <2>3, <2>4 DEF Types
<1>4. CASE Attach(s)
    <2>1. peer[s] \in Client
        BY <1>4 DEF Attach, Types, ServerTypes, Mappings, Serving
    <2>2. welcome' \in [Client -> SUBSET Server]
        BY <1>4, <2>1 DEF Attach, Types, ClientTypes
    <2>3. RegionTypes' /\ ClientTypes' /\ ServerTypes'
        BY <1>4, <2>1, <2>2, Apart
           DEF Types, RegionTypes, ClientTypes, ServerTypes, Attach, ServerGoes,
               Unmapped, Shaking, Turning, Shut, Serving
    <2>4. Mappings'
        BY <1>4, <2>1, <2>2, Apart
           DEF Types, RegionTypes, ClientTypes, ServerTypes, Mappings, Linux,
               Attach, ServerGoes, Unmapped, Shut, Serving
    <2>5. TurnsCounted'
        BY <1>4, <2>1, <2>2, Apart
           DEF Types, ClientTypes, TurnsCounted, Attach, ServerGoes, Shaking
    <2> QED
        BY <2>3, <2>4, <2>5 DEF Types
<1>5. CASE AnswerLinux(s)
    <2>1. peer[s] \in Client
        BY <1>5 DEF AnswerLinux, Types, ServerTypes, Mappings, Serving
    <2>2. RegionTypes' /\ ClientTypes' /\ ServerTypes'
        BY <1>5, <2>1
           DEF Types, RegionTypes, ClientTypes, ServerTypes, AnswerLinux, SendOK,
               ServerGoes, Unmapped, Shaking, Turning, Shut, Serving
    <2>3. Mappings'
        BY <1>5, <2>1, Apart
           DEF Types, RegionTypes, ClientTypes, ServerTypes, Mappings, Linux,
               AnswerLinux, SendOK, ServerGoes, Unmapped, Shut, Serving
    <2>4. TurnsCounted'
        BY <1>5, <2>1, Apart
           DEF Types, ClientTypes, TurnsCounted, AnswerLinux, SendOK, ServerGoes,
               Shaking
    <2> QED
        BY <2>2, <2>3, <2>4 DEF Types
<1> QED
    BY <1>1, <1>2, <1>3, <1>4, <1>5

LEMMA TypesServe ==
    ASSUME Types, NEW s \in Server,
           \/ Serve(s) \/ AwaitRequest(s) \/ TakeRequest(s) \/ IdleTimeout(s)
           \/ WriteResponse(s) \/ PublishResponse(s)
    PROVE  Types'
<1> USE DEF serverVars, clientVars, historyVars, regionVars
<1>1. CASE Serve(s)
    <2>1. mem' \in [Process -> Region]
        BY <1>1, ServeEffect
    <2>2. RegionTypes' /\ ClientTypes' /\ ServerTypes'
        BY <1>1, <2>1
           DEF Types, RegionTypes, ClientTypes, ServerTypes, Serve, ServerGoes,
               Unmapped, Shaking, Turning, Shut, Serving
    <2>3. Mappings'
        BY <1>1, <2>1, Apart
           DEF Types, RegionTypes, ClientTypes, ServerTypes, Mappings, Linux, Serve,
               ServerGoes, Unmapped, Shut, Serving
    <2>4. TurnsCounted'
        BY <1>1, <2>1, Apart
           DEF Types, ClientTypes, TurnsCounted, Serve, ServerGoes, Shaking
    <2> QED
        BY <2>2, <2>3, <2>4 DEF Types
<1>2. CASE AwaitRequest(s)
    <2>1. mem[mapped[s]].reqTail \in Nat
        BY <1>2, Apart, MapTypes DEF AwaitRequest, Region, Types, Mappings, Shut
    <2>2. RegionTypes' /\ ClientTypes' /\ ServerTypes'
        BY <1>2, <2>1 DEF Types, RegionTypes, ClientTypes, ServerTypes, AwaitRequest,
           Unmapped, Shaking, Turning, Shut, Serving
    <2>3. Mappings'
        BY <1>2, <2>1, Apart
           DEF Types, RegionTypes, ClientTypes, ServerTypes, Mappings, Linux,
               AwaitRequest, Unmapped, Shut, Serving
    <2>4. TurnsCounted'
        BY <1>2, <2>1, Apart DEF Types, ClientTypes, TurnsCounted, AwaitRequest, Shaking
    <2> QED
        BY <2>2, <2>3, <2>4 DEF Types
<1>3. CASE TakeRequest(s)
    <2>1. /\ spc[s] = "polling"
          /\ UNCHANGED <<platform, clientVars, ack, backlog, peer, cursor,
                          historyVars>>
        BY <1>3 DEF TakeRequest
    <2>2. mem' \in [Process -> Region]
        BY <1>3, TakeEffect
    <2>3. PICK x \in Descriptor :
             IF x = Shutdown
             THEN /\ mapped' = [mapped EXCEPT ![s] = None]
                  /\ spc' = [spc EXCEPT ![s] = "stopped"]
                  /\ request' = request /\ history' = history
             ELSE /\ mapped' = mapped
                  /\ spc' = [spc EXCEPT ![s] = "generating"]
                  /\ request' = [request EXCEPT ![s] = x]
                  /\ history' = [history EXCEPT ![s] = Append(@, x)]
        BY <1>3, TakeEffect
    <2>4. ClientTypes' /\ TurnsCounted'
        BY <2>1 DEF Types, ClientTypes, TurnsCounted, clientVars, historyVars
    <2>5. CASE x = Shutdown
        <3>1. /\ mapped' = [mapped EXCEPT ![s] = None]
              /\ spc' = [spc EXCEPT ![s] = "stopped"]
              /\ request' = request /\ history' = history
            BY <2>3, <2>5
        <3>2. RegionTypes'
            BY <2>2, <3>1 DEF Types, RegionTypes
        <3>3. ServerTypes'
            BY <2>1, <3>1 DEF Types, ServerTypes, Shut, historyVars
        <3>4. Mappings'
            BY <2>1, <3>1, Apart
               DEF Types, RegionTypes, ServerTypes, Mappings, Linux, Shut, Serving,
                   clientVars
        <3> QED
            BY <2>4, <3>2, <3>3, <3>4 DEF Types
    <2>6. CASE x # Shutdown
        <3>1. /\ mapped' = mapped
              /\ spc' = [spc EXCEPT ![s] = "generating"]
              /\ request' = [request EXCEPT ![s] = x]
              /\ history' = [history EXCEPT ![s] = Append(@, x)]
            BY <2>3, <2>6
        <3>2. RegionTypes'
            BY <2>2, <3>1 DEF Types, RegionTypes
        <3>3. ServerTypes'
            BY <2>1, <3>1 DEF Types, ServerTypes, Serving, historyVars
        <3>4. Mappings'
            BY <2>1, <3>1, Apart
               DEF Types, RegionTypes, ServerTypes, Mappings, Linux, Shut, Serving,
                   clientVars
        <3> QED
            BY <2>4, <3>2, <3>3, <3>4 DEF Types
    <2> QED
        BY <2>5, <2>6
<1>4. CASE IdleTimeout(s)
    <2>1. RegionTypes' /\ ClientTypes' /\ ServerTypes'
        BY <1>4 DEF Types, RegionTypes, ClientTypes, ServerTypes, IdleTimeout, Stop,
           Unmapped, Shaking, Turning, Shut, Serving
    <2>2. Mappings'
        BY <1>4, Apart
           DEF Types, RegionTypes, ClientTypes, ServerTypes, Mappings, Linux,
               IdleTimeout, Stop, Unmapped, Shut, Serving
    <2>3. TurnsCounted'
        BY <1>4, Apart DEF Types, ClientTypes, TurnsCounted, IdleTimeout, Stop, Shaking
    <2> QED
        BY <2>1, <2>2, <2>3 DEF Types
<1>5. CASE WriteResponse(s)
    <2>1. mem' \in [Process -> Region]
        BY <1>5, WriteResponseEffect
    <2>2. mem[mapped[s]].respHead \in Nat
        BY <1>5, WriteResponseEffect DEF Region
    <2>3. cursor' = [cursor EXCEPT ![s] = mem[mapped[s]].respHead]
        BY <1>5 DEF WriteResponse
    <2>4. RegionTypes' /\ ClientTypes' /\ ServerTypes'
        BY <1>5, <2>1, <2>2, <2>3
           DEF Types, RegionTypes, ClientTypes, ServerTypes, WriteResponse,
               Unmapped, Shaking, Turning, Shut, Serving
    <2>5. Mappings'
        BY <1>5, <2>1, <2>2, <2>3, Apart
           DEF Types, RegionTypes, ClientTypes, ServerTypes, Mappings, Linux,
               WriteResponse, Unmapped, Shut, Serving
    <2>6. TurnsCounted'
        BY <1>5, <2>1, <2>2, <2>3, Apart
           DEF Types, ClientTypes, TurnsCounted, WriteResponse, Shaking
    <2> QED
        BY <2>4, <2>5, <2>6 DEF Types
<1>6. CASE PublishResponse(s)
    <2>1. mem' \in [Process -> Region]
        BY <1>6, PublishResponseEffect
    <2>2. RegionTypes' /\ ClientTypes' /\ ServerTypes'
        BY <1>6, <2>1
           DEF Types, RegionTypes, ClientTypes, ServerTypes, PublishResponse,
               ServerGoes, Unmapped, Shaking, Turning, Shut, Serving
    <2>3. Mappings'
        BY <1>6, <2>1, Apart
           DEF Types, RegionTypes, ClientTypes, ServerTypes, Mappings, Linux,
               PublishResponse, ServerGoes, Unmapped, Shut, Serving
    <2>4. TurnsCounted'
        BY <1>6, <2>1, Apart
           DEF Types, ClientTypes, TurnsCounted, PublishResponse, ServerGoes,
               Shaking
    <2> QED
        BY <2>2, <2>3, <2>4 DEF Types
<1> QED
    BY <1>1, <1>2, <1>3, <1>4, <1>5, <1>6

LEMMA TypesOpen ==
    ASSUME Types, NEW c \in Client, Open(c)
    PROVE  Types'
<1>1. OpensAt(c)
    BY OpenEffect
<1>2. RegionTypes'
    BY <1>1 DEF OpensAt, RegionTypes
<1>3. ClientTypes' /\ ServerTypes' /\ TurnsCounted'
    BY DEF Open, Types, ClientTypes, ServerTypes, TurnsCounted, serverVars,
           Unmapped, Shaking, Turning
<1>4. CASE Linux
    <2>1. mapped' = [mapped EXCEPT ![c] = c]
        BY <1>4 DEF Open
    <2> QED
        BY <1>2, <1>3, <1>4, <2>1, Apart
           DEF Open, Types, RegionTypes, ClientTypes, Mappings, Linux, serverVars,
               Unmapped
<1>5. CASE ~Linux
    <2>1. /\ \A d \in Client : mapped'[d] = None <=> pc'[d] \in Unmapped
          /\ \A s \in Server : mapped'[s] = mapped[s]
        <3>1. mapped'[c] # None /\ pc'[c] \notin Unmapped
            BY <1>1, Apart DEF OpensAt, Open, Types, ClientTypes, Unmapped
        <3>2. ASSUME NEW d \in Client, d # c
              PROVE  mapped'[d] = mapped[d] /\ pc'[d] = pc[d]
            BY <1>1, <3>2, Apart DEF OpensAt, Open, Types, ClientTypes
        <3>3. \A s \in Server : mapped'[s] = mapped[s]
            BY <1>1, Apart DEF OpensAt
        <3> QED
            BY <3>1, <3>2, <3>3 DEF Types, Mappings
    <2>2. \A p, q \in Process :
             mapped'[p] # None /\ mapped'[q] # None => mapped'[p] = mapped'[q]
        BY <1>1, <1>5 DEF OpensAt
    <2> QED
        BY <1>2, <1>3, <1>5, <2>1, <2>2
           DEF Open, Types, Mappings, Linux, serverVars
<1> QED
    BY <1>4, <1>5

LEMMA TypesOpenRegion ==
    ASSUME Types, NEW s \in Server, OpenRegion(s)
    PROVE  Types'
<1>1. OpensAt(s) /\ ~Linux
    BY OpenRegionEffect DEF OpenRegion, Types, Mappings
<1>2. RegionTypes'
    BY <1>1 DEF OpensAt, RegionTypes
<1>3. ClientTypes' /\ ServerTypes' /\ TurnsCounted'
    BY DEF OpenRegion, ServerGoes, Types, ClientTypes, ServerTypes, TurnsCounted,
           clientVars, Shut, Serving
<1>4. /\ \A t \in Server : mapped'[t] = None <=> spc'[t] \in Shut
      /\ \A c \in Client : mapped'[c] = mapped[c]
    BY <1>1, Apart DEF OpensAt, OpenRegion, ServerGoes, Types, ServerTypes, Mappings,
                       Shut
<1>5. \A p, q \in Process :
         mapped'[p] # None /\ mapped'[q] # None => mapped'[p] = mapped'[q]
    BY <1>1 DEF OpensAt
<1> QED
    BY <1>1, <1>2, <1>3, <1>4, <1>5
       DEF OpenRegion, ServerGoes, Types, ServerTypes, Mappings, Linux, clientVars,
           Serving

LEMMA TypesStep ==
    ASSUME Types, [Next]_vars
    PROVE  Types'
<1>1. ASSUME NEW c \in Client, ClientMoves(c)
      PROVE  Types'
    BY <1>1, TypesClient, TypesRaise, TypesClientMem, TypesOpen
       DEF ClientMoves, ClientEnds, Unmapped
<1>2. ASSUME NEW s \in Server, ServerMoves(s)
      PROVE  Types'
    BY <1>2, TypesServerHandshake, TypesServerRaise, TypesServe, TypesOpenRegion
       DEF ServerMoves, ServerEnds
<1>3. CASE UNCHANGED vars
    BY <1>3 DEF vars, regionVars, clientVars, serverVars, historyVars, Types,
                RegionTypes, ClientTypes, ServerTypes, Mappings, TurnsCounted, Linux
<1> QED
    BY <1>1, <1>2, <1>3, Moves

LEMMA TypesInit ==
    ASSUME Init
    PROVE  Types
<1>1. RegionTypes
    BY ZeroedTyped DEF Init, RegionTypes
<1>2. ClientTypes
    BY DEF Init, ClientTypes, Unmapped
<1>3. ServerTypes
    <2>1. mixed \in BOOLEAN
        BY DEF Init
    <2>2. \A S : <<>> \in Seq(S)
        OBVIOUS
    <2> QED
        BY <2>1, <2>2 DEF Init, ServerTypes, Shut
<1>4. Mappings /\ TurnsCounted
    BY Apart DEF Init, Mappings, TurnsCounted, Unmapped, Shaking, Shut, Serving
<1> QED
    BY <1>1, <1>2, <1>3, <1>4 DEF Types

LEMMA PlatformKept ==
    ASSUME [Next]_vars
    PROVE  platform' = platform /\ (Linux' <=> Linux)
<1>1. ASSUME NEW c \in Client, ClientMoves(c)
      PROVE  platform' = platform
    BY <1>1 DEF ClientMoves, Open, InitControl, Connect, Greet, Acknowledged, SeeReady,
        WriteRequest, PublishRequest, ReceiveResponse, ResponseTimeout, CloseClient,
        ClientEnds, ClientRaises, ClientGoes, Returned
<1>2. ASSUME NEW s \in Server, ServerMoves(s)
      PROVE  platform' = platform
    BY <1>2 DEF ServerMoves, Listens, Accept, Answer, OpenRegion, Attach, AnswerLinux,
        Serve, AwaitRequest, TakeRequest, IdleTimeout, WriteResponse, PublishResponse,
        ServerEnds, ServerRaises, ServerGoes, SendOK
<1>3. CASE UNCHANGED vars
    BY <1>3 DEF vars, Linux
<1> QED
    BY <1>1, <1>2, <1>3, Moves DEF Linux

-----------------------------------------------------------------------------
(* Who goes on from the handshake has a server *)

HandshakeInv ==
    /\ \A c \in Client :
          /\ pc[c] \in Shaking \ {"init"} /\ mem[mapped[c]].ready = 1 =>
                welcome[c] # {}
          /\ Linux /\ c \in ack => welcome[c] # {}
    /\ \A s \in Server : spc[s] = "answering" => s \in welcome[peer[s]]
    /\ HandshakeMeansServer

\* A step that sets no server_ready and takes nobody past the handshake.
LEMMA HandshakeFrame ==
    ASSUME Types, Types', HandshakeInv, Linux' <=> Linux, ack' = ack, peer' = peer,
           \A c \in Client :
              /\ Past(c)' => Past(c)
              /\ welcome'[c] = welcome[c]
              /\ pc'[c] \in Shaking \ {"init"} /\ mem'[mapped'[c]].ready = 1 =>
                    pc[c] \in Shaking \ {"init"} /\ mem[mapped[c]].ready = 1,
           \A s \in Server : spc'[s] = "answering" => spc[s] = "answering"
    PROVE  HandshakeInv'
<1>1. HandshakeMeansServer'
    BY DEF HandshakeInv, HandshakeMeansServer, Past
<1>2. ASSUME NEW s \in Server, spc'[s] = "answering"
      PROVE  s \in welcome'[peer'[s]]
    <2>1. peer[s] \in Client
        BY <1>2 DEF Types, ServerTypes, Mappings, Serving
    <2> QED
        BY <1>2, <2>1 DEF HandshakeInv
<1>3. ASSUME NEW c \in Client
      PROVE  /\ pc'[c] \in Shaking \ {"init"} /\ mem'[mapped'[c]].ready = 1 =>
                    welcome'[c] # {}
             /\ Linux' /\ c \in ack' => welcome'[c] # {}
    BY DEF HandshakeInv
<1> QED
    BY <1>1, <1>2, <1>3 DEF HandshakeInv

LEMMA HandshakeClient ==
    ASSUME Types, Types', HandshakeInv, NEW c \in Client, ClientMoves(c), Linux' <=> Linux
    PROVE  HandshakeInv'
<1> USE DEF Past, Unmapped, Shaking, regionVars, serverVars, historyVars
<1>1. CASE Open(c)
    <2>1. OpensAt(c)
        BY <1>1, OpenEffect
    <2>2. \A d \in Client : d # c => mapped'[d] = mapped[d] /\ pc'[d] = pc[d]
        BY <1>1, <2>1, Apart DEF OpensAt, Open, Types, ClientTypes
    <2>3. \A q \in Process : mem'[q].ready = 1 => mem[q].ready = 1
        BY <2>1 DEF OpensAt, Zeroed
    <2>4. \A d \in Client : pc[d] \in Shaking => mapped[d] \in Process
        BY Apart DEF Types, RegionTypes, Mappings
    <2> QED
        BY <1>1, <2>2, <2>3, <2>4, HandshakeFrame DEF Open, Types, ClientTypes
<1>2. CASE InitControl(c)
    <2> DEFINE r == mapped[c]
    <2>1. /\ r \in Process
          /\ \A q \in Process : q # r => mem'[q] = mem[q]
          /\ mem'[r].ready = IF field[c] = 5 THEN 0 ELSE mem[r].ready
          /\ pc' = [pc EXCEPT ![c] = IF field[c] = 5 THEN "connecting" ELSE pc[c]]
        BY <1>2, InitEffect
    <2>2. \A d \in Client : pc[d] \in Shaking => mapped[d] \in Process
        BY Apart DEF Types, RegionTypes, Mappings
    <2>3. pc[c] = "init" /\ mapped' = mapped /\ ack' = ack /\ spc' = spc /\ peer' = peer
          /\ welcome' = welcome
        BY <1>2 DEF InitControl
    <2>4. ASSUME NEW d \in Client, pc'[d] \in Shaking \ {"init"},
                 mem'[mapped'[d]].ready = 1
          PROVE  pc[d] \in Shaking \ {"init"} /\ mem[mapped[d]].ready = 1
        <3>1. CASE d = c
            <4>1. pc'[c] # "init"
                BY <2>4, <3>1
            <4>2. field[c] = 5
                BY <2>1, <2>3, <4>1 DEF Types, ClientTypes
            <4> QED
                BY <2>1, <2>3, <2>4, <3>1, <4>2
        <3>2. CASE d # c
            <4>1. pc'[d] = pc[d]
                BY <2>1, <3>2 DEF Types, ClientTypes
            <4>2. mapped[d] \in Process
                BY <2>2, <2>4, <4>1
            <4>3. mem'[mapped[d]].ready = 1 => mem[mapped[d]].ready = 1
                BY <2>1, <4>2
            <4> QED
                BY <2>3, <2>4, <4>1, <4>3
        <3> QED
            BY <3>1, <3>2
    <2>5. \A d \in Client : Past(d)' => Past(d)
        BY <2>1, <2>3 DEF Types, ClientTypes
    <2> QED
        BY <2>3, <2>4, <2>5, HandshakeFrame
<1>3. ASSUME NEW s \in Server, Connect(c, s)
      PROVE  HandshakeInv'
    BY <1>3, HandshakeFrame DEF Connect, Types, ClientTypes
<1>4. CASE Greet(c)
    BY <1>4, HandshakeFrame DEF Greet, Types, ClientTypes
<1>5. CASE Acknowledged(c)
    <2>1. /\ pc[c] = "greeted" /\ (Linux => c \in ack)
          /\ \A d \in Client : d # c => pc'[d] = pc[d]
          /\ Linux => pc'[c] = "idle"
          /\ ~Linux => pc'[c] = "waiting"
          /\ mapped' = mapped /\ mem' = mem /\ ack' = ack /\ welcome' = welcome
          /\ spc' = spc /\ peer' = peer
        BY <1>5 DEF Acknowledged, ClientGoes, Types, ClientTypes
    <2>2. HandshakeMeansServer'
        BY <2>1 DEF HandshakeInv, HandshakeMeansServer, Types, ClientTypes
    <2>3. ASSUME NEW d \in Client, pc'[d] \in Shaking \ {"init"}
          PROVE  pc[d] \in Shaking \ {"init"}
        BY <2>1, <2>3 DEF Types, ClientTypes
    <2> QED
        BY <2>1, <2>2, <2>3 DEF HandshakeInv
<1>6. CASE SeeReady(c)
    <2>1. /\ pc[c] = "waiting" /\ mem[mapped[c]].ready = 1
          /\ \A d \in Client : d # c => pc'[d] = pc[d]
          /\ pc'[c] = "idle"
          /\ mapped' = mapped /\ mem' = mem /\ ack' = ack /\ welcome' = welcome
          /\ spc' = spc /\ peer' = peer
        BY <1>6 DEF SeeReady, ClientGoes, Types, ClientTypes
    <2>2. welcome[c] # {}
        BY <2>1 DEF HandshakeInv
    <2>3. HandshakeMeansServer'
        BY <2>1, <2>2 DEF HandshakeInv, HandshakeMeansServer
    <2> QED
        BY <2>1, <2>3 DEF HandshakeInv
<1>7. ASSUME WriteRequest(c) \/ PublishRequest(c) \/ ReceiveResponse(c)
      PROVE  HandshakeInv'
    <2> DEFINE r == mapped[c]
    <2>1. /\ r \in Process /\ mem'[r].ready = mem[r].ready
          /\ \A q \in Process : q # r => mem'[q] = mem[q]
        BY <1>7, WriteRequestEffect, PublishRequestEffect, ReceiveEffect
    <2>2. /\ mapped' = mapped /\ ack' = ack /\ spc' = spc /\ peer' = peer
          /\ welcome' = welcome
          /\ pc[c] \in {"idle", "sending", "receiving"}
          /\ \A d \in Client : d # c => pc'[d] = pc[d]
          /\ pc'[c] \notin Shaking
        BY <1>7 DEF WriteRequest, PublishRequest, ReceiveResponse, Returned, ClientGoes,
                    Types, ClientTypes
    <2>3. \A d \in Client : pc[d] \in Shaking => mapped[d] \in Process
        BY Apart DEF Types, RegionTypes, Mappings
    <2> QED
        BY <2>1, <2>2, <2>3, HandshakeFrame
<1>8. CASE ResponseTimeout(c)
    BY <1>8, HandshakeFrame DEF ResponseTimeout, Returned, Types, ClientTypes
<1>9. CASE CloseClient(c)
    BY <1>9, HandshakeFrame, Apart
       DEF CloseClient, ClientGoes, Types, RegionTypes, ClientTypes
<1>10. CASE ClientEnds(c)
    BY <1>10, HandshakeFrame, Apart
       DEF ClientEnds, ClientRaises, ClientGoes, Types, RegionTypes, ClientTypes
<1> QED
    BY <1>1, <1>2, <1>3, <1>4, <1>5, <1>6, <1>7, <1>8, <1>9, <1>10 DEF ClientMoves

LEMMA HandshakeServer ==
    ASSUME Types, Types', HandshakeInv, NEW s \in Server, ServerMoves(s), Linux' <=> Linux
    PROVE  HandshakeInv'
<1> USE DEF Past, regionVars, clientVars, historyVars, ServerGoes
<1>1. \A d \in Client : pc[d] \in Shaking => mapped[d] \in Process
    BY Apart DEF Types, RegionTypes, Mappings, Shaking, Unmapped
<1>2. ASSUME Listens(s) \/ Accept(s) \/ AwaitRequest(s)
      PROVE  HandshakeInv'
    <2>1. peer[s] = None \/ spc[s] # "answering"
        BY <1>2 DEF Listens, Accept, AwaitRequest
    <2>2. /\ mapped' = mapped /\ mem' = mem /\ ack' = ack /\ welcome' = welcome
          /\ pc' = pc
          /\ \A t \in Server : t # s => spc'[t] = spc[t] /\ peer'[t] = peer[t]
          /\ spc'[s] # "answering"
        BY <1>2 DEF Listens, Accept, AwaitRequest, Types, ServerTypes
    <2> QED
        BY <2>2 DEF HandshakeInv, HandshakeMeansServer
<1>3. CASE Answer(s)
    BY <1>3 DEF Answer, SendOK, HandshakeInv, HandshakeMeansServer, Types, ServerTypes
<1>4. CASE OpenRegion(s)
    <2>1. OpensAt(s)
        BY <1>4, OpenRegionEffect
    <2>2. \A d \in Client : mapped'[d] = mapped[d]
        BY <2>1, Apart DEF OpensAt
    <2>3. \A q \in Process : mem'[q].ready = 1 => mem[q].ready = 1
        BY <2>1 DEF OpensAt, Zeroed
    <2> QED
        BY <1>1, <1>4, <2>2, <2>3, HandshakeFrame DEF OpenRegion, Types, ServerTypes
<1>5. CASE Attach(s)
    <2>1. /\ \A d \in Client : welcome[d] \subseteq welcome'[d] /\ mapped'[d] = mapped[d]
          /\ s \in welcome'[peer[s]]
        BY <1>5, Apart
           DEF Attach, Types, RegionTypes, ClientTypes, ServerTypes, Mappings,
               Serving
    <2>2. /\ mem' = mem /\ pc' = pc /\ ack' = ack /\ peer' = peer
          /\ \A t \in Server : t # s => spc'[t] = spc[t]
        BY <1>5 DEF Attach, Types, ServerTypes
    <2>3. \A t \in Server : spc[t] = "answering" => peer[t] \in Client
        BY DEF Types, ServerTypes, Mappings, Serving
    <2>4. HandshakeMeansServer'
        BY <2>1, <2>2 DEF HandshakeInv, HandshakeMeansServer
    <2>5. \A t \in Server : spc'[t] = "answering" => t \in welcome'[peer'[t]]
        BY <2>1, <2>2, <2>3 DEF HandshakeInv
    <2> QED
        BY <2>1, <2>2, <2>4, <2>5 DEF HandshakeInv
<1>6. CASE AnswerLinux(s)
    BY <1>6 DEF AnswerLinux, SendOK, HandshakeInv, HandshakeMeansServer, Types,
                ServerTypes
<1>7. CASE Serve(s)
    <2> DEFINE r == mapped[s]
    <2>1. \A q \in Process : q # r => mem'[q] = mem[q]
        BY <1>7, ServeEffect
    <2>2. \A d \in Client : /\ welcome[d] \subseteq welcome'[d]
                            /\ mapped[d] = r => welcome'[d] # {}
        BY <1>7 DEF Serve
    <2>3. \A t \in Server : t # s => spc'[t] = spc[t]
        BY <1>7 DEF Serve, Types, ServerTypes
    <2>4. /\ mapped' = mapped /\ pc' = pc /\ ack' = ack /\ peer' = peer
          /\ spc'[s] = "receiving"
        BY <1>7 DEF Serve, Types, ServerTypes
    <2>5. \A t \in Server : spc[t] = "answering" => peer[t] \in Client
        BY DEF Types, ServerTypes, Mappings, Serving
    <2> QED
        BY <1>1, <2>1, <2>2, <2>3, <2>4, <2>5 DEF HandshakeInv, HandshakeMeansServer
<1>8. ASSUME TakeRequest(s) \/ WriteResponse(s) \/ PublishResponse(s)
      PROVE  HandshakeInv'
    <2> DEFINE r == mapped[s]
    <2>1. /\ r \in Process /\ mem'[r].ready = mem[r].ready
          /\ \A q \in Process : q # r => mem'[q] = mem[q]
        BY <1>8, TakeEffect, WriteResponseEffect, PublishResponseEffect
    <2>2. /\ \A d \in Client : mapped'[d] = mapped[d]
          /\ spc'[s] # "answering"
          /\ \A t \in Server : t # s => spc'[t] = spc[t]
          /\ ack' = ack /\ pc' = pc /\ peer' = peer /\ welcome' = welcome
        BY <1>8, Apart DEF TakeRequest, Stop, WriteResponse, PublishResponse, Types,
                           RegionTypes, ServerTypes
    <2> QED
        BY <1>1, <2>1, <2>2, HandshakeFrame
<1>9. CASE IdleTimeout(s)
    <2>1. \A d \in Client : mapped'[d] = mapped[d]
        BY <1>9, Apart DEF IdleTimeout, Stop, Types, RegionTypes
    <2> QED
        BY <1>9, <2>1, HandshakeFrame DEF IdleTimeout, Stop, Types, ServerTypes
<1>10. CASE ServerEnds(s)
    <2>1. \A d \in Client : mapped'[d] = mapped[d]
        BY <1>10, Apart DEF ServerEnds, ServerRaises, Types, RegionTypes
    <2> QED
        BY <1>10, <2>1, HandshakeFrame DEF ServerEnds, ServerRaises, Types, ServerTypes
<1> QED
    BY <1>2, <1>3, <1>4, <1>5, <1>6, <1>7, <1>8, <1>9, <1>10 DEF ServerMoves

-----------------------------------------------------------------------------
(* One client at a time, and one server to a connection *)

OneAtATime ==
    \A c, d \in Client : mapped[c] # None /\ mapped[d] # None => c = d

\* The clients whose connection s has, or had when it closed its socket.
Reached(s) == Range(backlog[s]) \cup {peer[s]}

Connections ==
    /\ \A s \in Server : \A c \in Client \cap Reached(s) :
          pc[c] \notin {"off", "init", "connecting"}
    /\ \A s, t \in Server : \A c \in Client \cap Reached(s) \cap Reached(t) : s = t
    /\ \A s \in Server : spc[s] \in {"off", "listening"} => peer[s] = None

PlacesInv == OneAtATime /\ Connections

\* Nobody connects, and nobody is back before his connection.
LEMMA PlacesFrame ==
    ASSUME PlacesInv, backlog' = backlog, peer' = peer,
           \A c \in Client :
              /\ mapped'[c] # None => mapped[c] # None
              /\ pc'[c] \in {"off", "init", "connecting"} =>
                    pc[c] \in {"off", "init", "connecting"},
           \A s \in Server : spc'[s] \in {"off", "listening"} =>
                                spc[s] \in {"off", "listening"}
    PROVE  PlacesInv'
BY DEF PlacesInv, OneAtATime, Connections, Reached

LEMMA PlacesClient ==
    ASSUME Types, Types', PlacesInv, NEW c \in Client, ClientMoves(c)
    PROVE  PlacesInv'
<1> USE DEF regionVars, serverVars
<1>1. CASE Open(c)
    <2>1. \A d \in Client : d # c => mapped'[d] = mapped[d] /\ mapped[d] = None
        BY <1>1, OpenEffect, Apart DEF OpensAt, Open, Ended, Types, Mappings, Unmapped
    <2>2. OneAtATime'
        BY <2>1 DEF OneAtATime
    <2>3. /\ backlog' = backlog /\ peer' = peer /\ spc' = spc
          /\ \A d \in Client : d # c => pc'[d] = pc[d]
          /\ pc[c] = "off"
        BY <1>1 DEF Open, Types, ClientTypes
    <2>4. Connections'
        BY <2>3 DEF PlacesInv, Connections, Reached
    <2> QED
        BY <2>2, <2>4 DEF PlacesInv
<1>2. CASE InitControl(c)
    <2>1. /\ backlog' = backlog /\ peer' = peer /\ spc' = spc /\ mapped' = mapped
          /\ pc[c] = "init"
          /\ \A d \in Client : d # c => pc'[d] = pc[d]
        BY <1>2 DEF InitControl, Types, ClientTypes
    <2> QED
        BY <2>1, PlacesFrame
<1>3. ASSUME NEW s \in Server, Connect(c, s)
      PROVE  PlacesInv'
    <2>1. /\ pc[c] = "connecting" /\ pc'[c] = "greeting" /\ spc[s] = "listening"
          /\ \A d \in Client : d # c => pc'[d] = pc[d]
          /\ peer' = peer /\ spc' = spc /\ mapped' = mapped
          /\ \A t \in Server : t # s => backlog'[t] = backlog[t]
          /\ backlog[s] \in Seq(Client) /\ backlog'[s] = Append(backlog[s], c)
        BY <1>3 DEF Connect, Types, ClientTypes, ServerTypes
    <2>2. Range(backlog'[s]) = Range(backlog[s]) \cup {c}
        BY <2>1 DEF Range
    <2>3. \A t \in Server : c \notin Reached(t)
        BY <2>1 DEF PlacesInv, Connections
    <2>4. Reached(s)' = Reached(s) \cup {c}
        BY <2>1, <2>2 DEF Reached
    <2>5. \A t \in Server : t # s => Reached(t)' = Reached(t)
        BY <2>1 DEF Reached
    <2>6. Connections'
        BY <2>1, <2>3, <2>4, <2>5 DEF PlacesInv, Connections
    <2> QED
        BY <2>1, <2>6 DEF PlacesInv, OneAtATime
<1>4. ASSUME \/ Greet(c) \/ Acknowledged(c) \/ SeeReady(c) \/ WriteRequest(c)
             \/ PublishRequest(c) \/ ReceiveResponse(c) \/ ResponseTimeout(c)
      PROVE  PlacesInv'
    <2>1. /\ backlog' = backlog /\ peer' = peer /\ spc' = spc /\ mapped' = mapped
          /\ pc'[c] \notin {"off", "init", "connecting"}
          /\ \A d \in Client : d # c => pc'[d] = pc[d]
        BY <1>4 DEF Greet, Acknowledged, SeeReady, WriteRequest, PublishRequest,
           ReceiveResponse, ResponseTimeout, Returned, ClientGoes, Types, ClientTypes
    <2> QED
        BY <2>1, PlacesFrame
<1>5. ASSUME CloseClient(c) \/ ClientEnds(c)
      PROVE  PlacesInv'
    <2>1. /\ backlog' = backlog /\ peer' = peer /\ spc' = spc
          /\ \A d \in Client : mapped'[d] # None => mapped[d] # None
          /\ pc'[c] \notin {"off", "init", "connecting"}
          /\ \A d \in Client : d # c => pc'[d] = pc[d]
        BY <1>5, Apart
           DEF CloseClient, ClientEnds, ClientRaises, ClientGoes, Types, RegionTypes,
               ClientTypes
    <2> QED
        BY <2>1, PlacesFrame
<1> QED
    BY <1>1, <1>2, <1>3, <1>4, <1>5 DEF ClientMoves

LEMMA PlacesServer ==
    ASSUME Types, Types', PlacesInv, NEW s \in Server, ServerMoves(s)
    PROVE  PlacesInv'
<1> USE DEF regionVars, clientVars, ServerGoes
<1>1. CASE Accept(s)
    <2>1. /\ spc[s] = "listening" /\ spc'[s] = "accepted"
          /\ pc' = pc /\ mapped' = mapped
          /\ \A t \in Server : t # s => /\ backlog'[t] = backlog[t] /\ peer'[t] = peer[t]
                                        /\ spc'[t] = spc[t]
          /\ backlog[s] \in Seq(Client) /\ backlog[s] # <<>>
          /\ backlog'[s] = <<>> /\ peer'[s] = Head(backlog[s])
        BY <1>1 DEF Accept, Types, ClientTypes, ServerTypes
    <2>2. Head(backlog[s]) \in Range(backlog[s])
        BY <2>1 DEF Range
    <2>3. Range(backlog'[s]) = {}
        BY <2>1 DEF Range
    <2>4. Reached(s)' \subseteq Reached(s)
        BY <2>1, <2>2, <2>3 DEF Reached
    <2>5. \A t \in Server : t # s => Reached(t)' = Reached(t)
        BY <2>1 DEF Reached
    <2>6. Connections'
        BY <2>1, <2>4, <2>5 DEF PlacesInv, Connections
    <2> QED
        BY <2>1, <2>6 DEF PlacesInv, OneAtATime
<1>2. ASSUME \/ Listens(s) \/ Answer(s) \/ Attach(s) \/ AnswerLinux(s) \/ Serve(s)
             \/ AwaitRequest(s) \/ TakeRequest(s) \/ IdleTimeout(s)
             \/ WriteResponse(s) \/ PublishResponse(s) \/ ServerEnds(s)
      PROVE  PlacesInv'
    <2>1. /\ backlog' = backlog /\ peer' = peer /\ pc' = pc
          /\ \A d \in Client : mapped'[d] = mapped[d]
          /\ \A t \in Server : spc'[t] \in {"off", "listening"} =>
                                  spc[t] \in {"off", "listening"}
        BY <1>2, Apart
           DEF Listens, Answer, SendOK, Attach, AnswerLinux, Serve, AwaitRequest,
               TakeRequest, Stop, IdleTimeout, WriteResponse, PublishResponse,
               ServerEnds, ServerRaises, Types, RegionTypes, ServerTypes
    <2> QED
        BY <2>1, PlacesFrame
<1>3. CASE OpenRegion(s)
    <2>1. \A d \in Client : mapped'[d] = mapped[d]
        BY <1>3, OpenRegionEffect, Apart DEF OpensAt
    <2> QED
        BY <1>3, <2>1, PlacesFrame DEF OpenRegion, Types, ServerTypes
<1> QED
    BY <1>1, <1>2, <1>3 DEF ServerMoves

-----------------------------------------------------------------------------
(* No process loses its region to one that opens *)

RegionsKept ==
    \A q \in Process :
        mapped[q] # None =>
            mapped'[q] = mapped[q] /\ mem'[mapped[q]] = mem[mapped[q]]

LEMMA OpenKeeps ==
    ASSUME Types, PlacesInv, NEW c \in Client, Open(c)
    PROVE  RegionsKept
<1> SUFFICES ASSUME NEW q \in Process, mapped[q] # None
             PROVE  mapped'[q] = mapped[q] /\ mem'[mapped[q]] = mem[mapped[q]]
    BY DEF RegionsKept
<1>1. OpensAt(c) /\ pc[c] = "off"
    BY OpenEffect DEF Open
<1>2. q # c
    BY <1>1 DEF OpensAt
<1>3. mapped[q] \in Process
    BY DEF Types, RegionTypes
<1>4. CASE Linux
    <2>1. CASE q \in Client
        BY <1>1, <1>2, <1>3, <1>4, <2>1 DEF OpensAt, Types, Mappings
    <2>2. CASE q \in Server
        <3>1. mapped[q] = peer[q] /\ peer[q] \in Client
            BY <1>4, <2>2 DEF Types, ServerTypes, Mappings
        <3>2. peer[q] # c
            BY <1>1, <2>2, <3>1 DEF PlacesInv, Connections, Reached
        <3> QED
            BY <1>1, <1>2, <1>3, <3>1, <3>2 DEF OpensAt
    <2> QED
        BY <2>1, <2>2, Apart
<1>5. CASE ~Linux
    BY <1>1, <1>2, <1>5 DEF OpensAt
<1> QED
    BY <1>4, <1>5

LEMMA OpenRegionKeeps ==
    ASSUME Types, NEW s \in Server, OpenRegion(s)
    PROVE  RegionsKept
BY OpenRegionEffect DEF OpenRegion, OpensAt, Types, Mappings, RegionsKept

-----------------------------------------------------------------------------
(* Descriptors that are read are genuine *)

\* The prompts that were sent, and those of them some model was shown.
Published ==
    {x \in Descriptor : \E d \in Client : \E t \in 1 .. turn[d] : x = Prompt(d, t)}

Genuine == {x \in Published : \E s \in Server : x \in Range(history[s])}

\* What the cursors of region r say was written.
Sound(r) ==
    /\ \A i \in DOMAIN mem[r].resp : mem[r].resp[i] \in Genuine
    /\ \A i \in 0 .. mem[r].respHead - 1 : i \in DOMAIN mem[r].resp
    /\ \A i \in 0 .. mem[r].reqHead - 1 :
          /\ i \in DOMAIN mem[r].req
          /\ mem[r].req[i] \in Published \cup {Shutdown}

\* Between the write of a descriptor and its publication.
SendingOK(c) ==
    pc[c] = "sending" =>
        LET m == mem[mapped[c]]
        IN  m.reqHead \in DOMAIN m.req /\ m.req[m.reqHead] = NextText(c)

AnsweringOK(s) ==
    /\ spc[s] = "generating" => request[s] \in Genuine
    /\ spc[s] = "replying" =>
          \A i \in 0 .. cursor[s] : i \in DOMAIN mem[mapped[s]].resp

GivenGenuine == \A c \in Client : Range(outcome[c]) \subseteq Genuine \cup {None}

GenuineInv ==
    /\ \A r \in Process : Sound(r)
    /\ \A c \in Client : SendingOK(c)
    /\ \A s \in Server : AnsweringOK(s)
    /\ GivenGenuine

\* Turns and histories only grow.
Growing ==
    /\ \A d \in Client : turn'[d] >= turn[d]
    /\ \A s \in Server : Range(history[s]) \subseteq Range(history'[s])

LEMMA StillGenuine ==
    ASSUME Types, Types', Growing
    PROVE  Published \subseteq Published' /\ Genuine \subseteq Genuine'
<1>1. ASSUME NEW x \in Published
      PROVE  x \in Published'
    <2>1. PICK d \in Client : \E t \in 1 .. turn[d] : x = Prompt(d, t)
        BY DEF Published
    <2>4. PICK t \in 1 .. turn[d] : x = Prompt(d, t)
        BY <2>1
    <2>2. turn[d] \in Nat /\ turn'[d] \in Nat /\ turn'[d] >= turn[d]
        BY DEF Growing, Types, ClientTypes
    <2>3. t \in 1 .. turn'[d]
        BY <2>2
    <2> QED
        BY <2>4, <2>3 DEF Published
<1> QED
    BY <1>1 DEF Genuine, Growing

\* A step that writes to no slot of r and moves no head of it forward.
LEMMA SoundKept ==
    ASSUME Types, Types', Growing, NEW r \in Process, Sound(r),
           mem[r] \in Region, mem'[r] \in Region,
           mem'[r].req = mem[r].req, mem'[r].resp = mem[r].resp,
           mem'[r].reqHead <= mem[r].reqHead, mem'[r].respHead <= mem[r].respHead
    PROVE  Sound(r)'
<1>1. /\ mem[r].reqHead \in Nat /\ mem'[r].reqHead \in Nat
      /\ mem[r].respHead \in Nat /\ mem'[r].respHead \in Nat
    BY DEF Region
<1>2. \A i \in DOMAIN mem'[r].resp : mem'[r].resp[i] \in Genuine'
    BY StillGenuine DEF Sound
<1>3. \A i \in 0 .. mem'[r].respHead - 1 : i \in DOMAIN mem'[r].resp
    BY <1>1 DEF Sound
<1>4. ASSUME NEW i \in 0 .. mem'[r].reqHead - 1
      PROVE  /\ i \in DOMAIN mem'[r].req
             /\ mem'[r].req[i] \in Published' \cup {Shutdown}
    <2>1. i \in 0 .. mem[r].reqHead - 1
        BY <1>1
    <2> QED
        BY <2>1, StillGenuine DEF Sound
<1> QED
    BY <1>2, <1>3, <1>4 DEF Sound

LEMMA GivenKept ==
    ASSUME Types, Types', Growing, GivenGenuine,
           \A c \in Client : Range(outcome'[c]) \subseteq Range(outcome[c]) \cup {None}
    PROVE  GivenGenuine'
BY StillGenuine DEF GivenGenuine

\* A step outside the rings.
LEMMA GenuineFrame ==
    ASSUME Types, Types', GenuineInv, mem' = mem, turn' = turn, history' = history,
           request' = request,
           \A c \in Client :
              /\ Range(outcome'[c]) \subseteq Range(outcome[c]) \cup {None}
              /\ pc'[c] = "sending" => pc[c] = "sending" /\ mapped'[c] = mapped[c],
           \A s \in Server :
              /\ spc'[s] = "generating" => spc[s] = "generating"
              /\ spc'[s] = "replying" => /\ spc[s] = "replying"
                                         /\ mapped'[s] = mapped[s]
                                         /\ cursor'[s] = cursor[s]
    PROVE  GenuineInv'
<1>1. Growing
    BY DEF Growing, Types, ClientTypes
<1>2. ASSUME NEW r \in Process
      PROVE  Sound(r)'
    <2>1. mem[r] \in Region /\ mem[r].reqHead \in Nat /\ mem[r].respHead \in Nat
        BY DEF Types, RegionTypes, Region
    <2> QED
        BY <1>1, <2>1, SoundKept DEF GenuineInv
<1>3. \A c \in Client : SendingOK(c)'
    BY DEF GenuineInv, SendingOK, NextText
<1>4. \A s \in Server : AnsweringOK(s)'
    BY <1>1, StillGenuine DEF GenuineInv, AnsweringOK
<1>5. GivenGenuine'
    BY <1>1, GivenKept DEF GenuineInv
<1> QED
    BY <1>2, <1>3, <1>4, <1>5 DEF GenuineInv

LEMMA GenuineClient ==
    ASSUME Types, Types', PlacesInv, PlacesInv', GenuineInv, NEW c \in Client,
           ClientMoves(c)
    PROVE  GenuineInv'
<1> USE DEF serverVars, historyVars, regionVars
<1>0. /\ \A q \in Process : mem[q] \in Region /\ mem'[q] \in Region
      /\ \A q \in Process : mem[q].reqHead \in Nat /\ mem[q].respHead \in Nat
      /\ \A q \in Process : mapped[q] # None => mapped[q] \in Process
    BY DEF Types, RegionTypes, Region
<1>1. CASE Open(c)
    <2>1. OpensAt(c) /\ RegionsKept
        BY <1>1, OpenEffect, OpenKeeps
    <2>2. /\ turn' = turn /\ history' = history /\ request' = request
          /\ outcome' = outcome /\ spc' = spc /\ cursor' = cursor
          /\ \A d \in Client : d # c => pc'[d] = pc[d]
          /\ pc'[c] = "init"
        BY <1>1 DEF Open, Types, ClientTypes
    <2>3. Growing
        BY <2>2 DEF Growing, Types, ClientTypes
    <2>4. ASSUME NEW r \in Process
          PROVE  Sound(r)'
        <3>1. CASE mem'[r] = mem[r]
            BY <1>0, <2>3, <3>1, SoundKept DEF GenuineInv
        <3>2. CASE mem'[r] = Zeroed
            BY <3>2 DEF Sound, Zeroed
        <3> QED
            BY <2>1, <3>1, <3>2 DEF OpensAt
    <2>5. ASSUME NEW d \in Client
          PROVE  SendingOK(d)'
        <3>1. pc'[d] = "sending" => pc[d] = "sending" /\ mapped[d] # None
            BY <2>2 DEF Types, Mappings, Unmapped
        <3> QED
            BY <2>1, <2>2, <3>1, Apart DEF GenuineInv, SendingOK, NextText, RegionsKept
    <2>6. ASSUME NEW s \in Server
          PROVE  AnsweringOK(s)'
        <3>1. spc[s] = "replying" => mapped[s] # None
            BY DEF Types, Mappings, Shut
        <3> QED
            BY <2>1, <2>2, <2>3, <3>1, StillGenuine, Apart
               DEF GenuineInv, AnsweringOK, RegionsKept
    <2>7. GivenGenuine'
        BY <2>2, <2>3, GivenKept DEF GenuineInv
    <2> QED
        BY <2>4, <2>5, <2>6, <2>7 DEF GenuineInv
<1>2. ASSUME InitControl(c) \/ WriteRequest(c) \/ PublishRequest(c) \/ ReceiveResponse(c)
      PROVE  GenuineInv'
    <2>0. PICK r \in Process : r = mapped[c] /\ r # None
        BY <1>0, <1>2, Apart
           DEF InitControl, WriteRequest, PublishRequest, ReceiveResponse, Types,
               Mappings, Unmapped
    <2>1. /\ r \in Process /\ r = mapped[c] /\ r # None
          /\ \A q \in Process : q # r => mem'[q] = mem[q]
          /\ mem'[r].resp = mem[r].resp /\ mem'[r].respHead <= mem[r].respHead
        <3>1. mem[r].respHead \in Nat
            BY <1>0
        <3> QED
            BY <1>2, <2>0, <3>1, InitEffect, WriteRequestEffect, PublishRequestEffect,
               ReceiveEffect
    <2>2. /\ history' = history /\ request' = request /\ spc' = spc
          /\ cursor' = cursor /\ mapped' = mapped
          /\ \A d \in Client : d # c => turn'[d] = turn[d] /\ pc'[d] = pc[d]
          /\ turn'[c] >= turn[c]
          /\ pc'[c] = "sending" => WriteRequest(c)
        BY <1>2
           DEF InitControl, WriteRequest, PublishRequest, ReceiveResponse, Returned,
               ClientGoes, Types, ClientTypes
    <2>3. Growing
        <3>1. \A d \in Client : turn[d] \in Nat /\ turn'[d] \in Nat
            BY DEF Types, ClientTypes
        <3>2. \A d \in Client : turn'[d] >= turn[d]
            BY <2>2, <3>1
        <3> QED
            BY <2>2, <3>2 DEF Growing
    <2>4. ASSUME NEW q \in Process, q # r
          PROVE  Sound(q)'
        BY <1>0, <2>1, <2>3, <2>4, SoundKept DEF GenuineInv
    <2>5. ASSUME NEW d \in Client, d # c
          PROVE  SendingOK(d)'
        <3>1. pc[d] # "sending"
            BY <2>1, <2>5 DEF PlacesInv, OneAtATime, Types, Mappings, Unmapped
        <3> QED
            BY <2>2, <2>5, <3>1 DEF SendingOK
    <2>6. ASSUME NEW s \in Server
          PROVE  AnsweringOK(s)'
        <3>1. spc[s] = "replying" => mapped[s] \in Process
            BY <1>0, Apart DEF Types, Mappings, Shut
        <3>2. \A q \in Process : mem'[q].resp = mem[q].resp
            BY <2>1
        <3> QED
            BY <2>2, <2>3, <3>1, <3>2, StillGenuine DEF GenuineInv, AnsweringOK
    <2>7. CASE InitControl(c)
        <3>1. /\ mem'[r].req = mem[r].req /\ mem'[r].reqHead <= mem[r].reqHead
              /\ pc'[c] # "sending"
            <4>1. /\ mem'[r].req = mem[r].req
                  /\ mem'[r].reqHead = IF field[c] = 1 THEN 0 ELSE mem[r].reqHead
                BY <2>1, <2>7, InitEffect
            <4>2. pc'[c] # "sending"
                BY <2>2, <2>7 DEF InitControl, WriteRequest
            <4>3. mem[r].reqHead \in Nat
                BY <1>0
            <4> QED
                BY <4>1, <4>2, <4>3
        <3>2. outcome' = outcome
            BY <2>7 DEF InitControl
        <3>3. Sound(r)'
            BY <1>0, <2>1, <2>3, <3>1, SoundKept DEF GenuineInv
        <3>4. GivenGenuine'
            BY <2>3, <3>2, GivenKept DEF GenuineInv
        <3> QED
            BY <2>4, <2>5, <2>6, <3>1, <3>3, <3>4 DEF GenuineInv, SendingOK
    <2>8. CASE WriteRequest(c)
        <3> DEFINE k == mem[r].reqHead
        <3>1. /\ mem'[r].req = Written(mem[r].req, k, NextText(c)) /\ mem'[r].reqHead = k
              /\ NextText(c) \in Descriptor
            BY <2>1, <2>8, WriteRequestEffect
        <3>2. outcome' = outcome /\ turn' = turn
            BY <2>8 DEF WriteRequest, ClientGoes
        <3>3. mem[r].req \in Slots /\ k \in Nat
            BY <1>0, <2>1 DEF Region
        <3>4. /\ DOMAIN mem'[r].req = DOMAIN mem[r].req \cup {k}
              /\ mem'[r].req[k] = NextText(c)
              /\ \A i \in DOMAIN mem[r].req : i # k => mem'[r].req[i] = mem[r].req[i]
            BY <3>1, <3>3, WrittenSlots
        <3>5. Sound(r)
            BY <2>1 DEF GenuineInv
        <3>6. \A i \in 0 .. k - 1 :
                 /\ i \in DOMAIN mem'[r].req
                 /\ mem'[r].req[i] \in Published' \cup {Shutdown}
            BY <2>3, <3>3, <3>4, <3>5, StillGenuine DEF Sound
        <3>7. \A i \in DOMAIN mem'[r].resp : mem'[r].resp[i] \in Genuine'
            BY <2>1, <2>3, <3>5, StillGenuine DEF Sound
        <3>8. \A i \in 0 .. mem'[r].respHead - 1 : i \in DOMAIN mem'[r].resp
            BY <2>1, <2>8, <3>5, WriteRequestEffect DEF Sound
        <3>9. Sound(r)'
            BY <3>1, <3>6, <3>7, <3>8, <2>2 DEF Sound
        <3>10. SendingOK(c)'
            BY <2>1, <2>2, <3>1, <3>2, <3>4 DEF SendingOK, NextText
        <3>11. GivenGenuine'
            BY <2>3, <3>2, GivenKept DEF GenuineInv
        <3> QED
            BY <2>4, <2>5, <2>6, <3>9, <3>10, <3>11 DEF GenuineInv
    <2>9. CASE PublishRequest(c)
        <3> DEFINE k == mem[r].reqHead
        <3>1. /\ mem'[r].req = mem[r].req /\ mem'[r].reqHead = k + 1
              /\ mem'[r].respHead = mem[r].respHead
            BY <2>1, <2>9, PublishRequestEffect
        <3>2. /\ outcome' = outcome /\ pc[c] = "sending" /\ pc'[c] # "sending"
              /\ turn[c] \in Nat /\ turn'[c] = turn[c] + 1
            BY <2>9 DEF PublishRequest, Types, ClientTypes
        <3>3. k \in DOMAIN mem[r].req /\ mem[r].req[k] = NextText(c)
            BY <2>1, <3>2 DEF GenuineInv, SendingOK
        <3>4. NextText(c) \in Published' \cup {Shutdown}
            BY <3>2, Texts DEF NextText, Published
        <3>5. Sound(r) /\ k \in Nat
            BY <1>0, <2>1 DEF GenuineInv
        <3>6. \A i \in 0 .. k :
                 /\ i \in DOMAIN mem'[r].req
                 /\ mem'[r].req[i] \in Published' \cup {Shutdown}
            BY <2>3, <3>1, <3>3, <3>4, <3>5, StillGenuine DEF Sound
        <3>7. \A i \in DOMAIN mem'[r].resp : mem'[r].resp[i] \in Genuine'
            BY <2>1, <2>3, <3>5, StillGenuine DEF Sound
        <3>8. \A i \in 0 .. mem'[r].respHead - 1 : i \in DOMAIN mem'[r].resp
            BY <2>1, <3>1, <3>5 DEF Sound
        <3>9. Sound(r)'
            BY <3>1, <3>5, <3>6, <3>7, <3>8, <2>2 DEF Sound
        <3>10. GivenGenuine'
            BY <2>3, <3>2, GivenKept DEF GenuineInv
        <3> QED
            BY <2>4, <2>5, <2>6, <3>2, <3>9, <3>10 DEF GenuineInv, SendingOK
    <2>10. CASE ReceiveResponse(c)
        <3> DEFINE k == mem[r].respTail
                   x == At(mem[r].resp, k)
        <3>1. /\ mem'[r].req = mem[r].req /\ mem'[r].reqHead = mem[r].reqHead
              /\ mem[r].respHead > k /\ outcome' = [outcome EXCEPT ![c] = Append(@, x)]
              /\ x \in Descriptor
            BY <2>1, <2>10, ReceiveEffect
        <3>2. Sound(r)'
            BY <1>0, <2>1, <2>3, <3>1, SoundKept DEF GenuineInv
        <3>3. pc'[c] # "sending"
            BY <2>10 DEF ReceiveResponse, Returned, Types, ClientTypes
        <3>4. k \in Nat /\ mem[r].respHead \in Nat
            BY <1>0, <2>1 DEF Region
        <3>5. k \in DOMAIN mem[r].resp /\ Sound(r)
            BY <2>1, <3>1, <3>4 DEF GenuineInv, Sound
        <3>6. x \in Genuine
            BY <3>5 DEF Sound, At
        <3> HIDE DEF x
        <3>7. /\ \A d \in Client : d # c => outcome'[d] = outcome[d]
              /\ outcome'[c] = Append(outcome[c], x)
              /\ outcome[c] \in Seq(Descriptor \cup {None})
            BY <3>1 DEF Types, ClientTypes
        <3>8. Range(outcome'[c]) \subseteq Range(outcome[c]) \cup {x}
            BY <3>7 DEF Range
        <3>9. GivenGenuine'
            <4>1. Genuine \subseteq Genuine'
                BY <2>3, StillGenuine
            <4>2. \A d \in Client : Range(outcome[d]) \subseteq Genuine \cup {None}
                BY DEF GenuineInv, GivenGenuine
            <4>3. Range(outcome'[c]) \subseteq Genuine' \cup {None}
                BY <3>6, <3>8, <4>1, <4>2
            <4>4. \A d \in Client : d # c =>
                     Range(outcome'[d]) \subseteq Genuine' \cup {None}
                BY <3>7, <4>1, <4>2
            <4>5. \A d \in Client : Range(outcome'[d]) \subseteq Genuine' \cup {None}
                BY <4>3, <4>4
            <4> QED
                BY <4>5 DEF GivenGenuine
        <3> QED
            BY <2>4, <2>5, <2>6, <3>2, <3>3, <3>9 DEF GenuineInv, SendingOK
    <2> QED
        BY <1>2, <2>7, <2>8, <2>9, <2>10
<1>3. ASSUME NEW s \in Server, Connect(c, s)
      PROVE  GenuineInv'
    BY <1>3, GenuineFrame DEF Connect, Types, ClientTypes
<1>4. ASSUME Greet(c) \/ Acknowledged(c) \/ SeeReady(c) \/ CloseClient(c) \/ ClientEnds(c)
      PROVE  GenuineInv'
    <2>1. /\ mem' = mem /\ turn' = turn /\ history' = history /\ request' = request
          /\ outcome' = outcome /\ spc' = spc /\ cursor' = cursor
          /\ \A d \in Client : pc'[d] = "sending" => pc[d] = "sending" /\ d # c
          /\ \A q \in Process : q # c => mapped'[q] = mapped[q]
        BY <1>4, Apart
           DEF Greet, Acknowledged, SeeReady, CloseClient, ClientEnds, ClientRaises,
               ClientGoes, Types, RegionTypes, ClientTypes
    <2> QED
        BY <2>1, GenuineFrame, Apart
<1>5. CASE ResponseTimeout(c)
    <2>1. /\ \A d \in Client : d # c => outcome'[d] = outcome[d]
          /\ outcome'[c] = Append(outcome[c], None)
          /\ outcome[c] \in Seq(Descriptor \cup {None})
        BY <1>5 DEF ResponseTimeout, Returned, Types, ClientTypes
    <2>2. Range(outcome'[c]) \subseteq Range(outcome[c]) \cup {None}
        BY <2>1 DEF Range
    <2>3. \A d \in Client : Range(outcome'[d]) \subseteq Range(outcome[d]) \cup {None}
        BY <2>1, <2>2
    <2> QED
        BY <1>5, <2>3, GenuineFrame DEF ResponseTimeout, Returned, Types, ClientTypes
<1> QED
    BY <1>1, <1>2, <1>3, <1>4, <1>5 DEF ClientMoves

LEMMA GenuineServer ==
    ASSUME Types, Types', PlacesInv, GenuineInv, NEW s \in Server, ServerMoves(s)
    PROVE  GenuineInv'
<1> USE DEF clientVars, historyVars, regionVars, ServerGoes
<1>0. /\ \A q \in Process : mem[q] \in Region /\ mem'[q] \in Region
      /\ \A q \in Process : mem[q].reqHead \in Nat /\ mem[q].respHead \in Nat
      /\ \A q \in Process : mapped[q] # None => mapped[q] \in Process
    BY DEF Types, RegionTypes, Region
<1>1. CASE OpenRegion(s)
    <2>1. OpensAt(s) /\ RegionsKept
        BY <1>1, OpenRegionEffect, OpenRegionKeeps
    <2>2. /\ turn' = turn /\ history' = history /\ request' = request
          /\ outcome' = outcome /\ cursor' = cursor /\ pc' = pc
          /\ \A t \in Server : t # s => spc'[t] = spc[t]
          /\ spc'[s] = "loading"
        BY <1>1 DEF OpenRegion, Types, ServerTypes
    <2>3. Growing
        BY <2>2 DEF Growing, Types, ClientTypes
    <2>4. ASSUME NEW r \in Process
          PROVE  Sound(r)'
        <3>1. CASE mem'[r] = mem[r]
            BY <1>0, <2>3, <3>1, SoundKept DEF GenuineInv
        <3>2. CASE mem'[r] = Zeroed
            BY <3>2 DEF Sound, Zeroed
        <3> QED
            BY <2>1, <3>1, <3>2 DEF OpensAt
    <2>5. ASSUME NEW d \in Client
          PROVE  SendingOK(d)'
        <3>1. pc[d] = "sending" => mapped[d] # None
            BY DEF Types, Mappings, Unmapped
        <3> QED
            BY <2>1, <2>2, <3>1, Apart DEF GenuineInv, SendingOK, NextText, RegionsKept
    <2>6. ASSUME NEW t \in Server
          PROVE  AnsweringOK(t)'
        <3>1. spc[t] = "replying" => mapped[t] # None
            BY DEF Types, Mappings, Shut
        <3>2. CASE t = s
            BY <2>2, <3>2 DEF AnsweringOK
        <3>3. CASE t # s
            BY <2>1, <2>2, <2>3, <3>1, <3>3, StillGenuine, Apart
               DEF GenuineInv, AnsweringOK, RegionsKept
        <3> QED
            BY <3>2, <3>3
    <2>7. GivenGenuine'
        BY <2>2, <2>3, GivenKept DEF GenuineInv
    <2> QED
        BY <2>4, <2>5, <2>6, <2>7 DEF GenuineInv
<1>2. ASSUME Serve(s) \/ TakeRequest(s) \/ WriteResponse(s) \/ PublishResponse(s)
      PROVE  GenuineInv'
    <2>0. PICK r \in Process : r = mapped[s]
        BY <1>0, <1>2, Apart DEF Serve, TakeRequest, WriteResponse, PublishResponse,
                                Types, Mappings, Shut
    <2>1. /\ \A q \in Process : q # r => mem'[q] = mem[q]
          /\ mem'[r].req = mem[r].req /\ mem'[r].reqHead = mem[r].reqHead
        BY <1>2, <2>0, ServeEffect, TakeEffect, WriteResponseEffect, PublishResponseEffect
    <2>2. /\ turn' = turn /\ pc' = pc /\ outcome' = outcome
          /\ \A q \in Process : q # s => mapped'[q] = mapped[q]
          /\ \A t \in Server : t # s => /\ spc'[t] = spc[t] /\ cursor'[t] = cursor[t]
                                        /\ history'[t] = history[t]
                                        /\ request'[t] = request[t]
        BY <1>2 DEF Serve, TakeRequest, Stop, WriteResponse, PublishResponse, Types,
                    RegionTypes, ServerTypes
    <2>3. Range(history[s]) \subseteq Range(history'[s])
        <3>1. CASE TakeRequest(s)
            <4>1. PICK x \in Descriptor :
                     \/ history' = history
                     \/ history' = [history EXCEPT ![s] = Append(@, x)]
                BY <3>1, TakeEffect
            <4>2. history'[s] = history[s] \/ history'[s] = Append(history[s], x)
                BY <4>1 DEF Types, ServerTypes
            <4>3. history[s] \in Seq(Descriptor)
                BY DEF Types, ServerTypes
            <4> QED
                BY <4>2, <4>3 DEF Range
        <3>2. CASE ~TakeRequest(s)
            BY <1>2, <3>2 DEF Serve, WriteResponse, PublishResponse
        <3> QED
            BY <3>1, <3>2
    <2>4. Growing
        <3>1. \A d \in Client : turn[d] \in Nat
            BY DEF Types, ClientTypes
        <3> QED
            BY <2>2, <2>3, <3>1 DEF Growing
    <2>5. ASSUME NEW q \in Process, q # r
          PROVE  Sound(q)'
        BY <1>0, <2>1, <2>4, <2>5, SoundKept DEF GenuineInv
    <2>6. ASSUME NEW d \in Client
          PROVE  SendingOK(d)'
        <3>1. pc[d] = "sending" => mapped[d] \in Process
            BY <1>0, Apart DEF Types, Mappings, Unmapped
        <3>2. \A q \in Process : mem'[q].req = mem[q].req /\ mem'[q].reqHead = mem[q].reqHead
            BY <2>1
        <3> QED
            BY <2>2, <3>1, <3>2, Apart DEF GenuineInv, SendingOK, NextText
    <2>7. GivenGenuine'
        BY <2>2, <2>4, GivenKept DEF GenuineInv
    <2>8. Sound(r) /\ Genuine \subseteq Genuine' /\ Published \subseteq Published'
        BY <2>4, StillGenuine DEF GenuineInv
    \* Another server's slots stay written.
    <2>9. ASSUME NEW t \in Server, t # s, DOMAIN mem[r].resp \subseteq DOMAIN mem'[r].resp
          PROVE  AnsweringOK(t)'
        <3>1. spc[t] = "replying" => mapped[t] \in Process
            BY <1>0, Apart DEF Types, Mappings, Shut
        <3>2. \A q \in Process : DOMAIN mem[q].resp \subseteq DOMAIN mem'[q].resp
            BY <2>1, <2>9
        <3> QED
            BY <2>2, <2>8, <2>9, <3>1, <3>2, Apart DEF GenuineInv, AnsweringOK
    <2>10. ASSUME mem'[r].resp = mem[r].resp, mem'[r].respHead <= mem[r].respHead,
                  AnsweringOK(s)'
           PROVE  GenuineInv'
        <3>1. Sound(r)'
            BY <1>0, <2>1, <2>4, <2>8, <2>10, SoundKept
        <3> QED
            BY <2>5, <2>6, <2>7, <2>9, <2>10, <3>1 DEF GenuineInv
    <2>11. CASE Serve(s)
        <3>1. mem'[r].resp = mem[r].resp /\ mem'[r].respHead = mem[r].respHead
            BY <2>0, <2>11, ServeEffect
        <3>2. AnsweringOK(s)'
            BY <2>11 DEF Serve, AnsweringOK, Types, ServerTypes
        <3> QED
            BY <1>0, <2>10, <3>1, <3>2
    <2>12. CASE TakeRequest(s)
        <3>1. PICK x \in Descriptor : x = At(mem[r].req, cursor[s])
            BY <2>0, <2>12, TakeEffect
        <3>2. /\ mem'[r].resp = mem[r].resp /\ mem'[r].respHead = mem[r].respHead
              /\ mem[r].reqHead > cursor[s]
              /\ IF x = Shutdown
                 THEN spc' = [spc EXCEPT ![s] = "stopped"]
                 ELSE /\ spc' = [spc EXCEPT ![s] = "generating"]
                      /\ request' = [request EXCEPT ![s] = x]
                      /\ history' = [history EXCEPT ![s] = Append(@, x)]
            BY <2>0, <2>12, <3>1, TakeEffect
        <3>3. cursor[s] \in Nat /\ history[s] \in Seq(Descriptor)
            BY DEF Types, ServerTypes
        <3>4. x \in Published \cup {Shutdown}
            <4>1. mem[r].reqHead \in Nat
                BY <1>0
            <4>2. cursor[s] \in 0 .. mem[r].reqHead - 1
                BY <3>2, <3>3, <4>1
            <4> QED
                BY <2>8, <3>1, <4>2 DEF Sound, At
        <3>5. CASE x = Shutdown
            <4>1. spc'[s] = "stopped"
                BY <3>2, <3>5 DEF Types, ServerTypes
            <4>2. AnsweringOK(s)'
                BY <4>1 DEF AnsweringOK
            <4> QED
                BY <1>0, <2>10, <3>2, <4>2
        <3>6. CASE x # Shutdown
            <4>1. /\ spc'[s] = "generating" /\ request'[s] = x
                  /\ history'[s] = Append(history[s], x)
                BY <3>2, <3>6 DEF Types, ServerTypes
            <4>2. x \in Range(history'[s])
                <5>1. x = history'[s][Len(history[s]) + 1] /\ Len(history[s]) + 1 \in DOMAIN history'[s]
                    BY <3>3, <4>1
                <5> QED
                    BY <5>1 DEF Range
            <4>3. x \in Genuine'
                BY <2>8, <3>4, <3>6, <4>2 DEF Genuine
            <4>4. AnsweringOK(s)'
                BY <4>1, <4>3 DEF AnsweringOK
            <4> QED
                BY <1>0, <2>10, <3>2, <4>4
        <3> QED
            BY <3>5, <3>6
    <2>13. CASE WriteResponse(s)
        <3>1. PICK k \in Nat : k = mem[r].respHead
            BY <1>0
        <3>2. /\ mem'[r].resp = Written(mem[r].resp, k, request[s])
              /\ mem'[r].respHead = k
              /\ cursor' = [cursor EXCEPT ![s] = k]
            BY <2>0, <2>13, <3>1, WriteResponseEffect
        <3>3. spc[s] = "generating" /\ spc'[s] = "replying" /\ mapped' = mapped
            BY <2>13 DEF WriteResponse, Types, ServerTypes
        <3>4. request[s] \in Genuine
            BY <3>3 DEF GenuineInv, AnsweringOK
        <3>5. request[s] \in Descriptor
            BY <3>4 DEF Genuine, Published
        <3>6. mem[r].resp \in Slots
            BY <1>0 DEF Region
        <3>7. /\ DOMAIN mem'[r].resp = DOMAIN mem[r].resp \cup {k}
              /\ mem'[r].resp[k] = request[s]
              /\ \A j \in DOMAIN mem[r].resp : j # k => mem'[r].resp[j] = mem[r].resp[j]
            <4>1. /\ DOMAIN Written(mem[r].resp, k, request[s]) = DOMAIN mem[r].resp \cup {k}
                  /\ Written(mem[r].resp, k, request[s])[k] = request[s]
                  /\ \A j \in DOMAIN mem[r].resp : j # k =>
                        Written(mem[r].resp, k, request[s])[j] = mem[r].resp[j]
                BY <3>5, <3>6, WrittenSlots
            <4> QED
                BY ONLY <3>2, <4>1
        <3>8. \A j \in DOMAIN mem'[r].resp : mem'[r].resp[j] \in Genuine'
            BY <2>8, <3>4, <3>7 DEF Sound
        <3>9. \A j \in 0 .. k : j \in DOMAIN mem'[r].resp
            BY <2>8, <3>1, <3>7 DEF Sound
        <3>10. \A j \in 0 .. mem'[r].reqHead - 1 :
                  /\ j \in DOMAIN mem'[r].req
                  /\ mem'[r].req[j] \in Published' \cup {Shutdown}
            BY <2>1, <2>8 DEF Sound
        <3>11. Sound(r)'
            BY <3>1, <3>2, <3>8, <3>9, <3>10 DEF Sound
        <3>12. cursor'[s] = k
            BY <3>2 DEF Types, ServerTypes
        <3>13. AnsweringOK(s)'
            BY <2>0, <3>3, <3>9, <3>12 DEF AnsweringOK
        <3>14. \A t \in Server : AnsweringOK(t)'
            BY <2>9, <3>7, <3>13
        <3> QED
            BY <2>5, <2>6, <2>7, <3>11, <3>14 DEF GenuineInv
    <2>14. CASE PublishResponse(s)
        <3>1. PICK k \in Nat : k = cursor[s]
            BY DEF Types, ServerTypes
        <3>2. /\ mem'[r].resp = mem[r].resp /\ mem'[r].respHead = k + 1
            BY <2>0, <2>14, <3>1, PublishResponseEffect
        <3>3. spc[s] = "replying" /\ spc'[s] = "receiving"
            BY <2>14 DEF PublishResponse, Types, ServerTypes
        <3>4. \A j \in 0 .. k : j \in DOMAIN mem[r].resp
            BY <2>0, <3>1, <3>3 DEF GenuineInv, AnsweringOK
        <3>5. \A j \in DOMAIN mem'[r].resp : mem'[r].resp[j] \in Genuine'
            BY <2>8, <3>2 DEF Sound
        <3>6. \A j \in 0 .. mem'[r].reqHead - 1 :
                  /\ j \in DOMAIN mem'[r].req
                  /\ mem'[r].req[j] \in Published' \cup {Shutdown}
            BY <2>1, <2>8 DEF Sound
        <3>7. Sound(r)'
            BY <3>1, <3>2, <3>4, <3>5, <3>6 DEF Sound
        <3>8. \A t \in Server : AnsweringOK(t)'
            BY <2>9, <3>2, <3>3 DEF AnsweringOK
        <3> QED
            BY <2>5, <2>6, <2>7, <3>7, <3>8 DEF GenuineInv
    <2> QED
        BY <1>2, <2>11, <2>12, <2>13, <2>14
<1>3. ASSUME \/ Listens(s) \/ Accept(s) \/ Answer(s) \/ Attach(s) \/ AnswerLinux(s)
             \/ AwaitRequest(s) \/ IdleTimeout(s) \/ ServerEnds(s)
      PROVE  GenuineInv'
    <2>1. /\ mem' = mem /\ turn' = turn /\ history' = history /\ request' = request
          /\ outcome' = outcome /\ pc' = pc
          /\ \A q \in Process : q # s => mapped'[q] = mapped[q]
          /\ spc'[s] \notin {"generating", "replying"}
          /\ \A t \in Server : t # s => spc'[t] = spc[t] /\ cursor'[t] = cursor[t]
        BY <1>3 DEF Listens, Accept, Answer, SendOK, Attach, AnswerLinux, AwaitRequest,
                    IdleTimeout, Stop, ServerEnds, ServerRaises, Types, RegionTypes,
                    ServerTypes
    <2> QED
        BY <2>1, GenuineFrame, Apart
<1> QED
    BY <1>1, <1>2, <1>3 DEF ServerMoves

LEMMA HandshakeStep ==
    ASSUME Types, Types', HandshakeInv, [Next]_vars
    PROVE  HandshakeInv'
<1>1. Linux' <=> Linux
    BY PlatformKept
<1>2. CASE UNCHANGED vars
    BY <1>1, <1>2, HandshakeFrame
       DEF vars, regionVars, clientVars, serverVars, historyVars, Past
<1> QED
    BY <1>1, <1>2, Moves, HandshakeClient, HandshakeServer

LEMMA PlacesStep ==
    ASSUME Types, Types', PlacesInv, [Next]_vars
    PROVE  PlacesInv'
<1>1. CASE UNCHANGED vars
    BY <1>1, PlacesFrame DEF vars, regionVars, clientVars, serverVars
<1> QED
    BY <1>1, Moves, PlacesClient, PlacesServer

LEMMA GenuineStep ==
    ASSUME Types, Types', PlacesInv, PlacesInv', GenuineInv, [Next]_vars
    PROVE  GenuineInv'
<1>1. CASE UNCHANGED vars
    BY <1>1, GenuineFrame DEF vars, regionVars, clientVars, serverVars
<1> QED
    BY <1>1, Moves, GenuineClient, GenuineServer

LEMMA LayersInit ==
    ASSUME Init
    PROVE  HandshakeInv /\ PlacesInv /\ GenuineInv
<1>1. HandshakeInv
    BY DEF Init, HandshakeInv, HandshakeMeansServer, Shaking, Past
<1>2. PlacesInv
    <2>1. \A s \in Server : Range(backlog[s]) = {}
        BY DEF Init, Range
    <2>2. \A s \in Server : Client \cap Reached(s) = {}
        BY <2>1, Apart DEF Init, Reached
    <2> QED
        BY <2>2, Apart DEF Init, PlacesInv, OneAtATime, Connections
<1>3. GenuineInv
    <2>1. \A c \in Client : Range(outcome[c]) = {}
        BY DEF Init, Range
    <2>2. \A r \in Process : Sound(r)
        BY DEF Init, Sound, Zeroed
    <2>3. \A c \in Client : SendingOK(c)
        BY DEF Init, SendingOK
    <2>4. \A s \in Server : AnsweringOK(s)
        BY DEF Init, AnsweringOK
    <2> QED
        BY <2>1, <2>2, <2>3, <2>4 DEF GenuineInv, GivenGenuine
<1> QED
    BY <1>1, <1>2, <1>3

-----------------------------------------------------------------------------
(* What is always so *)

LEMMA AlwaysTypes == Spec => []Types
<1>1. Init => Types
    BY TypesInit
<1>2. Types /\ [Next]_vars => Types'
    BY TypesStep
<1> QED
    BY <1>1, <1>2, PTL DEF Spec

LEMMA TypesMeanOK ==
    ASSUME Types
    PROVE  LifecycleTypeOK
<1>1. \A p \in Process : Ended(p) => mapped[p] = None
    BY Apart DEF Ended, Types, Mappings, Unmapped, Shut
<1>2. ASSUME ~Linux
      PROVE  Cardinality(Named) <= 1
    <2>1. CASE Named = {}
        BY <2>1, FS_EmptySet
    <2>2. CASE Named # {}
        <3>1. PICK x \in Named : TRUE
            BY <2>2
        <3>2. Named = {x}
            BY <1>2, <3>1 DEF Named, Types, Mappings
        <3> QED
            BY <3>2, FS_Singleton
    <2> QED
        BY <2>1, <2>2
<1>3. ASSUME Linux, NEW p \in Process, mapped[p] # None
      PROVE  mapped[p] \in Client
    <2>1. p \in Client => mapped[p] = p
        BY <1>3 DEF Types, Mappings
    <2>2. p \in Server => mapped[p] = peer[p] /\ peer[p] \in Client \cup {None}
        BY <1>3 DEF Types, ServerTypes, Mappings
    <2> QED
        BY <1>3, <2>1, <2>2, Apart
<1> QED
    BY <1>1, <1>2, <1>3
       DEF LifecycleTypeOK, Named, Types, RegionTypes, ServerTypes, TurnsCounted

\* However many clients, servers and prompts there are, the processes of a
\* session map the region of one creator on Windows and clients' regions only on
\* Linux, a process that has ended maps none, and a client is given at most one
\* outcome for each of its prompts.
THEOREM LifecycleTypeCorrect == Spec => []LifecycleTypeOK
<1>1. Types => LifecycleTypeOK
    BY TypesMeanOK
<1> QED
    BY <1>1, AlwaysTypes, PTL

\* A client goes on from the handshake only if a server took up the region it had
\* set up: init_control has cleared the server_ready of an earlier session before
\* the client connects, and nobody but a server in its serve loop sets it.
THEOREM HandshakesServed == Spec => []HandshakeMeansServer
<1>1. Init => HandshakeInv
    BY LayersInit
<1>2. Types /\ Types' /\ HandshakeInv /\ [Next]_vars => HandshakeInv'
    BY HandshakeStep
<1>3. HandshakeInv => HandshakeMeansServer
    BY DEF HandshakeInv
<1> QED
    BY <1>1, <1>2, <1>3, AlwaysTypes, PTL DEF Spec

LEMMA AlwaysPlaced == Spec => []PlacesInv
<1>1. Init => PlacesInv
    BY LayersInit
<1>2. Types /\ Types' /\ PlacesInv /\ [Next]_vars => PlacesInv'
    BY PlacesStep
<1> QED
    BY <1>1, <1>2, AlwaysTypes, PTL DEF Spec

LEMMA AlwaysGenuine == Spec => []GenuineInv
<1>1. Init => GenuineInv
    BY LayersInit
<1>2. Types /\ Types' /\ PlacesInv /\ PlacesInv' /\ GenuineInv /\ [Next]_vars
         => GenuineInv'
    BY GenuineStep
<1> QED
    BY <1>1, <1>2, AlwaysTypes, AlwaysPlaced, PTL DEF Spec

\* Whoever crashed, at whatever point, and whoever opened the region next, a
\* descriptor that dequeue returns to a client was written by a server for a
\* prompt that was sent and shown to its model: no head ever passes a slot that
\* was not written, although init_control clears heads and not slots.
THEOREM GivenDescriptorsGenuine == Spec => []DescriptorsGenuine
<1>1. GenuineInv => DescriptorsGenuine
    BY DEF GenuineInv, GivenGenuine, Genuine, Published, DescriptorsGenuine
<1> QED
    BY <1>1, AlwaysGenuine, PTL

-----------------------------------------------------------------------------
(* A server serves the client it accepted *)

\* The condition of OwnConversation.
Unmixed == Linux \/ ~mixed

\* The region c has or had; on Windows it is lost with its mapping.
Home(c) == IF Linux THEN c ELSE mapped[c]

\* The text of the descriptor that c writes at position i of its requests.
TextAt(c, i) == IF i < Turns THEN Prompt(c, i + 1) ELSE Shutdown

Early == {"off", "listening", "accepted", "opening"}

\* An attached server is alone in its region with the client it accepted.
OwnersInv ==
    Unmixed => \A s \in Server :
        mapped[s] # None =>
            /\ \A d \in Client : mapped[d] = mapped[s] => d = peer[s]
            /\ \A t \in Server : mapped[t] = mapped[s] => t = s

\* The region r has c's conversation in it.
Owns(c, r) ==
    \/ Linux /\ r = c
    \/ ~Linux /\ mapped[c] = r /\ pc[c] # "init"
    \/ \E s \in Server : mapped[s] = r /\ peer[s] = c

Talk(c, r) ==
    /\ \A i \in 0 .. mem[r].reqHead - 1 : mem[r].req[i] = TextAt(c, i)
    /\ \A i \in 0 .. mem[r].respHead - 1 : mem[r].resp[i][1] = c

\* c may still be accepted by a server, or is by one that has not attached.
Unserved(c) ==
    \/ pc[c] = "connecting"
    \/ \E s \in Server : c \in Reached(s) /\ spc[s] \in Early

Given(c) ==
    \A i \in 1 .. Len(outcome[c]) : outcome[c][i] # None => outcome[c][i][1] = c

ClientOK(c) ==
    /\ pc[c] = "off" => field[c] = 1
    /\ pc[c] = "init" =>
          /\ field[c] > 1 => mem[mapped[c]].reqHead = 0
          /\ field[c] > 2 => mem[mapped[c]].reqTail = 0
          /\ field[c] > 3 => mem[mapped[c]].respHead = 0
    /\ mapped[c] # None /\ pc[c] # "init" => mem[mapped[c]].reqHead = turn[c]
    /\ Unserved(c) /\ Home(c) # None => mem[Home(c)].reqTail = 0
    /\ Given(c)

Shown(s) == \A i \in 1 .. Len(history[s]) : history[s][i] = Prompt(peer[s], i)

ServerOK(s) ==
    /\ spc[s] \in Early => history[s] = <<>>
    /\ Shown(s)
    /\ mapped[s] # None =>
          LET m == mem[mapped[s]]
          IN  /\ m.reqTail = Len(history[s])
              /\ spc[s] = "polling" => cursor[s] = m.reqTail
              /\ spc[s] \in {"generating", "replying"} => request[s][1] = peer[s]
              /\ spc[s] = "replying" =>
                    cursor[s] = m.respHead /\ m.resp[cursor[s]] = request[s]

OwnInv ==
    Unmixed => /\ \A c \in Client : \A r \in Process : Owns(c, r) => Talk(c, r)
               /\ \A c \in Client : ClientOK(c)
               /\ \A s \in Server : ServerOK(s)

LEMMA UnmixedKept ==
    ASSUME [Next]_vars
    PROVE  Unmixed' => Unmixed
<1>1. Linux' <=> Linux
    BY PlatformKept
<1>2. ASSUME NEW c \in Client, ClientMoves(c)
      PROVE  ~mixed' => ~mixed
    BY <1>2 DEF ClientMoves, Open, InitControl, Connect, Greet, Acknowledged, SeeReady,
        WriteRequest, PublishRequest, ReceiveResponse, ResponseTimeout, CloseClient,
        ClientEnds, ClientRaises, ClientGoes, Returned, historyVars
<1>3. ASSUME NEW s \in Server, ServerMoves(s)
      PROVE  ~mixed' => ~mixed
    BY <1>3 DEF ServerMoves, Listens, Accept, Answer, OpenRegion, Attach, AnswerLinux,
        Serve, AwaitRequest, TakeRequest, IdleTimeout, WriteResponse, PublishResponse,
        ServerEnds, ServerRaises, ServerGoes, SendOK, historyVars
<1>4. CASE UNCHANGED vars
    BY <1>4 DEF vars, historyVars, Unmixed, Linux
<1> QED
    BY <1>1, <1>2, <1>3, <1>4, Moves DEF Unmixed

\* On Linux the region of a server is that of the one client it has accepted.
LEMMA OwnersOnLinux ==
    ASSUME Types, PlacesInv, Linux
    PROVE  OwnersInv
<1>1. ASSUME NEW s \in Server, mapped[s] # None
      PROVE  mapped[s] = peer[s] /\ peer[s] \in Client
    BY <1>1 DEF Types, ServerTypes, Mappings
<1>2. ASSUME NEW s \in Server, NEW t \in Server, mapped[s] # None, mapped[t] = mapped[s]
      PROVE  t = s
    BY <1>1, <1>2 DEF PlacesInv, Connections, Reached
<1>3. ASSUME NEW s \in Server, NEW d \in Client, mapped[s] # None, mapped[d] = mapped[s]
      PROVE  d = peer[s]
    BY <1>1, <1>3 DEF Types, Mappings
<1> QED
    BY <1>2, <1>3 DEF OwnersInv

\* Nobody attaches, and an attached server keeps its client.
LEMMA OwnersFrame ==
    ASSUME OwnersInv, Unmixed' => Unmixed,
           \A q \in Process : mapped'[q] # None => mapped'[q] = mapped[q],
           \A s \in Server : mapped[s] # None => peer'[s] = peer[s]
    PROVE  OwnersInv'
<1> SUFFICES ASSUME Unmixed', NEW s \in Server, mapped'[s] # None
             PROVE  /\ \A d \in Client : mapped'[d] = mapped'[s] => d = peer'[s]
                    /\ \A t \in Server : mapped'[t] = mapped'[s] => t = s
    BY DEF OwnersInv
<1> QED
    BY Apart DEF OwnersInv

LEMMA OwnersClient ==
    ASSUME Types, Types', PlacesInv, OwnersInv, ~Linux, ~Linux', Unmixed' => Unmixed,
           NEW c \in Client, ClientMoves(c)
    PROVE  OwnersInv'
<1>1. CASE Open(c)
    <2> SUFFICES ASSUME Unmixed', NEW s \in Server, mapped'[s] # None
                 PROVE  FALSE
        BY DEF OwnersInv
    <2>1. mapped[s] # None
        BY <1>1, OpenEffect, Apart DEF OpensAt
    <2>2. Bound(s)
        BY <2>1, Apart DEF Bound, Ended, Types, ServerTypes, Mappings, Shut, Serving
    <2> QED
        BY <1>1, <2>2 DEF Open, Unmixed
<1>2. CASE ~Open(c)
    <2>1. peer' = peer
        BY <1>2 DEF ClientMoves, InitControl, Connect, Greet, Acknowledged, SeeReady,
            WriteRequest, PublishRequest, ReceiveResponse, ResponseTimeout, CloseClient,
            ClientEnds, ClientRaises, ClientGoes, Returned, serverVars
    <2>2. \A q \in Process : mapped'[q] # None => mapped'[q] = mapped[q]
        BY <1>2
           DEF ClientMoves, InitControl, Connect, Greet, Acknowledged, SeeReady,
               WriteRequest, PublishRequest, ReceiveResponse, ResponseTimeout,
               CloseClient, ClientEnds, ClientRaises, ClientGoes, Returned, regionVars,
               Types, RegionTypes
    <2> QED
        BY <2>1, <2>2, OwnersFrame
<1> QED
    BY <1>1, <1>2

LEMMA OwnersServer ==
    ASSUME Types, Types', PlacesInv, OwnersInv, ~Linux, ~Linux', Unmixed' => Unmixed,
           NEW s \in Server, ServerMoves(s)
    PROVE  OwnersInv'
<1>1. CASE OpenRegion(s)
    <2> SUFFICES ASSUME Unmixed'
                 PROVE  \A t \in Server :
                          mapped'[t] # None =>
                            /\ \A d \in Client : mapped'[d] = mapped'[t] => d = peer'[t]
                            /\ \A u \in Server : mapped'[u] = mapped'[t] => u = t
        BY DEF OwnersInv
    <2>7. peer[s] \in Client
        BY <1>1 DEF OpenRegion, Types, ServerTypes, Mappings
    <2>8. ~Ended(peer[s])
        <3>1. mixed' = (mixed \/ Ended(peer[s]))
            BY <1>1 DEF OpenRegion
        <3> QED
            BY <3>1 DEF Unmixed
    <2>1. PICK c \in Client : c = peer[s] /\ ~Ended(c)
        BY <2>7, <2>8
    <2>2. pc[c] \notin Unmapped
        BY <2>1, Apart DEF PlacesInv, Connections, Reached, Ended, Unmapped
    <2>3. mapped[c] # None
        BY <2>2 DEF Types, Mappings
    <2>4. peer' = peer /\ OpensAt(s)
        BY <1>1, OpenRegionEffect DEF OpenRegion, ServerGoes
    <2>5. ASSUME NEW t \in Server, t # s
          PROVE  mapped'[t] = None
        <3> SUFFICES ASSUME mapped[t] # None
                     PROVE  FALSE
            BY <2>4, <2>5, Apart DEF OpensAt
        <3>1. mapped[c] = mapped[t]
            BY <2>3, Apart DEF Types, Mappings
        <3>2. c = peer[t]
            BY <3>1 DEF OwnersInv
        <3> QED
            BY <2>1, <2>5, <3>2 DEF PlacesInv, Connections, Reached
    <2>6. ASSUME NEW d \in Client, mapped'[d] # None
          PROVE  d = c
        BY <2>3, <2>4, <2>6, Apart DEF OpensAt, PlacesInv, OneAtATime
    <2> QED
        BY <2>1, <2>4, <2>5, <2>6
<1>2. CASE ~OpenRegion(s)
    <2>1. \A q \in Process : mapped'[q] # None => mapped'[q] = mapped[q]
        BY <1>2
           DEF ServerMoves, Listens, Accept, Answer, Attach, AnswerLinux, Serve,
               AwaitRequest, TakeRequest, Stop, IdleTimeout, WriteResponse,
               PublishResponse, ServerEnds, ServerRaises, ServerGoes, SendOK,
               regionVars, Types, RegionTypes
    <2>2. \A t \in Server : mapped[t] # None => peer'[t] = peer[t]
        <3>1. CASE Accept(s)
            BY <3>1 DEF Accept, Types, ServerTypes, Mappings, Shut
        <3>2. CASE ~Accept(s)
            BY <1>2, <3>2
               DEF ServerMoves, Listens, Answer, Attach, AnswerLinux, Serve,
                   AwaitRequest, TakeRequest, IdleTimeout, WriteResponse,
                   PublishResponse, ServerEnds, ServerRaises, ServerGoes, SendOK
        <3> QED
            BY <3>1, <3>2
    <2> QED
        BY <2>1, <2>2, OwnersFrame
<1> QED
    BY <1>1, <1>2

LEMMA OwnersStep ==
    ASSUME Types, Types', PlacesInv, PlacesInv', OwnersInv, [Next]_vars
    PROVE  OwnersInv'
<1>1. (Linux' <=> Linux) /\ (Unmixed' => Unmixed)
    BY PlatformKept, UnmixedKept
<1>2. CASE Linux
    <2>1. Types /\ PlacesInv /\ Linux => OwnersInv
        BY OwnersOnLinux
    <2> QED
        BY <1>1, <1>2, <2>1, OwnersOnLinux, PTL
<1>3. CASE ~Linux /\ UNCHANGED vars
    BY <1>1, <1>3, OwnersFrame DEF vars, regionVars, serverVars
<1> QED
    BY <1>1, <1>2, <1>3, Moves, OwnersClient, OwnersServer

\* A region has one client's conversation in it.
LEMMA OwnsOnce ==
    ASSUME Types, PlacesInv, OwnersInv, Unmixed,
           NEW c \in Client, NEW d \in Client, NEW r \in Process, Owns(c, r), Owns(d, r)
    PROVE  c = d
<1>1. r # None
    BY Apart
<1>2. CASE Linux
    <2>1. ASSUME NEW e \in Client, Owns(e, r)
          PROVE  e = r
        BY <1>1, <1>2, <2>1 DEF Owns, Types, Mappings
    <2> QED
        BY <2>1
<1>3. CASE ~Linux
    BY <1>1, <1>3 DEF Owns, OwnersInv, PlacesInv, OneAtATime
<1> QED
    BY <1>2, <1>3

\* No server is attached to the region of a client that waits for one.
LEMMA Alone ==
    ASSUME Types, PlacesInv, OwnersInv, Unmixed,
           NEW c \in Client, pc[c] = "init" \/ Unserved(c),
           NEW s \in Server, mapped[s] # None
    PROVE  mapped[s] # Home(c)
<1> SUFFICES ASSUME mapped[s] = Home(c)
             PROVE  FALSE
    OBVIOUS
<1>1. peer[s] = c
    BY DEF Home, OwnersInv, Types, Mappings
<1>2. spc[s] \notin Early
    BY DEF Early, Types, Mappings, Shut
<1>3. c \in Reached(s)
    BY <1>1 DEF Reached
<1>4. pc[c] \notin {"init", "connecting"}
    BY <1>3 DEF PlacesInv, Connections
<1>5. PICK t \in Server : c \in Reached(t) /\ spc[t] \in Early
    BY <1>4 DEF Unserved
<1> QED
    BY <1>2, <1>3, <1>5 DEF PlacesInv, Connections

\* A step that writes to no slot of r and moves no head of it forward.
LEMMA TalkKept ==
    ASSUME NEW c \in Client, NEW r \in Process, Talk(c, r),
           mem[r] \in Region, mem'[r] \in Region,
           mem'[r].req = mem[r].req, mem'[r].resp = mem[r].resp,
           mem'[r].reqHead <= mem[r].reqHead, mem'[r].respHead <= mem[r].respHead
    PROVE  Talk(c, r)'
<1>1. /\ mem[r].reqHead \in Nat /\ mem'[r].reqHead \in Nat
      /\ mem[r].respHead \in Nat /\ mem'[r].respHead \in Nat
    BY DEF Region
<1>2. \A i \in 0 .. mem'[r].reqHead - 1 : mem'[r].req[i] = TextAt(c, i)
    BY <1>1 DEF Talk
<1>3. \A i \in 0 .. mem'[r].respHead - 1 : mem'[r].resp[i][1] = c
    BY <1>1 DEF Talk
<1> QED
    BY <1>2, <1>3 DEF Talk, TextAt

\* The client d sees no step in its region, or loses it.
ClientRests(d) ==
    /\ mapped'[d] \in {mapped[d], None}
    /\ pc'[d] \in {"off", "init"} => pc'[d] = pc[d]
    /\ mapped'[d] # None /\ pc'[d] # "init" => pc[d] # "init"
    /\ field'[d] = field[d] /\ turn'[d] = turn[d]
    /\ Given(d) => Given(d)'
    /\ Unserved(d)' => Unserved(d)

CursorsKept(r) ==
    /\ mem'[r].reqHead = mem[r].reqHead
    /\ mem'[r].reqTail = mem[r].reqTail
    /\ mem'[r].respHead = mem[r].respHead

LEMMA ClientKept ==
    ASSUME Types, Types', Linux' <=> Linux, NEW d \in Client, ClientOK(d),
           ClientRests(d),
           Home(d) # None => mem'[Home(d)].reqHead = mem[Home(d)].reqHead,
           Home(d) # None /\ (pc[d] = "init" \/ Unserved(d)) => CursorsKept(Home(d))
    PROVE  ClientOK(d)'
<1>1. Home(d)' # None => Home(d)' = Home(d)
    BY DEF Home, ClientRests
<1>2. mapped[d] # None => Home(d) = mapped[d]
    BY DEF Home, Types, Mappings
<1>3. mapped'[d] # None => mapped'[d] = mapped[d]
    BY DEF ClientRests
<1>4. pc'[d] = "init" => mapped'[d] # None
    BY DEF Types, Mappings, Unmapped
<1>5. pc'[d] = "off" => field'[d] = 1
    BY DEF ClientOK, ClientRests
<1>6. pc'[d] = "init" =>
          /\ field'[d] > 1 => mem'[mapped'[d]].reqHead = 0
          /\ field'[d] > 2 => mem'[mapped'[d]].reqTail = 0
          /\ field'[d] > 3 => mem'[mapped'[d]].respHead = 0
    BY <1>2, <1>3, <1>4 DEF ClientOK, ClientRests, CursorsKept
<1>7. mapped'[d] # None /\ pc'[d] # "init" => mem'[mapped'[d]].reqHead = turn'[d]
    BY <1>2, <1>3 DEF ClientOK, ClientRests, CursorsKept
<1>8. Unserved(d)' /\ Home(d)' # None => mem'[Home(d)'].reqTail = 0
    BY <1>1 DEF ClientOK, ClientRests, CursorsKept
<1>9. Given(d)'
    BY DEF ClientOK, ClientRests
<1> QED
    BY <1>5, <1>6, <1>7, <1>8, <1>9 DEF ClientOK

\* The server s sees no step in its region that its loop depends on.
ServerRests(s) ==
    /\ spc'[s] \in Early => spc[s] \in Early
    /\ history'[s] = history[s]
    /\ peer'[s] = peer[s] \/ spc[s] \in Early
    /\ mapped'[s] # None =>
          /\ mapped'[s] = mapped[s] /\ peer'[s] = peer[s]
          /\ LET r == mapped[s]
             IN  /\ mem'[r].reqTail = mem[r].reqTail
                 /\ mem'[r].respHead = mem[r].respHead
                 /\ mem'[r].resp = mem[r].resp
                 /\ spc'[s] = "polling" =>
                       \/ spc[s] = "polling" /\ cursor'[s] = cursor[s]
                       \/ cursor'[s] = mem[r].reqTail
                 /\ spc'[s] \in {"generating", "replying"} =>
                       /\ spc'[s] = spc[s] /\ cursor'[s] = cursor[s]
                       /\ request'[s] = request[s]

LEMMA ServerKept ==
    ASSUME NEW s \in Server, ServerOK(s), ServerRests(s)
    PROVE  ServerOK(s)'
<1>1. spc'[s] \in Early => history'[s] = <<>>
    BY DEF ServerOK, ServerRests
<1>2. Shown(s)'
    <2>1. CASE peer'[s] = peer[s]
        BY <2>1 DEF ServerOK, ServerRests, Shown
    <2>2. CASE spc[s] \in Early
        BY <2>2 DEF ServerOK, ServerRests, Shown
    <2> QED
        BY <2>1, <2>2 DEF ServerRests
<1>3. ASSUME mapped'[s] # None
      PROVE  LET m == mem'[mapped'[s]]
             IN  /\ m.reqTail = Len(history'[s])
                 /\ spc'[s] = "polling" => cursor'[s] = m.reqTail
                 /\ spc'[s] \in {"generating", "replying"} => request'[s][1] = peer'[s]
                 /\ spc'[s] = "replying" =>
                       cursor'[s] = m.respHead /\ m.resp[cursor'[s]] = request'[s]
    <2>1. PICK r : r = mapped[s]
        OBVIOUS
    <2>2. mapped'[s] = r
        BY <1>3, <2>1 DEF ServerRests
    <2> QED
        BY <1>3, <2>1, <2>2 DEF ServerOK, ServerRests
<1> QED
    BY <1>1, <1>2, <1>3 DEF ServerOK, Early

\* A step that changes no cursor but a tail of the responses, and no slot.
LEMMA OwnFrame ==
    ASSUME Types, Types', Linux' <=> Linux, Unmixed' => Unmixed, OwnInv,
           \A r \in Process :
              /\ CursorsKept(r)
              /\ mem'[r].req = mem[r].req /\ mem'[r].resp = mem[r].resp,
           \A c \in Client : ClientRests(c),
           \A s \in Server : ServerRests(s)
    PROVE  OwnInv'
<1> SUFFICES ASSUME Unmixed'
             PROVE  /\ \A c \in Client : \A r \in Process : Owns(c, r)' => Talk(c, r)'
                    /\ \A c \in Client : ClientOK(c)'
                    /\ \A s \in Server : ServerOK(s)'
    BY DEF OwnInv
<1>0. /\ \A q \in Process : mem[q] \in Region /\ mem'[q] \in Region
      /\ \A q \in Process : mem[q].reqHead \in Nat /\ mem[q].respHead \in Nat
      /\ \A q \in Process : mapped[q] # None => mapped[q] \in Process
    BY DEF Types, RegionTypes, Region
<1>1. ASSUME NEW c \in Client, NEW r \in Process, Owns(c, r)'
      PROVE  Talk(c, r)'
    <2>1. r # None
        BY Apart
    <2>2. Owns(c, r)
        BY <1>1, <2>1 DEF Owns, ClientRests, ServerRests
    <2>3. Talk(c, r)
        BY <2>2 DEF OwnInv
    <2> QED
        BY <1>0, <2>3, TalkKept DEF CursorsKept
<1>2. ASSUME NEW c \in Client
      PROVE  ClientOK(c)'
    <2>1. ClientOK(c)
        BY DEF OwnInv
    <2>2. Home(c) # None => Home(c) \in Process
        BY <1>0, Apart DEF Home
    <2> QED
        BY <2>1, <2>2, ClientKept DEF CursorsKept
<1>3. \A s \in Server : ServerOK(s)'
    BY ServerKept DEF OwnInv
<1> QED
    BY <1>1, <1>2, <1>3

LEMMA OwnClientQuiet ==
    ASSUME Types, Types', Linux' <=> Linux, Unmixed' => Unmixed, PlacesInv, OwnersInv,
           GenuineInv, OwnInv, NEW c \in Client,
           \/ \E s \in Server : Connect(c, s)
           \/ Greet(c) \/ Acknowledged(c) \/ SeeReady(c) \/ ReceiveResponse(c)
           \/ ResponseTimeout(c) \/ CloseClient(c) \/ ClientEnds(c)
    PROVE  OwnInv'
<1> USE DEF regionVars, serverVars
<1> SUFFICES ASSUME Unmixed', Unmixed
             PROVE  OwnInv'
    BY DEF OwnInv
<1>1. /\ history' = history /\ request' = request /\ field' = field /\ turn' = turn
      /\ spc' = spc /\ peer' = peer /\ cursor' = cursor
      /\ \A q \in Process : q # c => mapped'[q] = mapped[q]
      /\ mapped'[c] \in {mapped[c], None}
      /\ \A d \in Client : d # c => pc'[d] = pc[d]
      /\ pc'[c] \notin {"off", "init", "connecting"}
      /\ pc[c] # "init" \/ mapped'[c] = None
    BY Apart
       DEF Connect, Greet, Acknowledged, SeeReady, ReceiveResponse, ResponseTimeout,
           CloseClient, ClientEnds, ClientRaises, ClientGoes, Returned, Types,
           RegionTypes, ClientTypes, Unmapped
<1>2. \A r \in Process :
          /\ CursorsKept(r)
          /\ mem'[r].req = mem[r].req /\ mem'[r].resp = mem[r].resp
    <2>1. CASE ReceiveResponse(c)
        BY <2>1, ReceiveEffect DEF CursorsKept
    <2>2. CASE ~ReceiveResponse(c)
        BY <2>2
           DEF Connect, Greet, Acknowledged, SeeReady, ResponseTimeout, CloseClient,
               ClientEnds, ClientRaises, CursorsKept
    <2> QED
        BY <2>1, <2>2
<1>3. ASSUME NEW d \in Client, Unserved(d)'
      PROVE  Unserved(d)
    <2>1. CASE backlog' = backlog
        BY <1>1, <1>3, <2>1 DEF Unserved, Reached
    <2>2. CASE backlog' # backlog
        <3>1. PICK s \in Server : Connect(c, s)
            BY <2>2
               DEF Greet, Acknowledged, SeeReady, ReceiveResponse, ResponseTimeout,
                   CloseClient, ClientEnds, ClientRaises, ClientGoes, Returned
        <3>2. /\ pc[c] = "connecting"
              /\ \A t \in Server : t # s => backlog'[t] = backlog[t]
              /\ backlog[s] \in Seq(Client) /\ backlog'[s] = Append(backlog[s], c)
            BY <3>1 DEF Connect, Types, ServerTypes
        <3>3. Range(backlog'[s]) = Range(backlog[s]) \cup {c}
            BY <3>2 DEF Range
        <3>4. CASE d = c
            BY <3>2, <3>4 DEF Unserved
        <3>5. CASE d # c
            <4>1. \A t \in Server : d \in Reached(t)' => d \in Reached(t)
                <5>1. \A t \in Server : t # s => Reached(t)' = Reached(t)
                    BY <1>1, <3>2 DEF Reached
                <5>2. Reached(s)' = Reached(s) \cup {c}
                    BY <1>1, <3>3 DEF Reached
                <5> QED
                    BY <3>5, <5>1, <5>2
            <4>2. pc'[d] = pc[d]
                BY <1>1, <3>5
            <4> QED
                BY <1>1, <1>3, <4>1, <4>2 DEF Unserved
        <3> QED
            BY <3>4, <3>5
    <2> QED
        BY <2>1, <2>2
<1>4. ASSUME NEW d \in Client, Given(d)
      PROVE  Given(d)'
    <2>1. CASE outcome'[d] = outcome[d]
        BY <1>4, <2>1 DEF Given
    <2>2. CASE outcome'[d] # outcome[d]
        <3>1. d = c /\ (ReceiveResponse(c) \/ ResponseTimeout(c))
            BY <2>2
               DEF Connect, Greet, Acknowledged, SeeReady, ReceiveResponse,
                   ResponseTimeout, CloseClient, ClientEnds, ClientRaises, ClientGoes,
                   Returned, Types, ClientTypes
        <3>2. PICK x : /\ outcome'[c] = Append(outcome[c], x)
                       /\ x \in Descriptor \cup {None}
                       /\ x # None => x[1] = c
            <4>1. CASE ResponseTimeout(c)
                BY <4>1 DEF ResponseTimeout, Returned, Types, ClientTypes
            <4>2. CASE ReceiveResponse(c)
                <5>1. PICK r \in Process : r = mapped[c]
                    BY <4>2, ReceiveEffect
                <5>2. PICK k \in Nat : k = mem[r].respTail
                    BY DEF Types, RegionTypes, Region
                <5>3. /\ mem[r].respHead > k
                      /\ At(mem[r].resp, k) \in Descriptor
                      /\ outcome' = [outcome EXCEPT ![c] = Append(@, At(mem[r].resp, k))]
                    BY <4>2, <5>1, <5>2, ReceiveEffect
                <5>4. k \in 0 .. mem[r].respHead - 1
                    BY <5>3 DEF Types, RegionTypes, Region
                <5>5. k \in DOMAIN mem[r].resp
                    BY <5>4 DEF GenuineInv, Sound
                <5>6. pc[c] = "receiving"
                    BY <4>2 DEF ReceiveResponse
                <5>7. Owns(c, r)
                    BY <5>1, <5>6, Apart DEF Owns, Types, Mappings
                <5>8. mem[r].resp[k][1] = c
                    BY <5>4, <5>7 DEF OwnInv, Talk
                <5>9. At(mem[r].resp, k) = mem[r].resp[k]
                    BY <5>5 DEF At
                <5>10. outcome'[c] = Append(outcome[c], mem[r].resp[k])
                    BY <5>3, <5>9 DEF Types, ClientTypes
                <5> QED
                    BY <5>3, <5>8, <5>9, <5>10
            <4> QED
                BY <3>1, <4>1, <4>2
        <3>3. outcome[c] \in Seq(Descriptor \cup {None})
            BY DEF Types, ClientTypes
        <3> QED
            BY <1>4, <3>1, <3>2, <3>3 DEF Given
    <2> QED
        BY <2>1, <2>2
<1>5. \A d \in Client : ClientRests(d)
    BY <1>1, <1>3, <1>4, Apart DEF ClientRests
<1>6. \A s \in Server : ServerRests(s)
    BY <1>1, <1>2, Apart DEF ServerRests, CursorsKept, Types, RegionTypes
<1> QED
    BY <1>2, <1>5, <1>6, OwnFrame

LEMMA OwnServerQuiet ==
    ASSUME Types, Types', Linux' <=> Linux, Unmixed' => Unmixed, PlacesInv, OwnInv,
           NEW s \in Server,
           \/ Listens(s) \/ Accept(s) \/ Answer(s) \/ AnswerLinux(s) \/ Serve(s)
           \/ AwaitRequest(s) \/ IdleTimeout(s) \/ ServerEnds(s)
    PROVE  OwnInv'
<1> USE DEF regionVars, clientVars, ServerGoes, Early
<1>1. /\ history' = history /\ request' = request /\ field' = field /\ turn' = turn
      /\ pc' = pc /\ outcome' = outcome
      /\ \A q \in Process : q # s => mapped'[q] = mapped[q]
      /\ mapped'[s] \in {mapped[s], None}
      /\ \A t \in Server : t # s => /\ spc'[t] = spc[t] /\ peer'[t] = peer[t]
                                    /\ cursor'[t] = cursor[t]
      /\ spc'[s] \in Early => spc[s] \in Early
      /\ peer'[s] = peer[s] \/ spc[s] \in Early
      /\ spc'[s] \notin {"generating", "replying"}
    BY DEF Listens, Accept, Answer, AnswerLinux, SendOK, Serve, AwaitRequest, Stop,
           IdleTimeout, ServerEnds, ServerRaises, Types, RegionTypes, ServerTypes
<1>2. \A r \in Process :
          /\ CursorsKept(r)
          /\ mem'[r].req = mem[r].req /\ mem'[r].resp = mem[r].resp
    <2>1. CASE Serve(s)
        BY <2>1, ServeEffect DEF CursorsKept
    <2>2. CASE ~Serve(s)
        BY <2>2
           DEF Listens, Accept, Answer, AnswerLinux, SendOK, AwaitRequest,
               IdleTimeout, ServerEnds, ServerRaises, CursorsKept
    <2> QED
        BY <2>1, <2>2
<1>3. ASSUME NEW t \in Server
      PROVE  Client \cap Reached(t)' \subseteq Reached(t)
    <2>1. CASE Accept(s)
        <3>1. /\ \A u \in Server : u # s => backlog'[u] = backlog[u] /\ peer'[u] = peer[u]
              /\ backlog[s] \in Seq(Client) /\ backlog[s] # <<>>
              /\ backlog'[s] = <<>> /\ peer'[s] = Head(backlog[s])
            BY <2>1 DEF Accept, Types, ServerTypes
        <3>2. Head(backlog[s]) \in Range(backlog[s])
            BY <3>1 DEF Range
        <3>3. Range(backlog'[s]) = {}
            BY <3>1 DEF Range
        <3> QED
            BY <3>1, <3>2, <3>3 DEF Reached
    <2>2. CASE ~Accept(s)
        BY <2>2
           DEF Listens, Answer, AnswerLinux, SendOK, Serve, AwaitRequest, IdleTimeout,
               ServerEnds, ServerRaises, Reached
    <2> QED
        BY <2>1, <2>2
<1>4. \A d \in Client : Unserved(d)' => Unserved(d)
    BY <1>1, <1>3 DEF Unserved
<1>5. \A d \in Client : ClientRests(d)
    BY <1>1, <1>4, Apart DEF ClientRests, Given
<1>6. mapped'[s] # None => mapped'[s] = mapped[s] /\ peer'[s] = peer[s]
    <2>1. CASE Accept(s)
        BY <2>1 DEF Accept, Types, Mappings, Shut
    <2>2. CASE ~Accept(s)
        BY <1>1, <2>2
           DEF Listens, Answer, AnswerLinux, SendOK, Serve, AwaitRequest, IdleTimeout,
               ServerEnds, ServerRaises
    <2> QED
        BY <2>1, <2>2
<1>7. spc'[s] = "polling" => cursor'[s] = mem[mapped[s]].reqTail
    BY DEF Listens, Accept, Answer, AnswerLinux, SendOK, Serve, AwaitRequest, Stop,
           IdleTimeout, ServerEnds, ServerRaises, Types, ServerTypes
<1>8. \A q \in Process : mapped[q] # None => mapped[q] \in Process
    BY DEF Types, RegionTypes
<1>9. ServerRests(s)
    BY <1>1, <1>2, <1>6, <1>7, <1>8, Apart DEF ServerRests, CursorsKept
<1>10. ASSUME NEW t \in Server, t # s
       PROVE  ServerRests(t)
    BY <1>1, <1>2, <1>8, <1>10, Apart DEF ServerRests, CursorsKept
<1> QED
    BY <1>2, <1>5, <1>9, <1>10, OwnFrame

LEMMA OwnOpen ==
    ASSUME Types, Types', Linux' <=> Linux, Unmixed' => Unmixed, PlacesInv, PlacesInv',
           OwnInv, NEW c \in Client, Open(c)
    PROVE  OwnInv'
<1> USE DEF serverVars
<1> SUFFICES ASSUME Unmixed', Unmixed
             PROVE  /\ \A d \in Client : \A r \in Process : Owns(d, r)' => Talk(d, r)'
                    /\ \A d \in Client : ClientOK(d)'
                    /\ \A s \in Server : ServerOK(s)'
    BY DEF OwnInv
<1>1. OpensAt(c) /\ RegionsKept
    BY OpenEffect, OpenKeeps
<1>2. /\ history' = history /\ request' = request /\ field' = field /\ turn' = turn
      /\ spc' = spc /\ peer' = peer /\ cursor' = cursor /\ backlog' = backlog
      /\ outcome' = outcome
      /\ pc[c] = "off" /\ pc'[c] = "init"
      /\ \A d \in Client : d # c => pc'[d] = pc[d]
    BY DEF Open, Types, ClientTypes
<1>3. /\ \A q \in Process : mem[q] \in Region /\ mem'[q] \in Region
      /\ \A q \in Process : mem[q].reqHead \in Nat /\ mem[q].respHead \in Nat
      /\ \A q \in Process : mapped[q] # None => mapped[q] \in Process
    BY DEF Types, RegionTypes, Region
<1>4. ASSUME NEW d \in Client, NEW r \in Process, Owns(d, r)'
      PROVE  Talk(d, r)'
    <2>1. CASE mem'[r] = Zeroed
        BY <2>1 DEF Talk, Zeroed
    <2>2. CASE Owns(d, r) /\ mem'[r] = mem[r]
        <3>1. Talk(d, r)
            BY <2>2 DEF OwnInv
        <3> QED
            BY <1>3, <2>2, <3>1, TalkKept
    <2>3. r # None
        BY Apart
    <2>4. CASE Linux /\ r = d
        BY <1>1, <2>1, <2>2, <2>4 DEF OpensAt, Owns
    <2>5. CASE ~Linux /\ mapped'[d] = r /\ pc'[d] # "init"
        BY <1>1, <1>2, <2>2, <2>3, <2>5, Apart DEF OpensAt, Owns, RegionsKept
    <2>6. ASSUME NEW s \in Server, mapped'[s] = r, peer'[s] = d
          PROVE  Talk(d, r)'
        BY <1>1, <1>2, <2>2, <2>3, <2>6, Apart DEF OpensAt, Owns, RegionsKept
    <2> QED
        BY <1>4, <2>4, <2>5, <2>6 DEF Owns
<1>5. ASSUME NEW d \in Client
      PROVE  ClientOK(d)'
    <2>1. ClientOK(d)
        BY DEF OwnInv
    <2>2. CASE d = c
        <3>1. field'[c] = 1
            BY <1>2, <2>1, <2>2 DEF ClientOK
        <3>2. ~Unserved(c)'
            BY <1>2 DEF Unserved, PlacesInv, Connections
        <3>3. Given(c)'
            BY <1>2, <2>1, <2>2 DEF ClientOK, Given
        <3> QED
            BY <1>2, <2>2, <3>1, <3>2, <3>3 DEF ClientOK
    <2>3. CASE d # c
        <3>1. mapped'[d] = mapped[d] /\ pc'[d] = pc[d]
            BY <1>1, <1>2, <2>3, Apart DEF OpensAt
        <3>2. ClientRests(d)
            BY <1>2, <3>1 DEF ClientRests, Given, Unserved, Reached
        <3>3. Home(d) # None => mem'[Home(d)] = mem[Home(d)]
            BY <1>1, <2>3, Apart DEF Home, OpensAt, RegionsKept
        <3> QED
            BY <2>1, <3>2, <3>3, ClientKept DEF CursorsKept
    <2> QED
        BY <2>2, <2>3
<1>6. ASSUME NEW s \in Server
      PROVE  ServerOK(s)'
    <2>1. mapped'[s] = mapped[s]
        BY <1>1, Apart DEF OpensAt
    <2>2. mapped[s] # None => mem'[mapped[s]] = mem[mapped[s]]
        BY <1>1, Apart DEF RegionsKept
    <2>3. ServerRests(s)
        BY <1>2, <2>1, <2>2 DEF ServerRests
    <2> QED
        BY <2>3, ServerKept DEF OwnInv
<1> QED
    BY <1>4, <1>5, <1>6

\* The server s attaches to the region of the client it accepted.
LEMMA OwnJoins ==
    ASSUME Types, Types', Linux' <=> Linux, Unmixed' => Unmixed, OwnInv,
           NEW s \in Server, NEW c \in Client, peer[s] = c, peer' = peer, mem' = mem,
           Home(c) # None, Owns(c, Home(c)), mapped'[s] = Home(c),
           \A q \in Process : q # s => mapped'[q] = mapped[q],
           spc[s] \in Early, spc'[s] \in {"answering", "loading"},
           \A t \in Server : t # s => spc'[t] = spc[t],
           UNCHANGED <<clientVars, backlog, cursor, request, history>>
    PROVE  OwnInv'
<1> USE DEF clientVars, Early
<1> SUFFICES ASSUME Unmixed', Unmixed
             PROVE  /\ \A d \in Client : \A r \in Process : Owns(d, r)' => Talk(d, r)'
                    /\ \A d \in Client : ClientOK(d)'
                    /\ \A t \in Server : ServerOK(t)'
    BY DEF OwnInv
<1>1. \A q \in Process : mem[q] \in Region /\ mem[q].reqHead \in Nat
                           /\ mem[q].respHead \in Nat
    BY DEF Types, RegionTypes, Region
<1>2. Unserved(c)
    BY DEF Unserved, Reached
<1>3. ASSUME NEW d \in Client, NEW r \in Process, Owns(d, r)'
      PROVE  Talk(d, r)'
    <2>1. Owns(d, r)
        BY <1>3, Apart DEF Owns
    <2>2. Talk(d, r)
        BY <2>1 DEF OwnInv
    <2> QED
        BY <1>1, <2>2, TalkKept
<1>4. ASSUME NEW d \in Client
      PROVE  ClientOK(d)'
    <2>1. Unserved(d)' => Unserved(d)
        BY DEF Unserved, Reached
    <2>2. ClientRests(d)
        BY <2>1, Apart DEF ClientRests, Given
    <2> QED
        BY <2>2, ClientKept DEF CursorsKept, OwnInv
<1>5. ServerOK(s)'
    <2>1. history'[s] = <<>>
        BY DEF OwnInv, ServerOK
    <2>2. mem'[mapped'[s]].reqTail = 0
        BY <1>2 DEF OwnInv, ClientOK
    <2>3. Shown(s)'
        BY <2>1 DEF Shown
    <2> QED
        BY <2>1, <2>2, <2>3 DEF ServerOK
<1>6. ASSUME NEW t \in Server, t # s
      PROVE  ServerOK(t)'
    <2>1. ServerRests(t)
        BY <1>6, Apart DEF ServerRests
    <2> QED
        BY <2>1, ServerKept DEF OwnInv
<1> QED
    BY <1>3, <1>4, <1>5, <1>6

LEMMA OwnAttach ==
    ASSUME Types, Types', Linux' <=> Linux, Unmixed' => Unmixed, PlacesInv, OwnInv,
           NEW s \in Server, OpenRegion(s) \/ Attach(s)
    PROVE  OwnInv'
<1> USE DEF ServerGoes
<1> SUFFICES ASSUME Unmixed'
             PROVE  OwnInv'
    BY DEF OwnInv
<1>1. PICK c \in Client : c = peer[s]
    BY DEF OpenRegion, Attach, Types, ServerTypes, Mappings
<1>2. c \in Reached(s) /\ pc[c] \notin {"off", "init", "connecting"}
    BY <1>1 DEF Reached, PlacesInv, Connections
<1>3. CASE Attach(s)
    <2>1. mapped' = [mapped EXCEPT ![s] = c] /\ Linux /\ mem' = mem
        BY <1>1, <1>3 DEF Attach
    <2>2. mapped'[s] = Home(c) /\ Home(c) # None
        BY <2>1, Apart DEF Home, Types, RegionTypes
    <2>3. Owns(c, Home(c))
        BY <2>1 DEF Owns, Home
    <2> QED
        BY <1>1, <1>3, <2>1, <2>2, <2>3, OwnJoins
           DEF Attach, Early, Types, RegionTypes, ServerTypes
<1>4. CASE OpenRegion(s)
    <2>1. OpensAt(s) /\ ~Linux
        BY <1>4, OpenRegionEffect DEF OpenRegion, Types, Mappings
    <2>2. ~Ended(c)
        <3>1. mixed' = (mixed \/ Ended(peer[s]))
            BY <1>4 DEF OpenRegion
        <3> QED
            BY <1>1, <2>1, <3>1 DEF Unmixed
    <2>3. mapped[c] # None
        BY <1>2, <2>2, Apart DEF Ended, Types, Mappings, Unmapped
    <2>4. mem' = mem /\ mapped'[s] = mapped[c]
        BY <2>1, <2>3, Apart DEF OpensAt
    <2>5. mapped'[s] = Home(c) /\ Home(c) # None
        BY <2>1, <2>3, <2>4 DEF Home
    <2>6. Owns(c, Home(c))
        BY <1>2, <2>1 DEF Owns, Home
    <2>7. /\ \A q \in Process : q # s => mapped'[q] = mapped[q]
          /\ spc[s] = "opening" /\ spc'[s] = "loading"
          /\ \A t \in Server : t # s => spc'[t] = spc[t]
          /\ peer' = peer
          /\ UNCHANGED <<clientVars, backlog, cursor, request, history>>
        BY <1>4, <2>1 DEF OpensAt, OpenRegion, Types, ServerTypes
    <2> QED
        BY <1>1, <2>4, <2>5, <2>6, <2>7, OwnJoins DEF Early
<1> QED
    BY <1>3, <1>4

LEMMA OwnInit ==
    ASSUME Types, Types', Linux' <=> Linux, Unmixed' => Unmixed, PlacesInv, PlacesInv',
           OwnersInv, OwnInv, NEW c \in Client, InitControl(c)
    PROVE  OwnInv'
<1> USE DEF serverVars
<1> SUFFICES ASSUME Unmixed', Unmixed
             PROVE  /\ \A d \in Client : \A q \in Process : Owns(d, q)' => Talk(d, q)'
                    /\ \A d \in Client : ClientOK(d)'
                    /\ \A s \in Server : ServerOK(s)'
    BY DEF OwnInv
<1>1. PICK r \in Process : r = mapped[c]
    BY InitEffect
<1>2. PICK f \in 1 .. 5 : f = field[c]
    BY DEF Types, ClientTypes
<1>0. /\ field' = [field EXCEPT ![c] = IF f < 5 THEN f + 1 ELSE f]
      /\ pc' = [pc EXCEPT ![c] = IF f = 5 THEN "connecting" ELSE pc[c]]
    BY <1>2, InitEffect
<1>3. /\ history' = history /\ request' = request /\ turn' = turn /\ mapped' = mapped
      /\ spc' = spc /\ peer' = peer /\ cursor' = cursor /\ backlog' = backlog
      /\ outcome' = outcome
      /\ pc[c] = "init" /\ pc'[c] = IF f = 5 THEN "connecting" ELSE "init"
      /\ field'[c] = IF f < 5 THEN f + 1 ELSE f
      /\ \A d \in Client : d # c => pc'[d] = pc[d] /\ field'[d] = field[d]
    BY <1>0 DEF InitControl, Types, ClientTypes
<1>4. /\ \A q \in Process : q # r => mem'[q] = mem[q]
      /\ mem'[r].req = mem[r].req /\ mem'[r].resp = mem[r].resp
      /\ mem'[r].reqHead = IF f = 1 THEN 0 ELSE mem[r].reqHead
      /\ mem'[r].reqTail = IF f = 2 THEN 0 ELSE mem[r].reqTail
      /\ mem'[r].respHead = IF f = 3 THEN 0 ELSE mem[r].respHead
    BY <1>1, <1>2, InitEffect
<1>5. /\ \A q \in Process : mem[q] \in Region /\ mem'[q] \in Region
      /\ \A q \in Process : /\ mem[q].reqHead \in Nat /\ mem[q].respHead \in Nat
                            /\ mem[q].reqTail \in Nat
      /\ \A q \in Process : mapped[q] # None => mapped[q] \in Process
    BY DEF Types, RegionTypes, Region
<1>6. r # None /\ Home(c) = r
    BY <1>1, Apart DEF Home, Types, Mappings
<1>7. \A s \in Server : mapped[s] # r
    BY <1>3, <1>6, Alone
<1>8. ClientOK(c)
    BY DEF OwnInv
<1>9. /\ f > 1 => mem'[r].reqHead = 0
      /\ f > 2 => mem'[r].reqTail = 0
      /\ f > 3 => mem'[r].respHead = 0
    BY <1>1, <1>2, <1>3, <1>4, <1>8 DEF ClientOK
<1>10. ASSUME NEW d \in Client, NEW q \in Process, Owns(d, q)'
       PROVE  Talk(d, q)'
    <2>1. CASE q # r
        <3>1. Owns(d, q)
            BY <1>1, <1>3, <1>10, <2>1 DEF Owns
        <3>2. Talk(d, q)
            BY <3>1 DEF OwnInv
        <3> QED
            BY <1>4, <1>5, <2>1, <3>2, TalkKept
    <2>2. CASE q = r /\ f = 5
        <3>1. mem'[r].reqHead = 0 /\ mem'[r].respHead = 0
            BY <1>9, <2>2
        <3> QED
            BY <2>2, <3>1 DEF Talk
    <2>3. CASE q = r /\ f # 5
        <3>1. Owns(d, r)
            BY <1>3, <1>10, <2>3 DEF Owns
        <3>2. Talk(d, r)
            BY <3>1 DEF OwnInv
        <3>3. mem'[r].reqHead <= mem[r].reqHead /\ mem'[r].respHead <= mem[r].respHead
            BY <1>4, <1>5
        <3> QED
            BY <1>4, <1>5, <2>3, <3>2, <3>3, TalkKept
    <2> QED
        BY <2>1, <2>2, <2>3
<1>11. ClientOK(c)'
    <2>1. Given(c)'
        BY <1>3, <1>8 DEF ClientOK, Given
    <2>2. Home(c)' = r
        BY <1>3, <1>6 DEF Home
    <2>3. CASE f = 5
        <3>1. turn[c] = 0
            BY <1>3 DEF Types, TurnsCounted, Shaking
        <3> QED
            BY <1>1, <1>3, <1>9, <2>1, <2>2, <2>3, <3>1 DEF ClientOK
    <2>4. CASE f # 5
        <3>1. pc'[c] = "init"
            BY <1>3, <2>4
        <3>2. ~Unserved(c)'
            BY <3>1 DEF Unserved, PlacesInv, Connections
        <3>3. field'[c] = f + 1
            BY <1>2, <1>3, <2>4
        <3>4. /\ field'[c] > 1 => mem'[r].reqHead = 0
              /\ field'[c] > 2 => mem'[r].reqTail = 0
              /\ field'[c] > 3 => mem'[r].respHead = 0
            BY <1>2, <1>4, <1>9, <3>3
        <3> QED
            BY <1>1, <1>3, <2>1, <3>1, <3>2, <3>4 DEF ClientOK
    <2> QED
        BY <2>3, <2>4
<1>12. ASSUME NEW d \in Client, d # c
       PROVE  ClientOK(d)'
    <2>1. mapped[d] = None
        BY <1>1, <1>6, <1>12 DEF PlacesInv, OneAtATime
    <2>2. Linux => r = c
        BY <1>6 DEF Home
    <2>3. Home(d) # None => Home(d) \in Process /\ Home(d) # r
        BY <1>12, <2>1, <2>2, Apart DEF Home
    <2>4. ClientRests(d)
        BY <1>3, <1>12 DEF ClientRests, Given, Unserved, Reached
    <2> QED
        BY <1>4, <2>3, <2>4, ClientKept DEF CursorsKept, OwnInv
<1>13. ASSUME NEW s \in Server
       PROVE  ServerOK(s)'
    <2>1. mapped[s] # None => mem'[mapped[s]] = mem[mapped[s]]
        BY <1>4, <1>5, <1>7, Apart
    <2>2. ServerRests(s)
        BY <1>3, <2>1 DEF ServerRests
    <2> QED
        BY <2>2, ServerKept DEF OwnInv
<1> QED
    BY <1>10, <1>11, <1>12, <1>13

LEMMA OwnWriteRequest ==
    ASSUME Types, Types', Linux' <=> Linux, Unmixed' => Unmixed, PlacesInv, GenuineInv,
           OwnInv, NEW c \in Client, WriteRequest(c)
    PROVE  OwnInv'
<1> USE DEF serverVars
<1> SUFFICES ASSUME Unmixed', Unmixed
             PROVE  /\ \A d \in Client : \A q \in Process : Owns(d, q)' => Talk(d, q)'
                    /\ \A d \in Client : ClientOK(d)'
                    /\ \A s \in Server : ServerOK(s)'
    BY DEF OwnInv
<1>1. PICK r \in Process : r = mapped[c]
    BY WriteRequestEffect
<1>2. PICK x \in Descriptor : x = NextText(c)
    BY WriteRequestEffect
<1>3. /\ history' = history /\ request' = request /\ turn' = turn /\ mapped' = mapped
      /\ field' = field /\ spc' = spc /\ peer' = peer /\ cursor' = cursor
      /\ backlog' = backlog /\ outcome' = outcome
      /\ pc[c] = "idle" /\ pc'[c] = "sending"
      /\ \A d \in Client : d # c => pc'[d] = pc[d]
    BY DEF WriteRequest, ClientGoes, Types, ClientTypes
<1>4. /\ \A q \in Process : mem[q] \in Region /\ mem'[q] \in Region
      /\ \A q \in Process : mem[q].reqHead \in Nat /\ mem[q].respHead \in Nat
      /\ \A q \in Process : mapped[q] # None => mapped[q] \in Process
      /\ mem[r].req \in Slots
    BY DEF Types, RegionTypes, Region
<1>5. /\ \A q \in Process : q # r => mem'[q] = mem[q]
      /\ mem'[r].req = Written(mem[r].req, mem[r].reqHead, x)
      /\ mem'[r].resp = mem[r].resp
      /\ CursorsKept(r)
    BY <1>1, <1>2, WriteRequestEffect DEF CursorsKept
<1>6. ASSUME NEW i \in 0 .. mem[r].reqHead - 1
      PROVE  mem'[r].req[i] = mem[r].req[i]
    <2>1. i \in DOMAIN mem[r].req /\ i # mem[r].reqHead
        BY <1>4 DEF GenuineInv, Sound
    <2>2. Written(mem[r].req, mem[r].reqHead, x)[i] = mem[r].req[i]
        <3>1. PICK k \in Nat : k = mem[r].reqHead
            BY <1>4
        <3>2. \A j \in DOMAIN mem[r].req :
                 j # k => Written(mem[r].req, k, x)[j] = mem[r].req[j]
            BY <1>4, WrittenSlots
        <3> QED
            BY <2>1, <3>1, <3>2
    <2> QED
        BY <1>5, <2>2
<1>7. ASSUME NEW d \in Client, NEW q \in Process, Owns(d, q)'
      PROVE  Talk(d, q)'
    <2>1. Owns(d, q)
        BY <1>3, <1>7 DEF Owns
    <2>2. Talk(d, q)
        BY <2>1 DEF OwnInv
    <2>3. CASE q # r
        BY <1>4, <1>5, <2>2, <2>3, TalkKept
    <2>4. CASE q = r
        <3>1. \A i \in 0 .. mem'[r].reqHead - 1 : mem'[r].req[i] = TextAt(d, i)
            BY <1>5, <1>6, <2>2, <2>4 DEF Talk, CursorsKept
        <3>2. \A i \in 0 .. mem'[r].respHead - 1 : mem'[r].resp[i][1] = d
            BY <1>5, <2>2, <2>4 DEF Talk, CursorsKept
        <3> QED
            BY <2>4, <3>1, <3>2 DEF Talk, TextAt
    <2> QED
        BY <2>3, <2>4
<1>8. ASSUME NEW d \in Client
      PROVE  ClientOK(d)'
    <2>1. ClientRests(d)
        BY <1>3 DEF ClientRests, Given, Unserved, Reached
    <2>2. Home(d) # None => Home(d) \in Process
        BY <1>4, Apart DEF Home
    <2>3. Home(d) # None => CursorsKept(Home(d))
        BY <1>5, <2>2 DEF CursorsKept
    <2> QED
        BY <2>1, <2>3, ClientKept DEF CursorsKept, OwnInv
<1>9. ASSUME NEW s \in Server
      PROVE  ServerOK(s)'
    <2>1. mapped[s] # None =>
             /\ mem'[mapped[s]].reqTail = mem[mapped[s]].reqTail
             /\ mem'[mapped[s]].respHead = mem[mapped[s]].respHead
             /\ mem'[mapped[s]].resp = mem[mapped[s]].resp
        BY <1>4, <1>5, Apart DEF CursorsKept
    <2>2. ServerRests(s)
        BY <1>3, <2>1 DEF ServerRests
    <2> QED
        BY <2>2, ServerKept DEF OwnInv
<1> QED
    BY <1>7, <1>8, <1>9

LEMMA OwnPublishRequest ==
    ASSUME Types, Types', Linux' <=> Linux, Unmixed' => Unmixed, PlacesInv, OwnersInv,
           GenuineInv, OwnInv, NEW c \in Client, PublishRequest(c)
    PROVE  OwnInv'
<1> USE DEF serverVars
<1> SUFFICES ASSUME Unmixed', Unmixed
             PROVE  /\ \A d \in Client : \A q \in Process : Owns(d, q)' => Talk(d, q)'
                    /\ \A d \in Client : ClientOK(d)'
                    /\ \A s \in Server : ServerOK(s)'
    BY DEF OwnInv
<1>1. PICK r \in Process : r = mapped[c]
    BY PublishRequestEffect
<1>2. PICK k \in Nat : k = turn[c]
    BY DEF Types, ClientTypes
<1>3. /\ history' = history /\ request' = request /\ mapped' = mapped
      /\ field' = field /\ spc' = spc /\ peer' = peer /\ cursor' = cursor
      /\ backlog' = backlog /\ outcome' = outcome
      /\ pc[c] = "sending" /\ pc'[c] \in {"receiving", "closing"}
      /\ turn'[c] = k + 1
      /\ \A d \in Client : d # c => pc'[d] = pc[d] /\ turn'[d] = turn[d]
    BY <1>2 DEF PublishRequest, Types, ClientTypes
<1>4. /\ \A q \in Process : mem[q] \in Region /\ mem'[q] \in Region
      /\ \A q \in Process : mem[q].reqHead \in Nat /\ mem[q].respHead \in Nat
      /\ \A q \in Process : mapped[q] # None => mapped[q] \in Process
    BY DEF Types, RegionTypes, Region
<1>5. /\ \A q \in Process : q # r => mem'[q] = mem[q]
      /\ mem'[r].req = mem[r].req /\ mem'[r].resp = mem[r].resp
      /\ mem'[r].reqHead = mem[r].reqHead + 1 /\ mem'[r].reqTail = mem[r].reqTail
      /\ mem'[r].respHead = mem[r].respHead
    BY <1>1, PublishRequestEffect
<1>6. ClientOK(c) /\ r # None
    BY Apart DEF OwnInv
<1>7. mem[r].reqHead = k
    BY <1>1, <1>2, <1>3, <1>6 DEF ClientOK
<1>8. mem[r].req[k] = TextAt(c, k)
    BY <1>1, <1>2, <1>3, <1>7 DEF GenuineInv, SendingOK, NextText, TextAt
<1>9. Owns(c, r)
    BY <1>1, <1>3, Apart DEF Owns, Types, Mappings
<1>10. ASSUME NEW d \in Client, NEW q \in Process, Owns(d, q)'
       PROVE  Talk(d, q)'
    <2>1. Owns(d, q)
        BY <1>3, <1>10 DEF Owns
    <2>2. Talk(d, q)
        BY <2>1 DEF OwnInv
    <2>3. CASE q # r
        BY <1>4, <1>5, <2>2, <2>3, TalkKept
    <2>4. CASE q = r
        <3>1. d = c
            BY <1>9, <2>1, <2>4, OwnsOnce
        <3>2. \A i \in 0 .. mem'[r].reqHead - 1 : mem'[r].req[i] = TextAt(c, i)
            BY <1>5, <1>7, <1>8, <2>2, <2>4, <3>1 DEF Talk
        <3>3. \A i \in 0 .. mem'[r].respHead - 1 : mem'[r].resp[i][1] = c
            BY <1>5, <2>2, <2>4, <3>1 DEF Talk
        <3> QED
            BY <2>4, <3>1, <3>2, <3>3 DEF Talk, TextAt
    <2> QED
        BY <2>3, <2>4
<1>11. ClientOK(c)'
    <2>1. Unserved(c)' => Unserved(c)
        BY <1>3 DEF Unserved, Reached
    <2>2. Home(c)' = r /\ Home(c) = r
        BY <1>1, <1>3, <1>6 DEF Home, Types, Mappings
    <2>3. Given(c)'
        BY <1>3, <1>6 DEF ClientOK, Given
    <2>4. mem'[mapped'[c]].reqHead = turn'[c]
        BY <1>1, <1>3, <1>5, <1>7
    <2>5. Unserved(c)' => mem'[r].reqTail = 0
        BY <1>5, <1>6, <2>1, <2>2 DEF ClientOK
    <2> QED
        BY <1>3, <2>2, <2>3, <2>4, <2>5 DEF ClientOK
<1>12. ASSUME NEW d \in Client, d # c
       PROVE  ClientOK(d)'
    <2>1. mapped[d] = None
        BY <1>1, <1>6, <1>12 DEF PlacesInv, OneAtATime
    <2>2. Linux => r = c
        BY <1>1, <1>6 DEF Types, Mappings
    <2>3. Home(d) # None => Home(d) \in Process /\ Home(d) # r
        BY <1>12, <2>1, <2>2, Apart DEF Home
    <2>4. ClientRests(d)
        BY <1>3, <1>12 DEF ClientRests, Given, Unserved, Reached
    <2> QED
        BY <1>5, <2>3, <2>4, ClientKept DEF CursorsKept, OwnInv
<1>13. ASSUME NEW s \in Server
       PROVE  ServerOK(s)'
    <2>1. mapped[s] # None =>
             /\ mem'[mapped[s]].reqTail = mem[mapped[s]].reqTail
             /\ mem'[mapped[s]].respHead = mem[mapped[s]].respHead
             /\ mem'[mapped[s]].resp = mem[mapped[s]].resp
        BY <1>4, <1>5, Apart
    <2>2. ServerRests(s)
        BY <1>3, <2>1 DEF ServerRests
    <2> QED
        BY <2>2, ServerKept DEF OwnInv
<1> QED
    BY <1>10, <1>11, <1>12, <1>13

LEMMA OwnTake ==
    ASSUME Types, Types', Linux' <=> Linux, Unmixed' => Unmixed, PlacesInv, OwnersInv,
           GenuineInv, OwnInv, NEW s \in Server, TakeRequest(s)
    PROVE  OwnInv'
<1> USE DEF clientVars
<1> SUFFICES ASSUME Unmixed', Unmixed
             PROVE  /\ \A d \in Client : \A q \in Process : Owns(d, q)' => Talk(d, q)'
                    /\ \A d \in Client : ClientOK(d)'
                    /\ \A t \in Server : ServerOK(t)'
    BY DEF OwnInv
<1>1. PICK r \in Process : r = mapped[s]
    BY TakeEffect
<1>2. PICK k \in Nat : k = cursor[s]
    BY DEF Types, ServerTypes
<1>3. PICK x \in Descriptor : x = At(mem[r].req, k)
    BY <1>1, <1>2, TakeEffect
<1>4. PICK c \in Client : c = peer[s]
    BY DEF TakeRequest, Types, ServerTypes, Mappings, Serving
<1>5. /\ pc' = pc /\ field' = field /\ turn' = turn /\ outcome' = outcome
      /\ peer' = peer /\ cursor' = cursor /\ backlog' = backlog
      /\ spc[s] = "polling"
    BY DEF TakeRequest
<1>6. /\ \A q \in Process : q # r => mem'[q] = mem[q]
      /\ mem'[r].req = mem[r].req /\ mem'[r].resp = mem[r].resp
      /\ mem'[r].reqHead = mem[r].reqHead /\ mem'[r].reqTail = k + 1
      /\ mem'[r].respHead = mem[r].respHead
      /\ mem[r].reqHead > k
    BY <1>1, <1>2, TakeEffect
<1>7. IF x = Shutdown
      THEN /\ mapped' = [mapped EXCEPT ![s] = None]
           /\ spc' = [spc EXCEPT ![s] = "stopped"]
           /\ request' = request /\ history' = history
      ELSE /\ mapped' = mapped
           /\ spc' = [spc EXCEPT ![s] = "generating"]
           /\ request' = [request EXCEPT ![s] = x]
           /\ history' = [history EXCEPT ![s] = Append(@, x)]
    BY <1>1, <1>2, <1>3, TakeEffect
<1>8. /\ \A q \in Process : mem[q] \in Region /\ mem'[q] \in Region
      /\ \A q \in Process : mem[q].reqHead \in Nat /\ mem[q].respHead \in Nat
      /\ \A q \in Process : mapped[q] # None => mapped[q] \in Process
      /\ r # None
    BY Apart DEF Types, RegionTypes, Region
<1>9. /\ \A q \in Process : q # s => mapped'[q] = mapped[q]
      /\ mapped'[s] \in {mapped[s], None}
      /\ \A t \in Server : t # s => /\ spc'[t] = spc[t] /\ request'[t] = request[t]
                                    /\ history'[t] = history[t]
      /\ spc'[s] \in {"stopped", "generating"}
    BY <1>7 DEF Types, RegionTypes, ServerTypes
<1>10. ASSUME NEW d \in Client, NEW q \in Process, Owns(d, q)'
       PROVE  Talk(d, q)'
    <2>1. Owns(d, q)
        BY <1>5, <1>9, <1>10, Apart DEF Owns
    <2>2. Talk(d, q)
        BY <2>1 DEF OwnInv
    <2>3. CASE q # r
        BY <1>6, <1>8, <2>2, <2>3, TalkKept
    <2>4. CASE q = r
        BY <1>6, <1>8, <2>2, <2>4, TalkKept
    <2> QED
        BY <2>3, <2>4
<1>11. ASSUME NEW d \in Client
       PROVE  ClientOK(d)'
    <2>1. Unserved(d)' => Unserved(d)
        BY <1>5, <1>9 DEF Unserved, Reached, Early
    <2>2. ClientRests(d)
        BY <1>5, <1>9, <2>1, Apart DEF ClientRests, Given
    <2>3. Home(d) # None => Home(d) \in Process
        BY <1>8, Apart DEF Home
    <2>4. pc[d] = "init" \/ Unserved(d) => Home(d) # r
        BY <1>1, <1>8, Alone
    <2>5. Home(d) # None => mem'[Home(d)].reqHead = mem[Home(d)].reqHead
        BY <1>6, <2>3
    <2>6. Home(d) # None /\ (pc[d] = "init" \/ Unserved(d)) => CursorsKept(Home(d))
        BY <1>6, <2>3, <2>4 DEF CursorsKept
    <2> QED
        BY <2>2, <2>5, <2>6, ClientKept DEF OwnInv
<1>12. ServerOK(s)
    BY DEF OwnInv
<1>13. k = Len(history[s]) /\ history[s] \in Seq(Descriptor)
    BY <1>1, <1>2, <1>5, <1>8, <1>12 DEF ServerOK, Types, ServerTypes
<1>14. Owns(c, r)
    BY <1>1, <1>4 DEF Owns
<1>15. x = TextAt(c, k)
    <2>1. k \in 0 .. mem[r].reqHead - 1
        BY <1>6, <1>8
    <2>2. k \in DOMAIN mem[r].req
        BY <2>1 DEF GenuineInv, Sound
    <2>3. mem[r].req[k] = TextAt(c, k)
        BY <1>14, <2>1 DEF OwnInv, Talk
    <2> QED
        BY <1>3, <2>2, <2>3 DEF At
<1>16. ServerOK(s)'
    <2>1. CASE x = Shutdown
        <3>1. history'[s] = history[s] /\ mapped'[s] = None /\ spc'[s] = "stopped"
            BY <1>7, <2>1, Apart DEF Types, RegionTypes, ServerTypes
        <3>2. Shown(s)'
            BY <1>5, <1>12, <3>1 DEF ServerOK, Shown
        <3> QED
            BY <3>1, <3>2 DEF ServerOK, Early
    <2>2. CASE x # Shutdown
        <3>1. x = Prompt(c, k + 1)
            BY <1>15, <2>2 DEF TextAt
        <3>2. /\ history'[s] = Append(history[s], x) /\ request'[s] = x
              /\ spc'[s] = "generating" /\ mapped'[s] = r
            BY <1>1, <1>7, <2>2 DEF Types, ServerTypes
        <3>3. Len(history'[s]) = k + 1
            BY <1>13, <3>2
        <3>4. Shown(s)'
            BY <1>4, <1>5, <1>12, <1>13, <3>1, <3>2, <3>3 DEF ServerOK, Shown
        <3>5. x[1] = c
            BY <3>1 DEF Prompt
        <3> QED
            BY <1>4, <1>5, <1>6, <3>2, <3>3, <3>4, <3>5 DEF ServerOK, Early
    <2> QED
        BY <2>1, <2>2
<1>17. ASSUME NEW t \in Server, t # s
       PROVE  ServerOK(t)'
    <2>1. mapped[t] # None => mapped[t] # r
        BY <1>1, <1>8, <1>17 DEF OwnersInv
    <2>2. mapped[t] # None => mem'[mapped[t]] = mem[mapped[t]]
        BY <1>6, <1>8, <2>1, Apart
    <2>3. ServerRests(t)
        BY <1>5, <1>9, <1>17, <2>2, Apart DEF ServerRests
    <2> QED
        BY <2>3, ServerKept DEF OwnInv
<1> QED
    BY <1>10, <1>11, <1>16, <1>17

LEMMA OwnWriteResponse ==
    ASSUME Types, Types', Linux' <=> Linux, Unmixed' => Unmixed, PlacesInv, OwnersInv,
           GenuineInv, OwnInv, NEW s \in Server, WriteResponse(s)
    PROVE  OwnInv'
<1> USE DEF clientVars
<1> SUFFICES ASSUME Unmixed', Unmixed
             PROVE  /\ \A d \in Client : \A q \in Process : Owns(d, q)' => Talk(d, q)'
                    /\ \A d \in Client : ClientOK(d)'
                    /\ \A t \in Server : ServerOK(t)'
    BY DEF OwnInv
<1>1. PICK r \in Process : r = mapped[s]
    BY WriteResponseEffect
<1>2. PICK x \in Descriptor : x = request[s]
    BY DEF WriteResponse, Types, Mappings
<1>3. /\ \A q \in Process : mem[q] \in Region /\ mem'[q] \in Region
      /\ \A q \in Process : mem[q].reqHead \in Nat /\ mem[q].respHead \in Nat
      /\ \A q \in Process : mapped[q] # None => mapped[q] \in Process
      /\ mem[r].resp \in Slots
      /\ r # None
    BY Apart DEF Types, RegionTypes, Region
<1>4. PICK k \in Nat : k = mem[r].respHead
    BY <1>3
<1>5. /\ pc' = pc /\ field' = field /\ turn' = turn /\ outcome' = outcome
      /\ peer' = peer /\ backlog' = backlog /\ mapped' = mapped
      /\ request' = request /\ history' = history
      /\ spc[s] = "generating" /\ spc'[s] = "replying"
      /\ \A t \in Server : t # s => spc'[t] = spc[t]
    BY DEF WriteResponse, Types, ServerTypes
<1>6. /\ \A q \in Process : q # r => mem'[q] = mem[q]
      /\ mem'[r].req = mem[r].req /\ mem'[r].resp = Written(mem[r].resp, k, x)
      /\ CursorsKept(r)
      /\ cursor' = [cursor EXCEPT ![s] = k]
    BY <1>1, <1>2, <1>4, WriteResponseEffect DEF CursorsKept
<1>7. /\ Written(mem[r].resp, k, x)[k] = x
      /\ \A j \in DOMAIN mem[r].resp :
            j # k => Written(mem[r].resp, k, x)[j] = mem[r].resp[j]
    BY <1>3, WrittenSlots
<1>8. cursor'[s] = k /\ \A t \in Server : t # s => cursor'[t] = cursor[t]
    BY <1>6 DEF Types, ServerTypes
<1>9. ASSUME NEW i \in 0 .. mem[r].respHead - 1
      PROVE  mem'[r].resp[i] = mem[r].resp[i]
    <2>1. i \in DOMAIN mem[r].resp /\ i # k
        BY <1>3, <1>4 DEF GenuineInv, Sound
    <2> QED
        BY <1>6, <1>7, <2>1
<1>10. ASSUME NEW d \in Client, NEW q \in Process, Owns(d, q)'
       PROVE  Talk(d, q)'
    <2>1. Owns(d, q)
        BY <1>5, <1>10 DEF Owns
    <2>2. Talk(d, q)
        BY <2>1 DEF OwnInv
    <2>3. CASE q # r
        BY <1>3, <1>6, <2>2, <2>3, TalkKept
    <2>4. CASE q = r
        <3>1. \A i \in 0 .. mem'[r].reqHead - 1 : mem'[r].req[i] = TextAt(d, i)
            BY <1>6, <2>2, <2>4 DEF Talk, CursorsKept
        <3>2. \A i \in 0 .. mem'[r].respHead - 1 : mem'[r].resp[i][1] = d
            BY <1>6, <1>9, <2>2, <2>4 DEF Talk, CursorsKept
        <3> QED
            BY <2>4, <3>1, <3>2 DEF Talk, TextAt
    <2> QED
        BY <2>3, <2>4
<1>11. ASSUME NEW d \in Client
       PROVE  ClientOK(d)'
    <2>1. Unserved(d)' => Unserved(d)
        BY <1>5 DEF Unserved, Reached, Early
    <2>2. ClientRests(d)
        BY <1>5, <2>1 DEF ClientRests, Given
    <2>3. Home(d) # None => Home(d) \in Process
        BY <1>3, Apart DEF Home
    <2>4. Home(d) # None => CursorsKept(Home(d))
        BY <1>6, <2>3 DEF CursorsKept
    <2> QED
        BY <2>2, <2>4, ClientKept DEF CursorsKept, OwnInv
<1>12. ServerOK(s)'
    <2>1. ServerOK(s)
        BY DEF OwnInv
    <2>2. Shown(s)'
        BY <1>5, <2>1 DEF ServerOK, Shown
    <2>3. mem'[r].reqTail = Len(history'[s])
        BY <1>1, <1>3, <1>5, <1>6, <2>1 DEF ServerOK, CursorsKept
    <2>4. request'[s][1] = peer'[s]
        BY <1>1, <1>3, <1>5, <2>1 DEF ServerOK
    <2>5. mem'[r].respHead = k /\ mem'[r].resp[k] = request'[s]
        BY <1>2, <1>4, <1>5, <1>6, <1>7 DEF CursorsKept
    <2>6. mapped'[s] = r
        BY <1>1, <1>5
    <2> QED
        BY <1>5, <1>8, <2>2, <2>3, <2>4, <2>5, <2>6 DEF ServerOK, Early
<1>13. ASSUME NEW t \in Server, t # s
       PROVE  ServerOK(t)'
    <2>1. mapped[t] # None => mapped[t] # r
        BY <1>1, <1>3, <1>13 DEF OwnersInv
    <2>2. mapped[t] # None => mem'[mapped[t]] = mem[mapped[t]]
        BY <1>3, <1>6, <2>1, Apart
    <2>3. ServerRests(t)
        BY <1>5, <1>8, <1>13, <2>2 DEF ServerRests
    <2> QED
        BY <2>3, ServerKept DEF OwnInv
<1> QED
    BY <1>10, <1>11, <1>12, <1>13

LEMMA OwnPublishResponse ==
    ASSUME Types, Types', Linux' <=> Linux, Unmixed' => Unmixed, PlacesInv, OwnersInv,
           OwnInv, NEW s \in Server, PublishResponse(s)
    PROVE  OwnInv'
<1> USE DEF clientVars
<1> SUFFICES ASSUME Unmixed', Unmixed
             PROVE  /\ \A d \in Client : \A q \in Process : Owns(d, q)' => Talk(d, q)'
                    /\ \A d \in Client : ClientOK(d)'
                    /\ \A t \in Server : ServerOK(t)'
    BY DEF OwnInv
<1>1. PICK r \in Process : r = mapped[s]
    BY PublishResponseEffect
<1>2. PICK k \in Nat : k = cursor[s]
    BY DEF Types, ServerTypes
<1>3. /\ \A q \in Process : mem[q] \in Region /\ mem'[q] \in Region
      /\ \A q \in Process : mem[q].reqHead \in Nat /\ mem[q].respHead \in Nat
      /\ \A q \in Process : mapped[q] # None => mapped[q] \in Process
      /\ r # None
    BY Apart DEF Types, RegionTypes, Region
<1>4. PICK c \in Client : c = peer[s]
    BY DEF PublishResponse, Types, ServerTypes, Mappings, Serving
<1>5. /\ pc' = pc /\ field' = field /\ turn' = turn /\ outcome' = outcome
      /\ peer' = peer /\ backlog' = backlog /\ mapped' = mapped
      /\ request' = request /\ history' = history /\ cursor' = cursor
      /\ spc[s] = "replying" /\ spc'[s] = "receiving"
      /\ \A t \in Server : t # s => spc'[t] = spc[t]
    BY DEF PublishResponse, ServerGoes, Types, ServerTypes
<1>6. /\ \A q \in Process : q # r => mem'[q] = mem[q]
      /\ mem'[r].req = mem[r].req /\ mem'[r].resp = mem[r].resp
      /\ mem'[r].reqHead = mem[r].reqHead /\ mem'[r].reqTail = mem[r].reqTail
      /\ mem'[r].respHead = k + 1
    BY <1>1, <1>2, PublishResponseEffect
<1>7. ServerOK(s)
    BY DEF OwnInv
<1>8. mem[r].respHead = k /\ mem[r].resp[k][1] = c
    BY <1>1, <1>2, <1>3, <1>4, <1>5, <1>7 DEF ServerOK
<1>9. Owns(c, r)
    BY <1>1, <1>4 DEF Owns
<1>10. ASSUME NEW d \in Client, NEW q \in Process, Owns(d, q)'
       PROVE  Talk(d, q)'
    <2>1. Owns(d, q)
        BY <1>5, <1>10 DEF Owns
    <2>2. Talk(d, q)
        BY <2>1 DEF OwnInv
    <2>3. CASE q # r
        BY <1>3, <1>6, <2>2, <2>3, TalkKept
    <2>4. CASE q = r
        <3>1. d = c
            BY <1>9, <2>1, <2>4, OwnsOnce
        <3>2. \A i \in 0 .. mem'[r].reqHead - 1 : mem'[r].req[i] = TextAt(c, i)
            BY <1>6, <2>2, <2>4, <3>1 DEF Talk
        <3>3. \A i \in 0 .. mem'[r].respHead - 1 : mem'[r].resp[i][1] = c
            BY <1>6, <1>8, <2>2, <2>4, <3>1 DEF Talk
        <3> QED
            BY <2>4, <3>1, <3>2, <3>3 DEF Talk, TextAt
    <2> QED
        BY <2>3, <2>4
<1>11. ASSUME NEW d \in Client
       PROVE  ClientOK(d)'
    <2>1. Unserved(d)' => Unserved(d)
        BY <1>5 DEF Unserved, Reached, Early
    <2>2. ClientRests(d)
        BY <1>5, <2>1 DEF ClientRests, Given
    <2>3. Home(d) # None => Home(d) \in Process
        BY <1>3, Apart DEF Home
    <2>4. pc[d] = "init" \/ Unserved(d) => Home(d) # r
        BY <1>1, <1>3, Alone
    <2>5. Home(d) # None => mem'[Home(d)].reqHead = mem[Home(d)].reqHead
        BY <1>6, <2>3
    <2>6. Home(d) # None /\ (pc[d] = "init" \/ Unserved(d)) => CursorsKept(Home(d))
        BY <1>6, <2>3, <2>4 DEF CursorsKept
    <2> QED
        BY <2>2, <2>5, <2>6, ClientKept DEF OwnInv
<1>12. ServerOK(s)'
    <2>1. Shown(s)'
        BY <1>5, <1>7 DEF ServerOK, Shown
    <2>2. mem'[mapped'[s]].reqTail = Len(history'[s])
        BY <1>1, <1>3, <1>5, <1>6, <1>7 DEF ServerOK
    <2> QED
        BY <1>5, <2>1, <2>2 DEF ServerOK, Early
<1>13. ASSUME NEW t \in Server, t # s
       PROVE  ServerOK(t)'
    <2>1. mapped[t] # None => mapped[t] # r
        BY <1>1, <1>3, <1>13 DEF OwnersInv
    <2>2. mapped[t] # None => mem'[mapped[t]] = mem[mapped[t]]
        BY <1>3, <1>6, <2>1, Apart
    <2>3. ServerRests(t)
        BY <1>5, <1>13, <2>2 DEF ServerRests
    <2> QED
        BY <2>3, ServerKept DEF OwnInv
<1> QED
    BY <1>10, <1>11, <1>12, <1>13

LEMMA OwnStep ==
    ASSUME Types, Types', PlacesInv, PlacesInv', OwnersInv, GenuineInv, OwnInv,
           [Next]_vars
    PROVE  OwnInv'
<1>1. (Linux' <=> Linux) /\ (Unmixed' => Unmixed)
    BY PlatformKept, UnmixedKept
<1>2. ASSUME NEW c \in Client, ClientMoves(c)
      PROVE  OwnInv'
    BY <1>1, <1>2, OwnClientQuiet, OwnOpen, OwnInit, OwnWriteRequest, OwnPublishRequest
       DEF ClientMoves
<1>3. ASSUME NEW s \in Server, ServerMoves(s)
      PROVE  OwnInv'
    BY <1>1, <1>3, OwnServerQuiet, OwnAttach, OwnTake, OwnWriteResponse,
       OwnPublishResponse
       DEF ServerMoves
<1>4. CASE UNCHANGED vars
    <2>1. \A c \in Client : ClientRests(c)
        BY <1>4 DEF vars, regionVars, clientVars, serverVars, ClientRests, Given,
                    Unserved, Reached
    <2>2. \A s \in Server : ServerRests(s)
        BY <1>4 DEF vars, regionVars, clientVars, serverVars, ServerRests
    <2>3. mem' = mem
        BY <1>4 DEF vars, regionVars
    <2> QED
        BY <1>1, <2>1, <2>2, <2>3, OwnFrame DEF CursorsKept
<1> QED
    BY <1>2, <1>3, <1>4, Moves

LEMMA OwnAtFirst ==
    ASSUME Init
    PROVE  OwnersInv /\ OwnInv
<1>1. OwnersInv
    BY Apart DEF Init, OwnersInv
<1>2. ASSUME NEW c \in Client, NEW r \in Process
      PROVE  Talk(c, r)
    BY DEF Init, Talk, Zeroed
<1>3. ASSUME NEW c \in Client
      PROVE  ClientOK(c)
    <2>1. Home(c) # None => Home(c) = c
        BY <1>3, Apart DEF Init, Home
    <2>2. mapped[c] = None /\ pc[c] = "off" /\ field[c] = 1 /\ outcome[c] = <<>>
        BY <1>3, Apart DEF Init
    <2>3. mem[c].reqTail = 0
        BY Apart DEF Init, Zeroed
    <2> QED
        BY <2>1, <2>2, <2>3 DEF ClientOK, Given
<1>4. ASSUME NEW s \in Server
      PROVE  ServerOK(s)
    BY <1>4, Apart DEF Init, ServerOK, Shown
<1> QED
    BY <1>1, <1>2, <1>3, <1>4 DEF OwnInv

\* On Linux, and on Windows as long as no server is attached for another client than
\* the user of the region, a server's model is shown the prompts of the client it
\* accepted, in order and once, and no client is given another's reply: whatever
\* crashed before, however many clients and servers the machine has seen.
THEOREM ConversationsOwn == Spec => []OwnConversation
<1>1. Init => OwnersInv /\ OwnInv
    BY OwnAtFirst
<1>2. Types /\ Types' /\ PlacesInv /\ PlacesInv' /\ OwnersInv /\ [Next]_vars
         => OwnersInv'
    BY OwnersStep
<1>3. Types /\ Types' /\ PlacesInv /\ PlacesInv' /\ OwnersInv /\ GenuineInv /\ OwnInv
         /\ [Next]_vars => OwnInv'
    BY OwnStep
<1>4. OwnInv => OwnConversation
    BY DEF OwnInv, Unmixed, ServerOK, ClientOK, Shown, Given, OwnConversation
<1> QED
    BY <1>1, <1>2, <1>3, <1>4, AlwaysTypes, AlwaysPlaced, AlwaysGenuine, PTL DEF Spec
=============================================================================
