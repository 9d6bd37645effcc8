----------------------------- MODULE ShmSession -----------------------------
(***************************************************************************)
(* A chat over the shared region: MemLLMClient.send (memllm_benchmark.py)  *)
(* turn by turn, the serve loop of memllm_server.py or                     *)
(* memllm_linux_server.py, the two rings of ShmRing or LinuxRing, and the  *)
(* data pool whose bump allocator both processes use.                      *)
(*                                                                         *)
(* The handshake is over: the region is initialised and server_ready set.  *)
(* Offsets are relative to DATA_POOL_START and counted in cells, which     *)
(* stand for bytes.  client_done and last_response_ns are left out:        *)
(* nothing reads them.                                                     *)
(*                                                                         *)
(* A behaviour runs one of Settings.  In a timely one the 120 s of         *)
(* dequeue_response and the 300 s of dequeue_request are longer than what  *)
(* they wait for: they expire only when the other process has ended.       *)
(***************************************************************************)
EXTENDS LinuxRing, FiniteSets, Functions

CONSTANTS
    PoolSize,      \* cells of the data pool
    Size,          \* Size[text]: cells of a payload
    Turns,         \* bound on the prompts a client sends
    Settings       \* the platform, the timing and the model of a session

VARIABLES
    setting,       \* the one this behaviour runs
    dataOffset,    \* data_offset of the control block
    pool,          \* the data pool: each cell holds a byte of some payload
    lastRequest,   \* last_request_ns: the request whose timestamp it is
    writing,       \* writing[p]: the _write_data of p in progress
    text,          \* text[p]: what p's dequeue in progress read from the pool
    pc,            \* where the client is
    turn,          \* turns begun
    outcome,       \* what send returned, turn by turn
    spc,           \* where the server is
    seq,           \* the seq_no of the request being served
    history        \* the server's conversation history

Linux        == setting.linux     \* memllm_linux_shm.py, or memllm_region.py
Timely       == setting.timely
BackendFails == setting.fails     \* the model may raise
Prompts      == setting.turns     \* prompts the client sends

Prompt(t)    == <<"user", t>>
ReplyTo(t)   == <<"assistant", t>>
Shutdown     == <<"shutdown", 0>>
GarbledReply == <<"assistant", 0>>
Texts ==
    {Prompt(t) : t \in 1 .. Turns} \cup {ReplyTo(t) : t \in 0 .. Turns}
        \cup {Shutdown}

Process == {"client", "server"}

\* A descriptor: seq_no, data_offset and data_length, within the pool.
Descriptor ==
    {d \in [seq : 0 .. Turns, off : 0 .. PoolSize - 1, len : 1 .. PoolSize] :
        d.off + d.len <= PoolSize}

ASSUME ShmSessionAssumption ==
    /\ Turns \in Nat \ {0}
    /\ Settings \subseteq [linux : BOOLEAN, timely : BOOLEAN, fails : BOOLEAN,
                           turns : 1 .. Turns]
    /\ PoolSize \in Nat \ {0}
    /\ Size \in [Texts -> 1 .. PoolSize]
    /\ None \notin [text : Texts, off : 0 .. PoolSize - 1, filled : BOOLEAN]
    /\ Ring = {"req", "resp"}
    /\ Item = Descriptor

poolVars   == <<dataOffset, pool, writing>>
clientVars == <<pc, turn, outcome, lastRequest>>
serverVars == <<spc, seq, history>>
vars       == <<setting, linuxVars, poolVars, text, clientVars, serverVars>>

-----------------------------------------------------------------------------
(* The data pool *)

\* The bytes of a payload, each told apart from every other.
Bytes(t) == [i \in 1 .. Size[t] |-> <<t, i>>]

ReadData(d) == [i \in 1 .. d.len |-> pool[d.off + i - 1]]

\* Mutant: the test for the end of the pool is one cell off.
OffsetPastEnd(t) == IF dataOffset + Size[t] > PoolSize + 1 THEN 0 ELSE dataOffset

\* The allocator starts over when the payload does not fit in what is left.
OffsetFor(t) == IF dataOffset + Size[t] > PoolSize THEN 0 ELSE dataOffset

\* _write_data reads data_offset ...
Reserve(p, t) ==
    /\ writing[p] = None
    /\ writing' = [writing EXCEPT ![p] =
                      [text |-> t, off |-> OffsetFor(t), filled |-> FALSE]]
    /\ UNCHANGED <<dataOffset, pool>>

\* ... copies the payload ...
Fill(p) ==
    /\ writing[p] # None
    /\ ~writing[p].filled
    /\ LET w == writing[p]
       IN  pool' = [k \in DOMAIN pool |->
                       IF k \in w.off .. w.off + Size[w.text] - 1
                       THEN <<w.text, k - w.off + 1>> ELSE pool[k]]
    /\ writing' = [writing EXCEPT ![p].filled = TRUE]
    /\ UNCHANGED dataOffset

\* Mutant: the descriptor is made before the payload is copied.
HastyAdvance(p) ==
    /\ writing[p] # None
    /\ dataOffset' = writing[p].off + Size[writing[p].text]
    /\ writing' = [writing EXCEPT ![p] = None]
    /\ UNCHANGED pool

\* ... and writes data_offset back.
Advance(p) ==
    /\ writing[p] # None
    /\ writing[p].filled
    /\ dataOffset' = writing[p].off + Size[writing[p].text]
    /\ writing' = [writing EXCEPT ![p] = None]
    /\ UNCHANGED pool

DescriptorFor(p, s) ==
    [seq |-> s, off |-> writing[p].off, len |-> Size[writing[p].text]]

-----------------------------------------------------------------------------
(* The ring's steps, on the platform of the session *)

\* seq_no of a request is ring_head, which only this process advances.
StartEnqueue(p, r, s) ==
    /\ Advance(p)
    /\ EnqueueCall(r, DescriptorFor(p, s))
    /\ UNCHANGED evt

Put(r) ==
    \/ ~Linux /\ WriteDescriptor(r) /\ UNCHANGED evt
    \/ Linux /\ WriteDescriptorLinux(r)
    \/ PublishLinux(r)

EndEnqueue(r) ==
    IF Linux THEN Notify(r) ELSE EnqueueReturn(r) /\ UNCHANGED evt

StartDequeue(r) ==
    IF Linux THEN Select(r) ELSE DequeueCall(r) /\ UNCHANGED evt

\* None returned, by a timeout.
Expire(r) ==
    IF Linux THEN SelectTimeout(r) ELSE DequeueTimeout(r) /\ UNCHANGED evt

\* A step of dequeue on the eventfd or the tail.
Move(r) ==
    \/ Linux /\ Wake(r)
    \/ ReleaseLinux(r)

\* The descriptor, and the payload it points to.
Take(p, r) ==
    /\ TakeLinux(r)
    /\ text' = [text EXCEPT ![p] = ReadData(got'[r])]

-----------------------------------------------------------------------------
(* The client *)

StartTurn ==
    /\ pc = "idle"
    /\ turn < Prompts
    /\ Reserve("client", Prompt(turn + 1))
    /\ turn' = turn + 1
    /\ pc' = "sending"
    /\ UNCHANGED <<linuxVars, text, outcome, lastRequest, serverVars>>

StartShutdown ==
    /\ pc = "idle"
    /\ turn = Prompts
    /\ Reserve("client", Shutdown)
    /\ pc' = "closing"
    /\ UNCHANGED <<linuxVars, text, turn, outcome, lastRequest, serverVars>>

\* Mutant: seq_no counts from one.
EnqueueRequestFromOne ==
    /\ StartEnqueue("client", "req", head["req"] + 1)
    /\ UNCHANGED <<text, clientVars, serverVars>>

EnqueueRequest ==
    /\ StartEnqueue("client", "req", head["req"])
    /\ UNCHANGED <<text, clientVars, serverVars>>

\* Mutant: last_request_ns is not written.
RequestSentUnstamped ==
    /\ EndEnqueue("req")
    /\ pc' = IF pc = "closing" THEN "done" ELSE "receiving"
    /\ UNCHANGED <<poolVars, text, turn, outcome, lastRequest, serverVars>>

\* last_request_ns is written after the head, and enqueue_request returns.
RequestSent ==
    /\ EndEnqueue("req")
    /\ lastRequest' = item["req"].seq
    /\ pc' = IF pc = "closing" THEN "done" ELSE "receiving"
    /\ UNCHANGED <<poolVars, text, turn, outcome, serverVars>>

\* send returns the text whatever request it answers, and the latency since
\* last_request_ns.
Returned(reply, since) ==
    outcome' = Append(outcome, [reply |-> reply, since |-> since])

\* The empty string, which send returns in place of None.
Nothing == <<>>

AwaitResponse ==
    /\ pc = "receiving"
    /\ StartDequeue("resp")
    /\ UNCHANGED <<poolVars, text, clientVars, serverVars>>

\* Linux only: None if the ring is empty after the wake-up.
CheckResponse ==
    /\ Linux
    /\ CheckCursors("resp")
    /\ pc' = IF Empty("resp") THEN "idle" ELSE pc
    /\ IF Empty("resp") THEN Returned(Nothing, None) ELSE UNCHANGED outcome
    /\ UNCHANGED <<poolVars, text, turn, lastRequest, serverVars>>

ReadResponse ==
    /\ Take("client", "resp")
    /\ UNCHANGED <<poolVars, clientVars, serverVars>>

ResponseReturned ==
    /\ ReturnLinux("resp")
    /\ Returned(text["client"], lastRequest)
    /\ pc' = "idle"
    /\ UNCHANGED <<poolVars, text, turn, lastRequest, serverVars>>

ServerEnded == spc \in {"stopped", "dead"}

\* None after 120 s.
ResponseTimeout ==
    /\ Timely => ServerEnded /\ head["resp"] = tail["resp"]
    /\ Expire("resp")
    /\ Returned(Nothing, None)
    /\ pc' = "idle"
    /\ UNCHANGED <<poolVars, text, turn, lastRequest, serverVars>>

-----------------------------------------------------------------------------
(* The server *)

AwaitRequest ==
    /\ spc = "receiving"
    /\ StartDequeue("req")
    /\ UNCHANGED <<poolVars, text, clientVars, serverVars>>

\* Linux only: None if the ring is empty after the wake-up, as after a timeout.
CheckRequest ==
    /\ Linux
    /\ CheckCursors("req")
    /\ spc' = IF Empty("req") THEN "stopped" ELSE spc
    /\ UNCHANGED <<poolVars, text, clientVars, seq, history>>

ReadRequest ==
    /\ Take("server", "req")
    /\ UNCHANGED <<poolVars, clientVars, serverVars>>

\* The loop body: __SHUTDOWN__ ends it; any other text goes to the model,
\* which adds it to the history first.  seq_no is read after the release.
RequestReturned ==
    /\ ReturnLinux("req")
    /\ seq' = LateDescriptor("req").seq
    /\ IF text["server"] = Bytes(Shutdown)
       THEN spc' = "stopped" /\ UNCHANGED history
       ELSE /\ spc' = "generating"
            /\ history' = Append(history, text["server"])
    /\ UNCHANGED <<poolVars, text, clientVars>>

ReplyText(body) ==
    IF \E t \in 1 .. Turns : body = Bytes(Prompt(t))
    THEN ReplyTo(CHOOSE t \in 1 .. Turns : body = Bytes(Prompt(t)))
    ELSE GarbledReply

\* Mutant: the answer is not added to the history.
GenerateForgets ==
    /\ spc = "generating"
    /\ Reserve("server", ReplyText(text["server"]))
    /\ spc' = "replying"
    /\ UNCHANGED <<linuxVars, text, clientVars, seq, history>>

\* The model answers, adds its answer to the history, and enqueue_response
\* begins.
Generate ==
    /\ spc = "generating"
    /\ LET reply == ReplyText(text["server"])
       IN  /\ history' = Append(history, Bytes(reply))
           /\ Reserve("server", reply)
    /\ spc' = "replying"
    /\ UNCHANGED <<linuxVars, text, clientVars, seq>>

\* An exception of the model ends the process.
GenerateRaises ==
    /\ BackendFails
    /\ spc = "generating"
    /\ spc' = "dead"
    /\ UNCHANGED <<linuxVars, poolVars, text, clientVars, seq, history>>

EnqueueResponse ==
    /\ StartEnqueue("server", "resp", seq)
    /\ UNCHANGED <<text, clientVars, serverVars>>

ResponseSent ==
    /\ EndEnqueue("resp")
    /\ spc' = "receiving"
    /\ UNCHANGED <<poolVars, text, clientVars, seq, history>>

\* None after 300 s: the loop ends.
IdleTimeout ==
    /\ Timely => pc = "done" /\ head["req"] = tail["req"]
    /\ Expire("req")
    /\ spc' = "stopped"
    /\ UNCHANGED <<poolVars, text, clientVars, seq, history>>

-----------------------------------------------------------------------------
FillOne(p) ==
    /\ Fill(p)
    /\ UNCHANGED <<setting, linuxVars, text, clientVars, serverVars>>

RingStep(r) ==
    /\ Put(r) \/ Move(r)
    /\ UNCHANGED <<setting, poolVars, text, clientVars, serverVars>>

ClientStep ==
    /\ \/ StartTurn \/ StartShutdown
       \/ EnqueueRequest \/ RequestSent
       \/ AwaitResponse \/ CheckResponse \/ ReadResponse
       \/ ResponseReturned \/ ResponseTimeout
    /\ UNCHANGED setting

ServerStep ==
    /\ \/ AwaitRequest \/ CheckRequest \/ ReadRequest
       \/ RequestReturned \/ IdleTimeout
       \/ Generate \/ GenerateRaises
       \/ EnqueueResponse \/ ResponseSent
    /\ UNCHANGED setting

\* The wait for room in enqueue, which has no timeout.
WaitsForRoom(r) == ~Linux /\ ppc[r] = "waiting" /\ RingFull(r)

BothEnded == pc = "done" /\ ServerEnded

\* Both processes have ended, or one has and the other waits for it to make
\* room in a full ring.
Over ==
    \/ BothEnded
    \/ WaitsForRoom("req") /\ ServerEnded
    \/ pc = "done" /\ WaitsForRoom("resp")

Finished == Over /\ UNCHANGED vars

SessionInit ==
    /\ setting \in Settings
    /\ LinuxInit
    /\ dataOffset = 0
    /\ pool = [k \in 0 .. PoolSize - 1 |-> None]
    /\ lastRequest = None
    /\ writing = [p \in Process |-> None]
    /\ text = [p \in Process |-> Nothing]
    /\ pc = "idle"
    /\ turn = 0
    /\ outcome = <<>>
    /\ spc = "receiving"
    /\ seq = None
    /\ history = <<>>

SessionNext ==
    \/ ClientStep
    \/ ServerStep
    \/ \E p \in Process : FillOne(p)
    \/ \E r \in Ring : RingStep(r)
    \/ Finished

SessionSpec == SessionInit /\ [][SessionNext]_vars

\* Both processes run on, the model returns or raises, and the polling loops
\* and select see what is there and the clock.
FairSessionSpec ==
    /\ SessionSpec
    /\ WF_vars(ClientStep)
    /\ WF_vars(ServerStep)
    /\ \A p \in Process : WF_vars(FillOne(p))
    /\ \A r \in Ring : WF_vars(RingStep(r))

-----------------------------------------------------------------------------
(* Properties *)

\* The type invariant of the session.
SessionTypeOK ==
    /\ RingTypeOK
    /\ evt \in [Ring -> Nat]
    /\ setting \in Settings
    /\ dataOffset \in 0 .. PoolSize
    /\ DOMAIN pool = 0 .. PoolSize - 1
    /\ \A p \in Process :
          writing[p] # None =>
              writing[p].off \in 0 .. PoolSize - Size[writing[p].text]
    /\ pc \in {"idle", "sending", "closing", "receiving", "done"}
    /\ turn \in 0 .. Turns
    /\ spc \in {"receiving", "generating", "replying", "stopped", "dead"}
    /\ seq \in 0 .. Turns \cup {None}

\* In a timely session each turn ends with the reply to its own prompt, byte
\* for byte, and with a latency measured from its own request; or with
\* nothing, the server gone.
ReplyMatchesRequest ==
    Timely =>
        \A t \in 1 .. Len(outcome) :
            outcome[t] \in {[reply |-> Bytes(ReplyTo(t)), since |-> t - 1],
                            [reply |-> Nothing, since |-> None]}

\* In a timely session a payload stays whole in the pool from the publication
\* of its descriptor to the release of its slot, whichever process allocates
\* meanwhile; until an exception of the model ends the server, after which
\* nobody takes the requests and the allocator comes round to them.
PayloadsIntact ==
    Timely /\ spc # "dead" =>
        \A r \in Ring : \A i \in 1 .. head[r] - tail[r] :
            \E t \in Texts : ReadData(Unread[r][i]) = Bytes(t)

\* Requests never come round the ring while one is being served: there is one
\* at a time, or there are no more of them than slots.
Paced == Timely \/ Prompts <= Capacity

\* The response to a request bears its seq_no, although seq_no is read from a
\* slot that was already given back.
SeqEchoed ==
    Paced =>
        \A i \in 1 .. Len(delivered["resp"]) : delivered["resp"][i].seq = i - 1

\* On Linux no wake-up of a session is lost or wasted.
SessionWakeups == Linux => WakeupsMatch

PromptBytes(t) == Bytes(Prompt(t))
ReplyBytes(t)  == Bytes(ReplyTo(t))

Conversation ==
    INSTANCE Chat WITH
        PromptOf <- PromptBytes,
        ReplyOf  <- ReplyBytes,
        outcome  <- [t \in 1 .. Len(outcome) |-> outcome[t].reply]

\* A timely session is a chat: the model is shown prompts and adds replies in
\* turn order, none twice, and the client is given each reply in its turn.
ImplementsChat ==
    /\ Conversation!Init
    /\ [][Timely /\ ~BackendFails => Conversation!Next]_(Conversation!chatVars)

\* What a session may leave unread fits into its rings: there is one request at
\* a time, or a slot for each prompt and for the shutdown.
RoomForAll == (Timely /\ ~BackendFails) \/ Prompts < Capacity

\* The client gets through its turns and its shutdown, and the server ends,
\* whatever times out or raises.  Only where there are more requests than
\* slots may one of them wait for ever for room in a ring its peer has left.
SessionEnds == <>(IF RoomForAll THEN BothEnded ELSE Over)
=============================================================================
