# A verification project for memLLM-net

memLLM-net carries the turns of a chat between a client and a language model
over three kinds of transport: a region of memory shared by two processes, a
reliable message protocol over UDP written in Python, and HTTP as the baseline.
This directory holds TLA+ modules that model the two transports the repository
implements itself, the chat services built on them, their set-up, crashes and
restarts, and what the benchmark leaves behind, the TLC configurations
that check the modules on small instances, and proofs, checked by TLAPS, of what
holds for every instance. `PROJECT.json` lists components, runs, the source
lines behind every definition, the hazards and the theorems.

Paths below are relative to the repository; `U`, `B`, `S`, `R`, `L` stand for
`src/memllm_udp_rpc.py`, `src/memllm_benchmark.py`, `src/memllm_mock_server.py`,
`src/memllm_region.py` and `src/memllm_linux_shm.py`.

## Inventory

| component | state | operations | who calls it |
|---|---|---|---|
| `ErpcEndpoint` (`U`) | socket, `_out`, `_in`, `_ready`, duplicate cache `_completed` / `_completed_order`, `retransmits` | `send_message`, `recv_message`, `poll_once` | UDP client and server |
| `UdpRpcClient` (`B:136-170`, `src/memllm_wifi_client.py`) | one endpoint, `itertools.count(1)` for `msg_id`s | `send`, `shutdown` | the benchmark's turn loop |
| `serve_udp` (`S:43-71`) | one endpoint, the backend's history | its loop | a thread of its own |
| backends (`src/mock_llm.py`, `src/vllm_backend.py`, `run_inference` in `src/memllm_server.py`) | `history` | `generate` | the servers |
| rings, Windows (`R:183-253`) | `ring_head`, `ring_tail`, slots, twice | `enqueue_*`, `dequeue_*` | one producer and one consumer each |
| rings, Linux (`L:111-169`) | the same, and an eventfd per ring | the same | the same |
| data pool (`R:170-181`) | `data_offset`, 64 MB of bytes | `_write_data`, `_read_data` | **both** processes |
| shared-memory clients and servers (`B:66-127`, `src/memllm_server.py`, `src/memllm_linux_server.py`) | the region, the model's history | `send`, `shutdown`, `serve` | the benchmark |
| handshakes (`R:125-158`, `R:286-343`, `L:185-231`) | TCP or Unix socket, the named region, the control block, `server_ready` | set-up | once per session |
| HTTP baseline (`S:74-100`, `B:178-197`) | a history shared by handler threads under a lock | `do_POST` | the benchmark |
| API clients (`B:200-417`) | a history each | `send`, `_send_with_retry` | the benchmark |
| results (`B:420-447`, `B:469-475`, `B:690-705`) | `results/benchmark_raw.csv`, from run to run | `run_turns`, the merge in `main`, `save` | the user, run after run |

Components interact by messages (UDP datagrams, HTTP), by shared memory without
a lock (rings and pool, two processes), and by direct calls (client to endpoint,
server to backend). There are no callbacks.

What is hard:

* **UDP.** Datagrams are lost, repeated by retransmission, delayed and reordered.
  An endpoint polls only inside `send_message` and `recv_message`, so while the
  server is in `generate()` nothing is acknowledged. Deadlines of both sides race
  late answers. Every client numbers its messages from 1 and the server has one
  duplicate cache for all of them, bounded, which forgets.
* **Shared memory.** Both rings are lock-free; the Linux edition has no test for
  a full ring; `seq_no` is read from a slot already given back; both processes
  run the pool's allocator, a read-modify-write without a lock, which starts over
  at the end of the pool whatever is unread there.
* **Failure.** A timeout ends a turn and not the session, so what a turn left
  behind meets the next one. An exception of the backend ends the server.
* **Crash and restart.** On Windows the region is found by its name and lives as
  long as any process maps it. A client that dies leaves a server in its loop for
  300 s, and the next client, which clears the control block, and the next server
  share rings and cursors with it. A handshake can break between any two of its
  messages. A benchmark killed while it saves leaves a file cut off in a row.

What makes the components correct, and where that is stated:

| component | property | definition |
|---|---|---|
| endpoint | nothing is returned twice while the cache remembers it | `AtMostOnce` |
| endpoint | what is returned was sent, whole and unmixed | `MessageIntegrity` |
| endpoint | a `send_message` that returned has delivered | `AckedMeansDelivered` |
| endpoint | `recv_message` raises no `KeyError` | `NoKeyError` |
| endpoint | the two halves of the cache agree and respect the cap | `CacheConsistent` |
| endpoint | the rounds of a send are spent before its hard deadline, and outlast a long silence | `RoundsBeforeDeadline`, `OutlastsSilence` |
| UDP chat | the backend is shown no prompt twice | `ServedOnce` |
| UDP chat, session | when nothing is late, it is the abstract chat | `ImplementsChat` (`UdpRpc`, `ShmSession`) |
| UDP chat | a client waits only for what the server has | `WaitingMeansDelivered` |
| UDP chat | a reply is genuine, used once, and that of its own prompt | `RepliesGenuine`, `ReplyMatchesRequest` |
| UDP chat | every turn is answered; every client and the server go on | `EveryTurnAnswered`, `ClientsFinish`, `ServerGoesOn`, `ClientsSurvive` |
| ring | it is a bounded FIFO queue | `IsFifo`, `CursorsInBounds` |
| Linux ring | one wake-up per descriptor | `WakeupsMatch`, `SessionWakeups` |
| session | a payload is whole until it is read | `PayloadsIntact` |
| session | reply, latency and `seq_no` are those of the request | `ReplyMatchesRequest`, `SeqEchoed` |
| session | both processes end | `SessionEnds` |
| life of a session | who goes on from the handshake has a server | `HandshakeMeansServer` |
| life of a session | a server serves the client it accepted | `OwnConversation` |
| life of a session | a descriptor that is read was written for a reply, whatever crashed | `DescriptorsGenuine` |
| life of a session | nobody is left waiting | `EveryoneEnds` |
| HTTP | the shared history stays a conversation; every handler ends | `PairsAdjacent`, `OutOfOrderMeansFailed`, `HandlersEnd` |
| API clients | a request shows the conversation so far (of Claude's client a comment, `B:239-240`, says otherwise: see *Runs*) | `ConversationShown`, `RolesAlternate` |
| results | a run replaces its own rows and no other | `OneRunPerLabel`, `OthersKept` |

## Modules

```
                                 Chat (abstract)             BoundedFifo (abstract)
                  ImplementsChat ▲    ▲ ImplementsChat             ▲ IsFifo
                                 │    │                            │
ErpcEndpoint ───────── UdpRpc ───┘    │               ShmRing ─────┘
  │    └─ MCErpcEndpoint │            │                  │
  │                      ├─ MCUdpRpc  │              LinuxRing
  │                      │            │                  │
  │                      │            └───────────── ShmSession
  │                      │                               ├─ MCShmSession
  └─ ErpcEndpointProofs ─┴─ UdpRpcProofs                 └─ ShmSessionProofs ── ShmChatProofs

Backoff (the clock of a send) ── BackoffProofs
HttpChat ── HttpChatProofs              ApiHistory ── BenchRuns ── BenchRunsProofs
ShmLifecycle ── ShmLifecycleProofs
  └─ MCShmLifecycle
```

**ErpcEndpoint** is `class ErpcEndpoint`. A message is a record; a fragment is
one datagram of it, and an assembled payload is the set of its parts
(`Whole(text)`), so that a mixture of two messages is told apart from either.
`sending[e]` is the call of `send_message` in progress, `out[e][id]` the `_OutMsg`,
`inb[e][id]` the `_InMsg`. `Send` is the call up to the first transmission of all
fragments, `Retransmit` one round of the loop, `GiveUp` the round that finds
`max_retries` spent (it *sends once more* before it raises, as the code does),
`SendDeadline` the hard deadline, `SendReturns` the exit. `Poll` is `poll_once`,
one disjunct per branch: an ACK, a duplicate, a fragment that leaves the message
incomplete, a fragment that completes it (storing, acknowledging with the all-ones
bitmap, remembering the id and evicting the oldest). `Recv` and `RecvKeyError` are
the two ways `recv_message` gets past `_ready`. `sent`, `acked`, `popped`, `evicted`
and `lost` record what happened; no action reads them, except the bound on `lost`.

**UdpRpc** puts clients and a server on these endpoints. `pc[c]` says which call
of a client is in progress, `spc` where the server's loop is; every action of
the endpoint is taken inside a call that runs it (`Polling` is the condition
under which the loops poll). `msg_id`s come from `turn`, which every client starts
at 0. `GenerateReturns` is the end of `generate()` together with the first
transmission of the reply. `ImplementsChat` is the specification of **Chat** for each
client, under the mapping that keeps `turn`, the history and the outcomes.

**Chat** is what a transport owes when nothing it waits for times out: ask, show
the prompt to the model, add its reply, give that reply, and only then ask again.

**Backoff** is the clock of one `send_message` that gets no answer, in integers: `Round`
is a pass that sends, `NextRto` the growth, the cap and the jitter in the order of
the code, `DeadlinePasses` a pass that finds the deadline behind it. It is what
`UdpRpc` rests on when it lets only the rounds end a timely send. The code is in `U` and,
line for line again, in `src/memllm_wifi_client.py`.

**ShmRing** is the Windows ring. One step is at most one access to a shared word
or slot: `EnqueueCall`, `WriteDescriptor` (the wait for room and the slot),
`Publish` (the head), `EnqueueReturn`; `DequeueCall` (caches the tail),
`ReadDescriptor`, `Release` (the tail), `DequeueReturn`, which reads `seq_no` and
`timestamp_ns` after the release as the code does (`LateDescriptor`).
**LinuxRing** replaces the wait for room by nothing, adds the eventfd (`Notify`,
`Select`, `Wake`) and re-reads the cursors after the wake-up.
**BoundedFifo** is what both promise. `IsFifo` in ShmRing is its specification under
the refinement mapping "the queue is the slots from tail to head".

**ShmSession** is a session over two such rings and the pool, on either platform
and with timeouts that are long enough or not; `setting` fixes which. `_write_data` is three
steps, `Reserve` (reads `data_offset`), `Fill` (copies), `Advance` (writes
`data_offset` back), interleaved with the other process. A payload's bytes are
pairs of the text and a position, so an overwritten byte is seen.

**ShmLifecycle** is what surrounds such a session, with several clients and servers. `mapped[p]` is
the region a process maps and `mem[r]` what is in it; `OpenName` is Windows' "open, or create
if nobody has it", and `Open` on Linux creates a memfd. `InitControl` clears the control block one
store at a time, and leaves the slots. `Connect`, `Greet`, `Acknowledged`, `SeeReady` are
`client_handshake`, `Listen`, `Accept`, `Answer`, `OpenRegion` (Windows: OK goes out *before* the region
is opened) or `Attach`, `AnswerLinux` are `server_handshake`, and `ConnectFails`, `ConnectionReset`, `ReadyTimeout`,
`HelloMissing`, `AnswerFails` the ways they break. `hello` counts what the client has sent, so a server may find
the header and no descriptors. The turns are coarser than in ShmSession, except
where a crash can cut them in two: a descriptor is written, then published.
`CrashClient` and `CrashServer` kill a process at any point; a restart is another process.
`welcome` and `mixed` record what happened and no step reads them.

**HttpChat** is the HTTP baseline: clients whose calls may time out, one handler
thread per request (`handler[r]`), and `Enter`, `Leave` and `Raise`, the three moments at
which a handler touches the shared history and the lock. **ApiHistory** runs one of
the API clients through `_send_with_retry`: `Post` appends the prompt and sends what
`Messages` makes of the history, and each attempt is answered, rate-limited
(`RateLimited` does all that the code does after a 429, the pops included) or fails.
**BenchRuns** puts whole runs of the benchmark around it: `StartRun` is a new process, `Drive` its
turns, `Merge` reads the file of earlier runs back and drops the rows of its own label,
`Save` writes the file anew; `Killed` and `SaveKilled` end the process before or while it writes,
and `MergeRaises` is the conversion error a row cut off in its numbers leads to.

The eight modules **ErpcEndpointProofs**, **UdpRpcProofs**, **BackoffProofs**, **ShmSessionProofs** (of ShmRing,
LinuxRing and ShmSession), **ShmChatProofs**, **ShmLifecycleProofs**, **HttpChatProofs** and **BenchRunsProofs** (of
ApiHistory and BenchRuns) hold the theorems; see *Proofs*.

Definitions whose comment begins with *Mutant* are not part of any
specification: each is a definition of the model with a plausible slip in it,
and `PROJECT.json` pairs it with the property that catches it.

## Runs

Run with `tlc -workers 2 -config <name>.cfg <module>`.

| run | module | shows | distinct states |
|---|---|---|---|
| `endpoint_cap` | MCErpcEndpoint | the transport under unlimited delay, reordering and repetition, with a duplicate cache of one id, so that ids are forgotten: guarantees hold up to the eviction and are stated so | 180,948 |
| `udp_chaos` | MCUdpRpc | one session, every timeout at any moment, the backend may raise: safety, and under fairness the client finishes and a failed reply does not stop the server | 84,232 |
| `udp_timely` | MCUdpRpc | timeouts longer than what they wait for, two losses, three rounds: the service implements Chat, and every prompt is answered | 6,487 |
| `udp_sessions` | MCUdpRpc | two clients with colliding ids: the server may die of it, the clients do not | 1,236,331 |
| `shm_session` | MCShmSession | sessions on either platform, timely ones of up to four turns whose model may or may not raise, and ones in which any timeout may expire at any moment: FIFO rings, wake-ups, `seq_no`s, whole payloads, Chat when timely. Both processes end, whoever ends first, where there is a slot for each request; only in the one setting with more requests than slots may one of them wait for room for ever | 108,003 |
| `shm_restart` | MCShmLifecycle | two clients and two servers on either platform, any of which may be killed at any point, with any timeout at any moment | 330,846 |
| `backoff` | Backoff | the real `rto` and `max_retries`, in microseconds, with the extremes of the jitter and timers of 14 and 15.6 ms | 226,378 |
| `http_chat` | HttpChat | two clients, any timeout at any moment, the backend may raise under the lock: the shared history stays a conversation and every handler ends | 10,113 |
| `api_history` | BenchRuns | two runs of Ollama, Claude or Groq, killed at any point or not: every request shows exactly the conversation so far, Claude's too, against the comment at `B:239-240` (below), and a run replaces its own results only | 224,663 |

Three runs find a violation, of something the repository says of itself:

| run | the repository says | the code does |
|---|---|---|
| `udp_selective_repeat` | a lost fragment "costs one retransmission" (`U:19-21`, `U:42-44`) | `poll_once` acknowledges complete messages only (`U:181`), so every fragment is sent again |
| `udp_slow_backend` | widening the timeout past the worst case of the backend resolved the desynchronisation (`src/section9_full.md:117`) | one lost ACK, and the retransmission budget of some 3 s ends inside `generate()`; the turn fails, and since `send` does not compare `msg_id`s (`B:159`) the next turn gets its reply |
| `api_gemini` | after a 429 the failed prompt is removed from the history (`B:410`) | a second pop (`B:415-416`) removes the reply of the turn before from Gemini's |

What the passing runs leave open, because the code does: with two clients the
server takes request 1 of the second for a duplicate of the first one's,
acknowledges it and never serves it (`U:166`; `WaitingMeansDelivered` fails there, and
`src/section9_full.md`, 9.2.3, describes it); the Linux `enqueue_*` has no test for a full
ring (`L:114`), so that `IsFifo` holds only while fewer descriptors than slots are
unread, which one request at a time and 1024 slots guarantee; and once a
shared-memory client has timed out, both processes may allocate the same bytes
of the pool, and replies answer later turns, so that `PayloadsIntact` and
`ReplyMatchesRequest` are stated for timely sessions, and the overlap itself (`R:171`) is among the hazards no property covers, like
`R:156`: there is nothing the code keeps. `PayloadsIntact` ends, besides, with the server: after an
exception of the backend the client goes on writing prompts which nobody takes, and when there are more of them
than the pool has room for the allocator comes round to those still unread. `seq_no` is read from a
slot already given back, so that `SeqEchoed` needs one request at a time, or no more of them
than slots (`Paced`); the repository's 1024 slots and 10 prompts are within that.

Further, and for the same reason:

* On Windows, after a client was killed, its server stays in its loop; a new client that opens the
  name and a new server then have it as a third party, the "SPSC ring" (`R:13`) has two
  consumers, and a prompt may go to the old server's model, with the old history. `OwnConversation` leaves such
  sessions out (`mixed`); `DescriptorsGenuine` and `EveryoneEnds` hold there too.
* On Linux a second server cannot bind while the first listens, and a region belongs to one client: no
  mixture is possible, and `OwnConversation` says so without a condition.
* With timers that are 15.6 ms late, Windows' default, and the worst jitter, the hard deadline can end a send before
  `max_retries` does; `RoundsBeforeDeadline` is stated up to 0.7 `rto`, and `backoff` has both cases.
  With the default constants a send gives up after 2.3 to 3.2 s, not after the
  "~420ms worst-case budget" of the comment at `U:66`, which is that of a fixed interval.
* `ClaudeAPIClient.send` opens with the comment "Keep only this turn's message — avoids sending assistant turns with
  stale content that triggers a 400" (`B:239-240`). The code below it does not: it appends the prompt to
  `self.history`, rebuilds the whole history with neighbouring messages of one role merged (`B:241-249`), sends all of it (`B:254`), the
  assistant's turns included, and appends the reply (`B:268`). `ConversationShown`
  and its theorem state what the code does, and so contradict this comment: for Claude as for the other clients a request shows every earlier turn.
  The comment after it, "Anthropic API requires alternating user/assistant roles" (`B:242`), is the one the code
  follows, and `RolesAlternate` says that it succeeds. If the first comment is the intention, the
  code is wrong from the second turn on, whose request already has the first turn in it; as the history would then be of no use, the
  comment is more likely left over from an earlier version.
* A benchmark killed within `save` loses the rows not yet written, of every label; if
  it leaves a row cut off in its numbers, every later run of another label raises at `B:698`, after its turns, until
  the file is removed. `OneRunPerLabel` and `OthersKept` say what survives.

### Bounds, and why they are enough

* **Messages.** `endpoint_cap` makes three calls: a request of two fragments, its
  response, which is empty and shares the id, and a second request. Two ids in a
  cache of one is the least that evicts. `MaxDelivered` caps how often an evicted
  id is delivered again.
* **Network.** `Persistent = TRUE` is the worst network: nothing once sent ever
  leaves, so any datagram can arrive at any later time any number of times, and
  never arriving is included. A second round of retransmission adds nothing to such a
  network, so `MaxRetries` is 1 in `udp_chaos`. `MaxLoss` bounds losses only in runs where
  datagrams arrive once; there `MaxLoss = MaxRetries - 1`, the largest number for which
  no turn need fail (the last round is sent, but nobody waits for it).
* **Turns.** Two turns are the least in which a late reply meets another prompt,
  and are what `udp_slow_backend` needs. `shm_session` runs four, so that the allocator
  starts over several times, each time elsewhere in a turn, and a ring comes round.
* **Fragments.** Two and three: the least with an incomplete message, and
  the least two prompts whose fragment counts differ.
* **HTTP.** Two clients with two turns have up to four handlers at once, two of
  them of one client. Three turns of an API client hold every pair of endings of
  neighbouring turns.
* **Runs.** Two runs of the benchmark are the least that merge; with three
  clients to choose from, of the same label or of different ones.
* **Restarts.** Two clients and two servers are the least in which a crash leaves one of
  them to the next of either kind, or two servers in one region. One prompt each, and the shutdown message,
  are two descriptors: enough for a cursor cleared between them, or for a slot left
  by the session before. Clients and servers are interchangeable, so MCShmLifecycle
  starts them in one order.
* **Time.** 20 ms and 20 retries are the code's defaults; the extremes of the jitter bound what lies between. `RoundsBeforeDeadline` is
  a statement about these defaults: with many more retries the deadline comes first. Both properties are proved for
  every number of retries up to 20, or from 16 on.
* **Rings.** `Capacity` 3 and five descriptors a ring: slots are reused. The real 1024 changes when the
  ring is full, and `RingIsFifo` holds for every capacity. Where any timeout may expire, two turns and the shutdown are as many requests as
  slots, the most with which nobody may come to wait for room (`RoomForAll`), and three turns are one more.
* **Pool.** Five cells, and payloads which do not divide them.

### Time

Clocks are abstracted. With `Timely = FALSE` any deadline may pass at any moment of
the call that tests it, which includes every speed of the machines and networks.
With `Timely = TRUE` a deadline passes only when nothing else can happen: timeouts
are longer than what they wait for. `SlowBackend` lifts this for the retransmission
budget alone, as the measured 6 to 14 s of generation do
(`src/section9_full.md`). In `ShmSession` the two timeouts are 120 s and 300 s.

### Fairness

`FairUdpSpec` has weak fairness of three things for each process. `PollOne`: each pass
of the loops polls. `TimerStep`: each pass tests the deadlines. `RunStep`: the code
between two calls runs on, and `generate()` returns or raises, being a sleep or an
HTTP request with a timeout. Neither loss nor delivery of a particular datagram
is assumed; `ClientsFinish` holds because every loop has a deadline.
`EveryTurnAnswered` needs the bound on losses and says so.
`ShmLifecycle` has it of each client and each server that was started: their loops see what has
come, and every wait has a deadline or an end of the connection; a start and a crash
are never assumed.
`FairSessionSpec` has weak fairness of each process and of the steps of its calls.
`HttpChat` has it of each client and each handler: a handler may be overtaken at the lock,
but by finitely many others.
No strong fairness is used anywhere. Deadlock is checked in all runs but
`endpoint_cap`, whose fixed set of calls ends, `backoff`, where a send ends, and `shm_restart`, where every process
may have ended; the others end in `Finished` or `AllRun`, or never.

## Proofs

Check with `tlapm <module>.tla`. All hold for every value of the constants that
satisfies the assumption named in the module (`EndpointAssumption`, `UdpRpcAssumption`,
`BackoffAssumption`, `RingAssumption`, `ShmSessionAssumption`, `LifecycleAssumption`, `HttpChatAssumption`, `ApiHistoryAssumption`), which TLC evaluates in the runs. These
are assumptions about the parameters: numbers are positive, `None` is not a value of the data, ids and texts of the
service are ids and texts of the transport. What a theorem needs further is its ASSUME, and
is said here.

* **ErpcEndpointProofs.** `TypeCorrect`, `CacheCorrect`, `DeliveredAtMostOnce`. The inductive
  invariant `TypeInv /\ DedupInv` adds to the properties that an id in the queue of
  completed messages or among those returned is in the cache or was evicted, and
  that an id queued or returned twice was evicted. The second part, `DeliveredIntact`, `AckedDelivered`,
  `NoKeyErrorBeforeEviction`, has the invariant `Genuine`: every fragment in flight comes from a message that was
  sent, every entry being reassembled holds parts of one message, an id is
  acknowledged only when its message is complete, and a pending entry that has
  gone was removed by such an acknowledgement. That a set of as many parts as the
  message has fragments is the whole message is a counting argument
  (`CompleteIsWhole`). `IdsUnique` is what the docstring of `send_message` asks of its
  callers; the two-client runs show what happens without it. Where a part of `Genuine`
  needs unique ids, it asks for those of the messages from one endpoint, or to one, only
  (`UniqueFrom`, `UniqueTo`); that makes it inductive without a condition (`TransportGenuine`), and of use where
  the ids of some endpoints collide.
* **UdpRpcProofs.** `UdpTypeCorrect`, `UdpInvariant`, `ClientsSafe`, `PromptsServedOnce`, `WaitersDelivered`,
  `RepliesReturned`. Every step of the service is a step of the transport (`TransportStep`),
  so the invariants above hold of it. Between one client and the server ids are unique (`ServiceIds`): a client draws
  them from its counter, and the server answers each id it has been given once at most. So no
  client ever sees a `KeyError` or a payload that is not a reply, whatever the ids of other clients do.
  `HistoryInv` says which request each prompt of the model's history came from, which gives `ServedOnce`
  for any number of clients; `WaitInv` follows a request from its acknowledgement to the server's queue;
  `OutcomesGenuine` ties the outcome of a turn to the history. All but `UdpTypeCorrect` ASSUME
  `Turns < CompletedCap`: a session has fewer ids than the cache remembers (4096, `U:139`), so that nothing is evicted. `WaitersDelivered`
  and `RepliesReturned` ASSUME one client (`OneClient`), without which they are false, as `udp_sessions` allows: the server takes
  an id of the second client for one of the first.
* **UdpRpcProofs**, *the service in time.* `TimingInvariant`, `RepliesInTime`, `ServiceIsChat`, which ASSUME besides that nothing is
  late (`InTime`: `Timely`, neither `SlowBackend` nor `BackendFails`, and fewer losses than rounds, `MaxLoss < MaxRetries`). The crux is that
  no send runs out of rounds. A round begins only when nothing else can happen (`Settled`); then a message
  all of whose fragments were sent has been acknowledged, unless a datagram was lost since. So each round after the
  first is charged to a loss of its own (`Charged`), and a message with one round more than there were losses is
  `Underway`: what its receiver lacks is in flight, or the acknowledgement is. With nothing given up, the
  positions of both sides in the conversation give its contents (`HistoryInTurn`, `RepliesInTurn`), and the
  refinement of Chat step by step. `udp_slow_backend` shows what becomes of `ReplyMatchesRequest` when `SlowBackend` is lifted.
* **BackoffProofs.** `RoundsInTime`, for `MaxRetries <= 20`, and `SilenceOutlasted`, for `MaxRetries >= 16`, with any `Rto` and
  any jitter of the code's 15%. The timeout and the clock after so many rounds are bounded by tables in hundredths of `Rto`
  (`Longest`, `Latest`, `Shortest`, `Earliest`), the products of 1.7 and the worst or best jitter, up to the cap. From the fifth round
  on a round takes 9.9 `Rto` at most, lateness of 0.7 included, so that 20 of them are over before the deadline of
  176, and 21 need not be. Below 16 the early, short rounds weigh too much. `Rto >= 100` in the second is about
  rounding down: in microseconds the code's is 20000.
* **ShmSessionProofs**, *the rings of Windows by themselves.* `RingTypeCorrect`, `CursorsCorrect`, `RingIsFifo`. The invariant `RingInv` says that a
  producer past its wait owns its slot, that the consumer's cached tail is the
  tail, and that what it has read is still in the slot; the refinement maps
  `Publish` to `Put`, `Release` to `Take`, and all else to stuttering. That two unread
  positions have different slots is `ModDistinct`.
* **ShmSessionProofs**, *the session.* `SessionTypeCorrect`, `WakeupsCounted`, for both platforms and whatever times out. That no
  payload reaches past the end of the pool needs every descriptor in every slot to lie in it (`RingsOK`); that
  a call finds its ring idle needs the program counters of the processes to agree with those of
  the rings (`Control`); and `seq_no`, which is read from a slot that may hold a later request, is a number of the session
  because the cursors count the turns (`RequestsCounted`, `ResponsesCounted`).
* **ShmChatProofs.** `PoolSafe`, `RepliesMatch`, `SessionIsChat`, `SeqNumbersEchoed`. In time, one turn is underway
  (`TurnByTurn`): whoever is in `_write_data` is there alone, and a payload is read before the next is allocated. Where
  the payload of the current turn is, in which process's hands or in which slot, and that it is
  whole, is `PayloadOfTurn`. `SessionIsChat` is the refinement of Chat, step by step: each of the three steps of
  Chat is taken by one step of the session, and all others stutter. `SeqNumbersEchoed` has an invariant of its own about the slots
  (`SlotsNumbered`), since it holds without time too as long as the client does not come round the ring.
  `SessionCursorsInBounds` and `SessionIsFifo` are about the rings of a session on both platforms. They ASSUME that every Linux setting is
  `Roomy`: it is in time with a model that answers, so that one request is unread, or it has fewer prompts than there are slots
  (10 and 1024 in the repository). Then the slot written without a test is free (`RoomForRequest`, `RoomForResponse`), and each step of the Linux
  rings is one of the Windows rings, whose lemmas apply, or a wait on the eventfd, which changes no queue.
  The same two lemmas give `NeverWithoutRoom`: under `RoomForAll` no producer comes to a full ring, whichever process has
  ended. On Windows nobody then waits for room, which would be without a timeout, and so `SessionEnds` can ask both processes to end there.
* **ShmLifecycleProofs.** `LifecycleTypeCorrect`, `HandshakesServed`, `GivenDescriptorsGenuine`, `ConversationsOwn`, for any number of
  clients, servers and prompts, on both platforms, and whoever is killed at whatever point. `Types` says who maps which region at each
  stage. `HandshakeInv` says that after `init_control` nobody but a welcoming server has set `server_ready`. Descriptors
  need more than the rings: one client maps a region at a time and a connection has one server (`PlacesInv`), from which it
  follows that no region is zeroed while anybody maps it, not even by a client whose predecessor's server lives on (`OpenKeeps`); and
  heads never pass a slot that was not written (`Sound`), since each process publishes only what it has written, and `init_control`
  clears heads and leaves the slots. That is all `DescriptorsGenuine` takes. `OwnConversation` takes that an attached server has its
  region to itself and its client (`OwnersInv`), which is where `~mixed` comes in on Windows, that nobody disturbs a region
  between `init_control` and the server that attaches (`Alone`), and that the two rings hold that client's prompts in order
  and its replies (`OwnInv`), including what a dead client has left to a server that attaches after it.
* **HttpChatProofs.** `HttpTypeCorrect`, `ConversationKept`, `OvertakenTurnsFailed`, for any number of clients and turns
  and a backend that may raise. `TurnsOK` relates what a client has begun and been answered to
  its handlers; `HistoryOK` says that the history ends with the prompt of the handler that holds the lock, and that a
  prompt without a reply belongs to a handler that gave none.
* **BenchRunsProofs.** `BenchTypesOK`, `RolesKeepAlternating`, `ConversationKept`, `RepliesAlwaysKept`, `RunsNeverMixed`, `OthersKeptAlways`, for
  any number of turns and runs and any clients. Histories and files are flattened, merged and selected sequences, so what is
  needed of them is proved by induction: `Induct` is induction for a *set* of numbers, got from the well-foundedness of `<`, and needs no
  operator as a parameter; `Iteration` gives recursive functions their equations, and `FlattenAppend`, `MergedAppend`,
  `OnlyAppend` say how each goes on by one element. The invariant is `HistoryInv` (the history before a waiting prompt says what is to
  be shown of the turns that ended, and alternates when merged), `RepliesPast` (every reply given is in it) and `RowsInv` (the rows read back are
  those of the other labels, each of one run). `ConversationKept` and `RepliesAlwaysKept` ASSUME `"gemini" \notin Api`, which bounds the finding of
  `api_gemini`: no other client loses anything but the failed prompt.

Two properties were found too strong in the course of this, and are stated now as they are:
`PayloadsIntact` lasts as long as the server, and `SeqEchoed` needs `Paced`. `shm_session` has the sessions that show why.

Only model-checked: all liveness (`ClientsFinish`, `ServerGoesOn`, `EveryTurnAnswered`, `SessionEnds`, `HandlersEnd`,
`EveryoneEnds`), since fairness and ENABLED are out of the prover's reach. Every other property of a passing run is stated by a theorem.

## What is not modelled

* The memory model: an access to the region is one atomic step and accesses
  happen in program order, as CPython on x86 does them for aligned words.
* The content of replies, the simulated latency, tokens, and decoding errors of
  garbled text.
* `client_done` and `last_response_ns`, which nothing reads.
* A full ring in a session with crashes, and the pool there: ShmLifecycle leaves both out, which
  ShmSession has. `OwnConversation` and `DescriptorsGenuine` are therefore about descriptors, not about
  the bytes they describe: `init_control` also starts the pool over (`R:156`), so that after a crash an old server's reply
  may be overwritten by the next client's prompt before it is read, as after a timeout (`PayloadsIntact`).
* Two clients at the same time in one named region, which nothing in the repository starts.
* Opening the region with another size than its creator's, and the file system's own failures.
* The network and the services behind the API clients: their answers are inputs.
* The summary, the table and the plots (`summarise`, `print_table`, `plot`, `src/build_fig5.py`): pure
  functions of the rows. The set-up script: checks and a download. The debug script: two endpoints,
  whose behaviours are among those of `endpoint_cap`.

## Plan

Done, in this order: `ErpcEndpoint`, `UdpRpc`, `ShmRing`, `LinuxRing`, `ShmSession`, the first three
proof modules, `HttpChat`, `ApiHistory`, `Chat` and its two refinements, `ShmLifecycle`, `Backoff`, `BenchRuns`, the
proofs about `HttpChat`, `ShmSession`, `UdpRpc` and `ShmLifecycle`, the service in time, `Backoff`, `BenchRuns`, and the rings of a
session on both platforms.

Left: the bytes behind the descriptors of `ShmLifecycle`, whose pool a crash may start over (`R:156`). It needs the pool of
`ShmSession` in a module with crashes, and a weaker promise than `PayloadsIntact`.
