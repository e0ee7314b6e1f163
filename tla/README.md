# TLA+ models of raknet-rs

This directory holds TLA+ models of the reliable-UDP core of raknet-rs
(`src/src/`), the TLC configurations that check them, and `PROJECT.json`,
which lists the components, the runs, the mutants, the line map from each
definition to the code it models, the findings and the hazards.

## The system

A connection has two halves that share one `TransferLink` (`link.rs`):

* The **read half**. A task receives decoded packets from the socket and
  hands each one to `Router::deliver`:
  * a FrameSet pushes its number on the outgoing ACK heap, fixes the set of
    gaps to NACK, advances `seq_read` and forwards the frame-set upward;
  * an ACK or NACK goes on the bounded `incoming_ack` / `incoming_nack`
    queue. When the queue is full, `force_push` displaces the oldest entry.
  * While `forward_waking` is on, an ACK also cancels the connection's
    timers and wakes their tasks.

  The client spawns this task in `client/conn/tokio.rs`.
* The **write half**, `OutgoingGuard` (`guard.rs`). It is a `Sink<Frame>`
  whose `try_empty` drains the link and its own buffer onto the socket
  sink:
  1. Absorb incoming ACKs and NACKs into the resend map, then re-queue the
     stale entries.
  2. Loop until `FlushStrategy::check_flushed`. Each iteration sends one
     NACK packet, one ACK packet, at most one unconnected packet and one
     frame-set.
  3. Every send is preceded by a `ready!` on the socket sink, which may
     return Pending.

  Its public methods:
  * `poll_ready` drains, then answers from the buffer length;
  * `start_send` pushes to the buffer's front;
  * `poll_flush` drains, then flushes the socket;
  * `poll_close` turns waking on and loops: drain, flush, then stop if the
    resend map is empty, else sleep in `ResendMap::poll_wait`.
* The **ACK/NACK packer** `Ack::extend_from` (`packet/connected.rs`). It
  builds one packet of Single/Range records from a sorted iterator within
  the peer's mtu. `process_outgoing_ack` feeds it the ACK heap, popping
  numbers as it goes. `process_outgoing_nack` feeds it the NACK set,
  borrowing it, so nothing is removed.

`ResendMap` (`resend_map.rs`) and `FlushStrategy` (`opts.rs`) are not in
the sources. They are modelled from spec sections 4.2 and 4.6 and marked
`spec_modelled` in the map.

The **server's dispatcher** `Incoming` (`server/incoming/tokio.rs`) is a
stream polled by the accept loop. It keeps a map from peer address to that
peer's channel, forwards each connected packet to it, and yields a new
connection for an unknown peer. A connection's online handler, when its IO
is dropped, sends the peer address on a drop channel; `poll_next` drains
that channel first (`clear_dropped_addr`). A send that fails because the
receiver is gone also removes the peer.

The **wire codec** (`packet/connected.rs`) reads and writes frame-sets and
ACK/NACK bodies from bytes that come off the network.

## Modules

| Module | Models | State | Actions / operators |
|---|---|---|---|
| `AckPacker` | `Ack::extend_from`, `Record`, `Ack::write` | (pure) | `PackLoop` (RECURSIVE) is the loop body. `extend_from` returns the records and what the iterator still holds. `WireLen` gives the bytes written. `ExpandAll` gives the numbers the records stand for. |
| `AckPackerMC` | repeated `process_outgoing_ack` on one heap | `input`, `mtu`, `pending`, `packets` | `Extract` is one call. Inputs: every non-decreasing sequence over `0..MaxSeqNum`, each value up to `MaxDup` times. |
| `Link` | `TransferLink` operations | (operators) | `ForcePush` (`force_push`). `AscendingOf` is the heap's pop order. `DescendingOf` is the iteration order of `BTreeSet<Reverse<u24>>`. `ProcessOutgoingAck` pops what the packer consumed. `ProcessOutgoingNack` leaves the set unchanged. |
| `Router` | `Router::deliver`, `incoming_ack`, `incoming_nack` | `seqRead`, `outAck` (bag), `outNack`, `inAck`, `inNack`, `waking`, `parked`, `rxOpen`, `upward`, `delivered` (history) | `DeliverFrameSet`, `DeliverAck`, `DeliverNack`, and `DeliverClosed` (router_tx closed: nothing changes, false is returned) |
| `Guard` | `OutgoingGuard` with its `ResendMap` | `buf`, `seqWrite`, `resend`, and `call`/`phase` (the method in progress and where it stands) | See the list below the table. |
| `Connection` | two peers joined by a lossy, reordering network | S's and R's guard, link and reader variables; `toR`, `toS` (sets of packets in flight) | Instances `SG`, `RG` of Guard and `SR`, `RR` of Router, plus `SendPing`, `ReceiveAtR`, `ReceiveAtS` and `Loss`. |
| `ConnectionMC`, `ConnectionLiveMC` | model values for frames | | |
| `RouterNet` | the client's read task: one `Router` behind a network that loses, reorders and duplicates | Router's variables, `sent`, `net` (copies in flight), `dups`, `refused` (how often `deliver` returned false) | `Send`, `Duplicate`, `Lose` (the network), `Receive` (the read task calling `deliver` and discarding its result), `DropIO` (the user drops the connection's IO) |
| `ReliableChannel` | what a connection promises its user (spec 4.5, 7) | `submitted`, `delivered`, `closed` | `Submit`, `Deliver`, `Close` |
| `Incoming` | `Incoming::poll_next`, `clear_dropped_addr`, `make_incoming` | `router` (peer to connection), `dropQ`, `known` (offline handler's peers), `owner`, `live`, `pc` | `PollNext`, `Dispatch`, `NewConn`, `Pending`; environment: `Handshake`, `DropIO` |
| `AckCodec` | `Uint24le`, `Record::read/write/ack_cnt`, `Ack::read/write` | (pure) | `AckWrite`; `AckRead(buf, build)` with `ReadRecords` (RECURSIVE) as the loop |
| `FrameSetCodec` | `Flags`, `Reliability`, `Fragment`, `FrameSet::read/write` | (pure) | `FrameSetWrite`; `FrameSetRead` as a chain of `Take` steps; `PacketWrite`, `PacketRead` |
| `CodecMC` | the readers on bounded inputs | `kind` (pack id), `sent`, `bytes`, `build`, `result` | `Read`: `Packet::read_*` on one body |
| `IncomingMC` | model values for peers | | |

`Guard`'s actions:
* the user's calls: `PollReady`, `PollFlush`, `PollClose`, `StartSend`;
* the drain: `Absorb`, `Iteration`, `IterationPending`, `LoopExit`;
* what follows a drain: `ReadyDone`, `FlushDownstream`, `FlushReturn`,
  `FlushPending`;
* the close path: `CloseStep`, `TimerFires`; `CloseAssert` is the
  `debug_assert` that `poll_close` evaluates after a Ready drain.

How `Guard` corresponds to the code:
* **The drain loop.** An iteration of `try_empty` is
  `NackPart`, `AckPart`, `UnconPart`, then `PackPart` on a record of the
  fields it changes.
  * `Iteration` takes all four stages.
  * `IterationPending` takes the first k stages and then returns Pending.
    This models a `ready!` that finds the socket sink not ready, with the
    work of the earlier stages kept, as in the code.
* **What is not modelled.** The socket sink itself, and the frames'
  bytes.
* **Frames.** A frame is a model value with a size (`FrameSize`).
* **Batching.** `Batch` pops frames from the back of the buffer while they
  fit in `Budget` (`mtu - FRAME_SET_HEADER_SIZE`).
* **The resend map.** It is a function from sequence number to frames.
* **The RTO.** `Absorb` chooses any point `stale` in `0..seqWrite`, and
  the entries below it are stale. This covers every monotone timeout
  policy spec 4.2 allows.
* **FlushStrategy.** The constant `Strategy` is the set of parts
  (`nack`, `ack`, `pack`) a drain flushes. `CheckFlushed` tests only those
  parts, and `NackPart`, `AckPart`, `UnconPart`, `PackPart` skip the parts
  outside it, as `flush_nack`, `flush_ack` and the `continue` on
  `!flush_pack` do. `Connection` gives S the strategy `SStrategy`; R's
  online handler always uses the default (all three).
* **Parking.** `parked` is the close path asleep in `poll_wait`. It ends by
  `TimerFires`, or by an ACK while `waking` is on (`DeliverAck`).

Composition:
* `Connection` instantiates `Guard` and `Router` twice, with the variables
  renamed per side.
* S's guard sends frame-sets onto `toR`.
* R's router acknowledges them. R's guard is polled by R's online handler
  and never submits or closes here. It sends ACK and NACK packets onto
  `toS`, where S's router queues them for S's guard.
* Both sides run the client's read path (`Router`). The server's read
  path (`filter_incoming_ack`) is not in the sources. Spec 4.4 describes
  it with the same semantics.

## Runs

| Run | Config | Expect | What it shows |
|---|---|---|---|
| `packer_drain` | `AckPackerMC.cfg` | pass | Take any heap of numbers `0..5`, each up to twice, and mtus 7 to 21 (7 is the minimum; 10 and 11 sit on the boundaries of the 3 and 4 byte charges). Draining it packet by packet gives packets that fit the mtu (`FitsMtu`). Together they stand for exactly the heap (`Lossless`). |
| `connection_safety` | `ConnectionMC.cfg` | pass | See the list below the table. |
| `connection_ack_liveness` | `ConnectionLive.cfg` | pass | Assume R's drain steps are fair. Then every number on R's ACK heap leaves it in an ACK packet (`AckEventuallySent`). |
| `drain_busy_loop` | `ConnectionDrain.cfg` | violation | `DrainEventuallyReady` fails. A lost frame-set opens a gap, and the frames are resent under a new number, so the gap's number never arrives. `process_outgoing_nack` never removes the gap, so R's `check_flushed` never holds. Every drain re-sends the same NACK until the socket is Pending. R's `poll_flush` and `poll_ready` then return Pending forever and never Ready, although the Pending returns are fair. |
| `close_lost_wakeup` | `ConnectionWake.cfg` | violation | `NoSleepOverAck` fails. An ACK reaches S's link after the drain absorbed the queues and before the close path parks. No timer is cancelled, and S sleeps with the ACK queued. |
| `close_assert_race` | `ConnectionAssert.cfg` | violation | `CloseAssertHolds` fails in five states. S calls `poll_close`, and the drain finds everything empty and returns Ready. S's online handler, on the read task, then queues a ping. The `debug_assert` of `poll_close` (guard.rs 249-254) finds `unconnected` non-empty, and a debug build panics. A frame-set from the peer pushing onto `outgoing_ack` at the same point has the same effect. |
| `partial_flush_ready` | `ConnectionPartial.cfg` | violation | `ReadyAfterDrain` fails. With S's strategy `{nack, ack}`, S fills its buffer; `poll_ready` drains to Ready with the buffer at capacity, where `debug_assert!(upstream == Pending)` (guard.rs 220-224) fires. |
| `client_read_leak` | `RouterLeak.cfg` | violation | `EvictOnRefusal` fails. The user drops the IO, and `deliver` refuses the next packet with false. The read task in `client/conn/tokio.rs` discards the false and delivers the packet after it. The task, the socket and the link outlive the connection, although spec 4.4 says the false is there so the caller evicts the peer. |
| `incoming_dead_routes` | `IncomingMC.cfg` | pass | Three peers, up to five connections, drops between any two steps. A route to a dropped connection exists only while its notice is queued (`DeadRouteNoticed`). Under `FairSpec`, such a route is eventually removed (`DroppedRouteRemoved`). |
| `incoming_stale_drop` | `IncomingStale.cfg` | violation | `LiveConnRouted` fails. Peer p1's IO is dropped inside the loop; its next packet fails to send, so p1 is removed; p1 reconnects as connection 2; the next `poll_next` applies the old notice and removes connection 2's route. |
| `codec_round_trip` | `CodecMC.cfg` | pass | Every frame-set of each reliability, with and without a fragment header, and every ACK/NACK body of up to three records over `{0, 1, 8189, 8191, 2^24-1}`, reads back as written (`FrameSetRoundTrip`, `RoundTrip`), in both builds. |
| `codec_malformed_read` | `CodecPanic.cfg` | violation | `ReadRejectsMalformed` fails. It says a read ends in a codec error or in a packet within bounds: it never panics (`ReadNeverPanics`), and an accepted ACK covers at most 8192 numbers (`AckCountBounded`). Both conjuncts fail. An empty frame-set body panics in `get_uint_le` before any length check. Truncated ACK bodies, and in debug builds `Range(1,0)` (u32 underflow in `ack_cnt`), panic too. In release builds, `Range(0,0), Range(8191,8189), Range(0,8191)` covers 8193 numbers and is accepted, because the reversed Range wraps `ack_cnt`. TLC reports the panic first. Running with `-continue`, or with `AckCountBounded` alone, shows the wrap. |

`connection_safety` checks these properties. S submits a reliable frame
`f1` and an unreliable frame `f2`, flushes and closes. S's online handler
may queue a ping at any time, during the close too.
Any packet may be lost or reordered.
* `ReliableNotLost`: `f1` is always in S's buffer, in its resend map, or
  forwarded by R.
* `GapExact`: R's NACK set is exactly the numbers below `seq_read` that
  never arrived (spec section 8, "Router gap detection").
* `SingleCopy`: S's guard never holds a frame twice. It is in the buffer
  or in one resend entry, across NACK and stale re-queues.
* `ImplementsChannel`: the refinement. `ReliableChannel` is the abstract
  promise of one direction of a connection:
  * every frame forwarded was submitted;
  * nothing is submitted once the sink is closed;
  * `poll_close` completes only after every reliable frame was forwarded.

  `Connection` implements it under the mapping `submitted <- sSubmitted`,
  `delivered <- rUpward`, `closed <- sClosed`. The channel's `Spec` is
  checked as a `PROPERTY`.

Each property of a passing run has a mutant in `PROJECT.json`: a
plausible fault in the mapped code that TLC finds. For example, `reliable`
is overwritten by each popped frame, or the ACK heap is iterated in place
like the NACK set.

### Bounds

* `MaxSeqNum = 2` allows two frame-sets, numbered 0 and 1 (`SetTo` packs
  only below the bound). A first send and a retransmission make a gap. That is enough for a NACK, a stale re-queue and a late
  arrival to interleave.
* `MAX_ACK_BUFFER = 1` makes every second queued ACK or NACK displace the
  first, so the overflow path of `force_push` is taken constantly.
* `Budget = 2` with frames of size 1 lets the two frames share a frame-set
  (`ReliableNotLost`'s mutant needs this), and `Cap = 2`.
* Mtu 11 fits one Range record or two Singles in an ACK packet.

* `RouterNet`: `MaxSeqNum = 3`, `MaxDups = 2` (a total over the run).
  A second datagram after the IO is dropped is all `EvictOnRefusal`
  needs.
* `Incoming`: three peers and `MaxConns = 5`. A peer can be dropped,
  removed and reconnected while two others hold routes. This gives 474k
  states in about a minute.
* Codecs: the values sit on the byte boundaries of uint24 (0, 1,
  `2^24-1`) and around the 8192 bound; truncated inputs are every proper
  prefix of a written packet.

The liveness run uses one reliable frame and `Budget = Cap = 1` to keep the
behaviour graph small.

### Fairness

`FairSpec` assumes only this of R: its online handler keeps calling
`poll_flush`, and the drain steps are taken when they stay enabled.

Strong fairness is needed on the drain steps. The socket sink may be
Pending at any `ready!`, which disables the steps after it. A UDP socket
does not stay unwritable forever, so a drain step that becomes enabled
again and again is eventually taken.

Nothing is assumed of S or of the network. In particular, a lost frame-set
is never assumed to be resent.

A drain is also not assumed to finish in one poll. Under tokio's
cooperative budget, the socket sink becomes Pending after a bounded number
of sends. So a drain that has not finished eventually returns Pending
(`WF` on `IterationPending`). The counterexample of `DrainEventuallyReady`
therefore has R polled and answered again and again. It is never a run in
which the socket is always ready.

`Incoming!FairSpec` assumes two things:
* the server's accept loop keeps awaiting the stream, so `PollNext` is
  weakly fair;
* one poll does not yield packets forever, so `Pending` is weakly fair.
  The socket runs dry, or tokio's cooperative budget makes the offline
  stream return Pending.

Without the second assumption, a peer that keeps sending holds
`poll_next` in its loop, and `clear_dropped_addr` never runs.

### Notes

* Spec 4.1 says the packer halts when less than 4 bytes of budget remain,
  and `extend_from` does so. Spec scenario S3 (`[0,1]`, mtu 10 gives
  `Range(0,1)`) contradicts that text: after `Single(0)`, 3 bytes remain,
  enough to grow it into a Range, but the packer stops. The model follows
  the code. `AckPackerMC` checks the text's guarantees (`FitsMtu`,
  `Lossless`), not the scenario.
* `RouterNet` checks only `EvictOnRefusal`. Gap detection (`GapExact`) is
  checked in `connection_safety`.
* `Router::deliver` forwards a duplicate of a frame-set it already read.
  Spec 8 says a duplicate below `seq_read` is acknowledged but not
  forwarded. `RouterNet` has the duplicating network, but no run checks
  this divergence. Whether the duplicate reaches the user depends on the
  frame decoder's dedup by reliability class, and the decoder is not in
  the sources.
* The project is held to twelve runs. The two `Ack::read` faults share
  one run because they state one rule: untrusted bytes give an error or a
  packet within bounds.

## What is not modelled

* **Frame bodies and the frame encoder/decoder pipelines** (`codec/`,
  not under `src/`). The codec models carry bodies of one or two bytes.
* **u24 wrap-around** of `seq_read` and `seq_num_write_index`. The
  `Uint24le` arithmetic is in `utils`, not under `src/`, and the spec treats
  the counter as one whose lifetime fits in 24 bits.
* **The end of the offline stream** (`poll_next` returning `None`),
  **socket errors**, and **the offline handshake** (not in the sources;
  `Handshake` is modelled from the spec).
* **`ResendMap` and `FlushStrategy` internals** (`resend_map.rs`,
  `opts.rs` are not in the sources); both are modelled from the spec.
* **The client's address lookup** in `connect_to` (pure I/O).

## Plan for further work

1. A duplex `Connection` in which R also sends data. S's router would then
   push ACK numbers while S closes. `close_assert_race` already reaches the
   same `debug_assert` through a ping.
2. Compose `Incoming` with `Router` so that the packets a stale route
   swallows are followed to the dead connection.
3. Liveness of the channel (a reliable frame is eventually forwarded).
   This needs a timer model in which the RTO eventually expires, and a
   fair-loss network.
