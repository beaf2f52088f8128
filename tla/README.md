# TLA+ verification of reliable-rs

reliable-rs is a packet acknowledgment layer over UDP: it numbers packets with
16-bit sequence numbers, piggybacks acks on every packet, and splits large
packets into fragments. This directory models its core, checks it with TLC on
small instances and proves most of its properties with TLAPS for every instance.

## 1. The system: inventory

An `Endpoint` is driven by one thread: the application calls `send_packet`,
`receive_packet`, `drain_outgoing`, `drain_incoming`, `get_acks`/`clear_acks`,
`update` and `reset`. There is no concurrency inside an endpoint; the one program
of the repository with two threads is the loopback example. What makes the
library hard is outside and at the edges: the network loses, repeats and reorders
datagrams, sequence numbers wrap, every buffer is bounded, and a sequence number
is all that tells one packet from another.

| Part | State | Operations | Correct when |
|---|---|---|---|
| sequence arithmetic (`utils.rs`) | none | `sequence_greater_than`, `sequence_less_than` | it orders numbers less than half the range apart, across the wrap |
| `SequenceBuffer` (`sequence_buffer.rs`) | next sequence, ring of optional entries | `can_insert`, `insert`, `find`, `exists`, `remove`, `generate_ack_bits`, `reset` | it behaves like a sliding window over unbounded packet numbers |
| `PacketQueue` (`packet_queue.rs`) | slots, head, tail, count | `write_slot`, `push`, `drain`, `clear` | it is a bounded FIFO |
| fragment reassembly (`fragment.rs`) | a `SequenceBuffer` as tracker, one slot per index | `process_fragment`, `reset` | it delivers exactly the packets that were sent, each once |
| `Endpoint` (`endpoint.rs`) | sequence, sent and received buffers, reassembly, ack buffer, two queues, counters | the calls above | acks are true and reported once; payloads are whole; nothing is delivered twice |
| statistics (`endpoint.rs`, `utils.rs`) | RTT, loss, bandwidth | `update`, and RTT in `process_acks` | the estimates follow the window they are defined on |
| header codec (`packet.rs`, `fragment.rs`) | none | `write_to_slice`, `read` | reading gives back what was written and refuses a cut header |
| configuration (`config.rs`) | limits | `validate`, `max_datagram_size` | what it accepts is what the other parts can work with |
| frame loop (`examples/with_packet_loss.rs`, `basic.rs`) | two endpoints, frame counter | send, respond, update once a frame | the estimates are explained by what was dropped |
| loopback (`examples/udp_loopback.rs`) | two threads, each with an endpoint and a socket; a stop flag | ping with a read timeout; echo; stop and join | it ends, echoes what it takes, and never waits for what does not come |

How they interact: `send_packet` takes the next sequence, asks the received
buffer for ack bits, inserts into the sent buffer, and writes one datagram or
several fragments into the outgoing queue. `receive_packet` checks a regular
packet against the received buffer, records it, applies its acks to the sent
buffer and pushes the payload; a fragment goes through the reassembly buffer,
which writes a completed packet into the incoming queue, after which it is
recorded. Nothing else connects two endpoints but the datagrams.

`PROJECT.json` lists under `hazards` what can go wrong at which line.

## 2. Modules

| Module | Models |
|---|---|
| `SeqNum` | the comparison; `SeqSpace` is 65536 in the code |
| `SeqBufferOps` | `SequenceBuffer<T>` as operators on a value; instantiated for the sent buffer, the received buffer and the reassembly tracker, each with its size |
| `SequenceBuffer` | one buffer as a state machine, with the unbounded packet number of every entry as its data |
| `SequenceWindow` | abstract: a sliding window of unbounded numbers |
| `PacketQueue` | the slot ring |
| `BoundedFifo` | abstract: a bounded queue |
| `Reassembly` | `FragmentReassemblyBuffer` |
| `Endpoint` | every public operation of `Endpoint` but `update`, as an operator from endpoint to endpoint; `EndpointConfig::validate` as its assumption |
| `Statistics` | `update`: the loss and bandwidth estimates |
| `Connection` | two endpoints and the network between them |
| `LossyLoop` | the frame loop of the packet-loss example |
| `Loopback` | the two threads of the loopback example, their sockets, the flag and the join |
| `PacketCodec` | both headers as bytes, with the real widths, and how a datagram is put together and parsed |
| `WireSizes` | `validate`, the slots and limits, and the bytes of one packet on its way between endpoints of one configuration |
| `MC...` | instances for TLC |
| `SeqBufferLemmas`, `EndpointLemmas` | lemmas: the operators of `SeqBufferOps`; what each operation of an endpoint does to each of its fields, and what it keeps true of an endpoint and of a datagram |
| `SequenceBufferProofs`, `PacketQueueProofs`, `WireSizesProofs`, `PacketCodecProofs`, `ConnectionProofs`, `LoopbackProofs` | the theorems about the module named, and their proofs |

`Connection`, `LossyLoop` and `Loopback` compose two endpoints each, over
different networks: any network, one that drops, and two sockets that keep the
order. `Endpoint` composes `Reassembly` and three instances of `SeqBufferOps`;
`SeqBufferLemmas` is instantiated the same three times, so that what is proved of
one buffer holds for each. The endpoint's queues are plain bounded sequences:
that this is what a `PacketQueue` is, is the theorem `PacketQueueIsFifo`. Its
datagrams are records: that reading gives back the record that was written, or
refuses, is the theorem `CodecLossless`. Its lengths are whole fragments: that no
slot or limit interferes is `AcceptedPacketsArriveWhole`, for coherent
configurations.

Conventions. Definitions marked `Bug:` are plausible mistakes in the definition
that follows them; they are used only to show that a property notices them. A
packet's length is counted in fragments. A payload is the sequence of its
chunks, and a chunk carries its packet's unbounded number (`id`), its position
and the packet's length, so a payload put together from two packets shows. Ids
are history: the code has only the sequence, which is the id modulo `SeqSpace`.
The ack bits are the set of the offsets whose bit is set.

Some atomic steps need a word. Each call of an endpoint is one step, because it
runs under `&mut self`. `remove_range`'s loop is the set of the sequences for
which its condition held from the start on. Writing several fragments one by one
into a bounded queue keeps the longest prefix that fits (`WriteAll`); the same
operator is the bounded ack buffer. In `process_fragment`, every refusal happens
before anything is changed, so a fragment is either refused by `Accepts` or
stored. The loop of `process_acks` is described by the set of bits that find a
packet not yet acknowledged (`NewlyAcked`): no two bits of a header name the same
sequence, so one iteration does not change what another finds, and what is left
of the order is the order of the reports and of the RTT samples (`Ascending`).

### The network and `Timely`

`Flush` moves the drained datagrams into the set in flight to the peer, losing
any of them; `Receive` takes any datagram of that set, in any order, and may
leave it there to be received again. `ReceiveForeign` is a datagram that does
not parse or whose fragment header makes no sense to the receiver.

Sixteen bits cannot work against an arbitrary network, so `Send` has the guard
`Timely`: a packet is sent only while the peer is not further behind than the
comparison reaches, no datagram in flight is older than that, and no ack in
flight is a whole sequence space late. The code does not enforce this
(`utils.rs` says that buffer sizes do); it is the assumption under which
the passing runs hold, stated as exactly as the comparison allows.
`NoStalePartials` extends it to partial packets; the run `stale_partial` drops
that part.

`Start` lets a behaviour begin after that many undisturbed round trips
(`WarmUp`, computed with the endpoint's own operations), so that a short
behaviour crosses the wrap.

## 3. What the runs show

| Run | Shows | Bounds and why they are enough |
|---|---|---|
| `sequence_buffer` | the ring implements the window; lookups, `can_insert` and the ack bits answer for the right packet | 16 sequences, 4 slots, ids to 34: two wraps, every jump the comparison can place; ack field of 6 bits, wider than the ring |
| `packet_queue` | the ring implements the FIFO | 2 slots, positions wrap at 8, payloads shorter and longer than a slot |
| `connection_wrap` | `AckSound`, `AckReportedOnce`, `HeadIsNewest`, `RegularAtMostOnce`, `Integrity`, `ReassemblySync` | 8 sequences, buffers of 2, start at packet 7: A sends packets 7 to 9 (sequences 7, 0, 1), B sends one; lengths 1 and 2; one repeated delivery. Windows of two are evicted, slots are reused, the wrap is crossed by packets and by acks |
| `connection_limits` | `AckMeansDelivered`, `AckSound`, `Integrity`, `AckBatchFits` | incoming queue of 1, outgoing of 2: both overflow, in the middle of a packet too; lengths 0 to 3 with fragment counts limited to 2, so that the refusal of `send_fragmented_packet` happens; two packets from A and one from B, and at any point one mishap (`MaxMishaps`): a stray datagram or a reset of both endpoints |
| `lossy_loop` | `AckedExactly`, `LossExplained`, `RttExact`, `BandwidthExact` | 16 sequences, 19 frames: the wrap, the frames before the buffer is full and the pause after the wrap; buffers of 4, ack field of 2, so that acks are lost for good; ack buffer of 3, which the server never clears; any 3 of the 38 datagrams dropped |
| `loopback` | `ReplyLagBounded`, `AckedWasEchoed`, `Terminates`, `PingEchoed` | 3 rounds, 2 datagrams lost, 1 failing receive: enough for a reply two rounds late, several pings in one pass whose echoes leave one by one, and an ack field that has to reach back |
| `packet_codec` | `NothingMisread`, `OnlyCutHeaderRefused`, `HeaderFits`, and that bit 0 tells the kinds of datagram apart (`TypeOK`) | real widths; sequences and acks at distances 0, 1, 255, 256 and across the wrap; each ack byte elided or not; regular packets, first and later fragments, with and without payload, cut at every byte |
| `wire_sizes` | `CoherentArrivesWhole`, `NothingMissing` | every configuration with packets to 12 bytes, fragments to 8 bytes, up to 5 of them of which 4 can be counted, and all header sizes from 4 to 9: all lengths around every limit; stored lengths wrap at 7, so that fragments of 7 and 8 bytes exceed them; the real header constants |

In `WireSizes` the network is perfect, so that a missing byte is the endpoints'
doing. `Coherent` is the condition under which none is missing: `fragment_above`
is at most `fragment_size + 5` and, unless nothing is ever fragmented,
`fragment_size + 5` is at most `max_packet_size`, 255 fragments hold the largest
packet, and a `u16` holds the length of a full fragment. The default configuration
is coherent; `validate` does not ask for it. Each part of `Coherent` has a
configuration below that shows what a valid one without it does.

The connection, codec and size runs check safety only and may end: an application
that sends nothing more leaves the system idle, hence `CHECK_DEADLOCK FALSE`; so
does `lossy_loop` after its last frame. `loopback` checks for deadlock: it may
only stop when the client is done.

The estimates. `LossyLoop` keeps which messages and responses came through, and
states each estimate as a function of that alone: a packet is acknowledged when
it came through and some response came through that was sent while the packet was
within reach of the ack field (`ClientAckers`, `ServerAckers`); the RTT is the age
of the last packet acknowledged at its first ack; the rates are those of the packets
in the windows. The loss is not such a function (`loss_freeze` and
`LossWindow.cfg` below); `LossExplained` bounds how far it is off: within one packet of the unacked
fraction of the older half, at the end of this frame or of one of the few before it.
None of these look at the endpoints. Smoothing is taken at the ends of its range, where
the floating point is exact: a factor of 1 makes the estimate the last sample, so a
sample that should not have been taken shows. Time is the number of the frame.

Fairness. Only `Loopback` has any. Each thread keeps being scheduled, and each of
its blocking calls returns because both sockets have a read timeout: weak fairness
of `ClientStep` and of `ServerStep`. The relaxed store of the flag becomes visible
in finite time: weak fairness of `FlagVisible`. Nothing is assumed of the network
or of errors; every datagram may be lost, within the bound. The fairness of the
threads is written with `ClientReady` and `ServerReady`, which say when they are
enabled, because TLC takes long to find that out from the actions. (That they
agree with `ENABLED` was checked as an invariant for two rounds.)

### Disagreements found

* `duplicate_fragments`: repeating all the fragments of a completed packet
  delivers it again. The received buffer is asked about duplicates for regular
  packets only.
* `stale_partial`: a partial packet is never expired, and is completed by the
  packet that has its sequence one wrap later. The run shows the whole behaviour
  from the initial state, nine packets in a sequence space of eight.
* `slot_cut`: with the default `fragment_size` and a `fragment_above` of 1200,
  which `validate` accepts, an unfragmented packet is cut in its slot.
* `loss_freeze`: the test for a full buffer compares raw sequences, so for half a
  buffer after each wrap the loss estimate is not updated. It keeps reporting losses
  when every tracked packet is acknowledged.

Six more are variations on these, or are small. They have a configuration each,
under which TLC finds the property it names violated, but no entry among the runs:

| Configuration | Property | Shows |
|---|---|---|
| `TrackerLag.cfg` (`MCConnection`) | `FreshFragmentTaken` | the tracker of the reassembly buffer moves only with fragmented packets; after about half the sequence space without one, new ones are refused as too old. It starts after 5 of 8 sequences; with the defaults this is from packet 32704 on |
| `Uncounted.cfg` (`MCWireSizes`) | `AcceptedArrivesWhole` | `validate` accepts more than 255 `max_fragments` (`config.rs:39`: "max 255"), and a packet that needs them is counted as sent and never leaves (`endpoint.rs:224`) |
| `FirstRefused.cfg` (`MCWireSizes`) | `AcceptedArrivesWhole` | a first fragment carries two headers, the receive limit counts one (`endpoint.rs:278`): a fragment nearly as large as the largest packet is refused by a peer of the same configuration |
| `LengthCut.cfg` (`MCWireSizes`) | `AcceptedArrivesWhole` | the length of a fragment is stored as a `u16` (`fragment.rs:210`) and `validate` does not bound `fragment_size`: full fragments of 65536 bytes are stored as empty, and the delivered packet lacks them |
| `LossWindow.cfg` (`MCLossyLoop`) | `LossOfOlderHalf` | the loss is documented as the unacked fraction of the older half of the ring (`endpoint.rs:43-44`); the samples start one packet later (`endpoint.rs:516`): the oldest tracked packet is left out and the oldest of the newer half is in |
| `LateReply.cfg` (`MCLoopback`) | `ReplyIsOwn` | `udp_loopback.rs:138` says "Wait for the echoed reply", but after a timeout the client takes the late reply (`udp_loopback.rs:143`) for the reply of the current round, whose RTT is then too short |

One more limit is an assumption and has no configuration of its own: `validate`
sets no upper limit for the buffers. One of 32768 slots compares sequences exactly
half the range apart and refuses the very next one, and beyond 65536 slots the size
is cut to 16 bits. `WindowAssumption` keeps the sent and received buffers below half
the range.

What the passing properties say and a reader of the documentation may not expect:

* `LossExplained`: next to `loss_freeze` and `LossWindow.cfg`, how wrong the estimate
  can be: by one packet, and as old as the pause after a wrap is long.
* `AckMeansDelivered`: an acknowledged packet was delivered, unless it was a single
  datagram that met a full incoming queue, or had no payload. A fragmented packet in
  the same position is not acknowledged.
* `RttExact`: the endpoint's clock moves only with `update`, so a reply within the
  same frame is a sample of 0, and after a sample of 0 the next one replaces the
  estimate instead of being smoothed into it.
* `BandwidthExact`: the three rates have different windows and durations, so the
  acked rate may exceed the sent one, and a rate stays when nothing comes any more.
* `ReplyLagBounded`: next to `LateReply.cfg`, how wrong a round's reply can be: it is
  never the echo of a ping still to come, and it lags by no more rounds than went
  unanswered so far.

## 4. What is proved

Every safety property of the runs `sequence_buffer`, `packet_queue`, `wire_sizes`
and `packet_codec`, both refinements, those of the connection except two, and the
invariants of `loopback` are theorems. `PROJECT.json` lists them under `theorems`.

**`SequenceBufferProofs`.** `IInv` says that the head stands for the number `top`
and that the entry of every slot stands for the number it carries, one of the
`Size` numbers below `top` (`Numbered`). `WindowInv`, which speaks of wrapped
sequences only, does not follow from itself after a jump; `IInv` is inductive.
The step that matters is an insert that moves the head: an entry that the move
pushes out of the window is exactly `Size` below one of the sequences
`remove_range` visits, so it shares that sequence's slot and is cleared. From
`IInv` follow `SequenceBufferTypes`, `SequenceBufferWindow`,
`SequenceBufferLookup` (each lookup within the reach of the comparison is exact),
`SequenceBufferAckBits` and, with the entries as the window's contents,
`SequenceBufferRefinement`. Assumptions: `SeqSpaceAssumption` (even, at least 4),
`SizeAssumption` (the size divides the sequence space and is at most half of it),
`AckWidthAssumption` (the ack field does not reach round the sequence space), and
that `NoEntry` is not an entry. `MaxId` of the run is no assumption: `Ids` is any
set of natural numbers.

**`PacketQueueProofs`.** For every `Capacity` that divides `UsizeMod`, head, tail
and count agree, and the ring refines `BoundedFifo` with the contents from `tail`
on as the queue. The invariant is needed because a write uses `head` and a drain
uses `tail`: only if head is count positions after tail does a write land behind
the contents, and `ModInjective` says that it then hits a free slot.

**`WireSizesProofs`.** For every set of configurations and every set of header
sizes up to the maximum, in a valid and coherent configuration an accepted packet
arrives whole. "Arrives whole" says nothing about a packet under way, so the proof
is by `NothingMissing`: the fragments that arrived hold exactly the first bytes of
the packet, the rest is in the datagrams still to come. It is inductive because the
bytes before a chunk and the chunk make up the bytes before the next one
(`ChunkAdds`), a rounded-up quotient passes both fragment-count tests
(`CountFits`), and the first fragment fits its slot and the receive limit with both
its headers (`FragmentFits`). A chunk keeps its length when it is stored, because a
coherent configuration has no fragment that the `u16` cannot count (`StoredWhole`).

**`PacketCodecProofs`.** The run tries a few hundred headers; `CodecLossless`,
`OnlyCutHeadersRefused` and `HeadersFit` are about all of them, any payload and any
cut. `HeaderLayout` says which byte stands where for each of the 32 shapes a header
can have, `ReadExact` that `read` finds the header in any data that agrees with it
and refuses data that ends before it. The invariant says that the wire is a prefix
of the bytes written and the result what parsing it gives. `CodecTypes` adds that
bit 0 of the first byte, by which `receive_packet` tells the kinds apart, is set in
fragments and clear in regular packets, whatever their headers elide (`FlagExact`).

**`ConnectionProofs`.** Two endpoints, any configuration that `Validate` accepts,
any sequence space, any number of packets, and the network of section 2. The
theorems: `AcksAreSound`, `AcksReportedOnce`, `AckBatchesFit` (an action property),
`HeadFollowsNewest`, `ReassemblyStaysInSync`, `DeliveriesAreIntact`,
`RegularDeliveredOnce`, `AcksMeanDelivery` and `ConnectionTypes`. None of the properties is inductive, because a sequence number
says which packet is meant only as long as the candidates are less than a sequence
space apart. The invariant `Inv` therefore follows the packets of each direction
through every place where they can be:

* `Tracks`: the sent buffer holds the newest packets since the last reset, each in
  its slot, and those marked acknowledged are recorded by the peer;
* `Travels`: a datagram in flight is as it was sent (`Genuine`), belongs to the
  current connection, is close enough to the sender's next packet and to the
  receiver's head for the comparison to place it, and its header acknowledges what
  its sender has recorded (`Vouches`);
* `Remembers`, `Top`: the received buffer stands at the newest packet recorded, and
  holds recorded packets that are recent;
* `Collects`, `Intact`: the chunks in a reassembly slot are those of one recent
  packet, the payloads in the incoming queue are whole packets;
* `Sound`: what each endpoint's state is by itself, the agreement of tracker and
  slots included (`Synced`).

`Send` is the step that could break it, since it moves the sender's numbers on;
that is where `Timely` is used, and the proof shows that it is enough. `Receive`
needs the distances to conclude that the packet found under a sequence is the one
that the datagram means. The model checker agreed with `Inv` on the instances of
`connection_wrap` and of `connection_limits` before it was proved.

`AcksReportedOnce` needs a second invariant, `Reporting`: an ack that was reported,
or waits in the ack buffer, is of a packet already sent, and wherever that packet
is still tracked it is flagged. Then no header announces it again, eviction and
reset included. `AckBatchesFit` shows that the packets a header newly acknowledges
are announced once each (`FlaggedAnnounced`, `AnnouncedOnce`), that they are at most
`AckWidth`, and so fit the buffer that `Validate` asks for.

`RegularDeliveredOnce` and `AcksMeanDelivery` need a third one, `Delivering`. It
says of each direction that

* the received buffer is `Complete`: every recorded packet that its window covers is
  still in it. `Remembers` is only the converse. A copy of an older packet is refused
  as stale and a copy of a covered one as a duplicate, so a packet sent as one
  datagram is recorded once (`RefusedAgain`);
* a packet has `OneLength`, whether it is read off the sent buffer, a datagram in
  flight or a delivered payload, so that a packet is never regular in one place and
  fragmented in another;
* only recorded packets were `Delivered`, and a regular one that is in the queue was
  not delivered before;
* a tracked packet that the peer recorded is `Accounted` for: it was delivered, or is
  empty, or is regular and met a full queue;
* the ids stay within the domain of the delivery counts (`Budgeted`).

Each operation's effect on one direction is a lemma without primes (`FlowSend`,
`FlowReceive`, `FlowDrain`, `FlowReset`, `FlowKept`). TLC checked `Delivering`, like
`Inv`, on both instances first.

Assumptions: those above for each buffer; `WindowAssumption` (the sent and the
received buffer are smaller than half the sequence space), `LimitAssumption` and
`ReassemblyAssumption` (sizes are numbers), `AbsenceAssumption` and `EntryAssumption`
(`None` is not a value), `ConnectionAssumption` (two endpoints, bounds are numbers). Hypotheses of
the theorems: `Start = 0`, which is the program's own initial state; other values
are a device for TLC, and the states they start from are reached from there, with
more packets. `DeliveriesAreIntact` also has `NoStalePartials`: without it the
property is false, as the run `stale_partial` shows. `RegularDeliveredOnce` and
`AcksMeanDelivery` have it too, since a payload mixed from two packets would be
counted as a delivery of only one of them. All bounds (`MaxSends`,
`MaxInFlight`, `MaxDups`, `MaxMishaps`) are arbitrary numbers in the theorems.

**`LoopbackProofs`.** The invariants of the two threads, for every number of rounds,
of lost datagrams and of socket errors, and every interleaving: `ReplyLagIsBounded`,
`AckedPingsWereEchoed` and `LoopbackTypes`. `Inv` follows the pings through two
pipelines:

* `Upstream` a ping is in the server's socket, then waiting in the server, then
  echoed; `Downstream` an echo is in the server's outgoing queue, then in the client's
  socket, then the answer of a round. In both the numbers climb from the last stage
  to the first (`Line`), since a socket keeps the order and a loss keeps what is left
  in order (`Passes`). `Line` also carries a lower bound, the i-th number is at least
  i - 1 (`Climbs`): it is what "lags by no more rounds than went unanswered" comes down
  to, and it would take an induction to get it back from the order alone.
* `ServerTracks`: what the server's endpoint recorded is echoed or waits in it
  (`Known`). Between reading its socket and draining its queue the server sends
  nothing, and when its datagrams reach the client's socket nothing waits. So a header
  that travels vouches for echoed pings only (`Travelling`), and so do the flags in the
  client's sent buffer (`ClientTracks`).
* A ping that is recorded does wait: the endpoint records a datagram before it tries the
  incoming queue, and would drop it there. `Line` bounds the pings that wait by those
  sent, at most `Rounds`, so the queue has room. And `Rounds` bounds how far apart two
  sequence numbers are, so that no header vouches for another packet than was meant.

Each action has its lemma. What sending and receiving one datagram does to an endpoint
is shared by both threads (`SendLetter`, `ReceiveLetter`) and rests on the lemmas of
`EndpointLemmas`, the same that the connection uses. TLC checked the conjuncts of
`Inv` on the instance of the run first. Assumptions: those of the endpoint, and
`LoopbackAssumption`: the queues hold `Rounds` packets (the example does 100 rounds,
the default queues hold 256), a ping is not fragmented, and `Rounds` is at most half
the sequence space less the received buffer.

## 5. What is left

Only model-checked, and to stay so: the liveness of `Loopback` and the agreement of
`ClientReady` and `ServerReady` with `ENABLED`, which the prover does not treat;
the invariants of `LossyLoop`. Its frame hands every datagram of the queue to the
network in one step, a fold over the queue, and its estimates are sums and
cardinalities over a window: what they are for every input needs induction over the
data. That an ack is sound whatever the network does is `AcksAreSound`.

Not modelled:

* A reset of one endpoint only. The protocol has no connection identifier, so old
  datagrams are taken for new ones; nothing could be stated that holds.
* Fragments of a peer with another configuration whose headers the receiver accepts
  but whose payload is longer than its slot for a completed packet: `copy_to` would
  panic (`fragment.rs:223`). Two endpoints of one configuration do not come to that.
* Smoothing factors between 0 and 1: floating-point arithmetic without control.
* `examples/client_server.rs`: one fixed, lossless behaviour of a frame loop, with
  no choice in it. The benchmarks, logging and allocation.
* The headers' variable size in the received bandwidth: `WireHeader` is fixed.
* Dead code (`iter`, `iter_range`, `insert_with`, `bits_required`,
  `fragment_packet`) and the deprecated `take_*` methods, which are the drains with
  a copy.
