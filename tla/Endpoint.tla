-------------------------------- MODULE Endpoint --------------------------------
(***************************************************************************)
(* Endpoint of src/endpoint.rs: every public operation that changes state, *)
(* as an operator from the endpoint before the call to the endpoint after  *)
(* (update() is in module Statistics).                                     *)
(*                                                                         *)
(* Lengths are in units of fragment_size, so a packet of length L that is  *)
(* fragmented has L fragments.  A payload is a sequence of chunks.  The    *)
(* two packet queues are the bounded FIFOs that module PacketQueue         *)
(* implements.  The id kept with a tracked packet and with a chunk is      *)
(* history: the absolute number of the packet, which the code does not     *)
(* have.  The packet_bytes of a sent packet follow from the len kept       *)
(* instead of them.                                                        *)
(***************************************************************************)
EXTENDS Reassembly, SequencesExt

CONSTANTS
    SentSize,           \* sent_packets_buffer_size
    ReceivedSize,       \* received_packets_buffer_size
    AckWidth,           \* 32
    AckBufSize,         \* ack_buffer_size
    OutgoingSize,       \* outgoing_queue_size
    IncomingSize,       \* incoming_queue_size
    MaxPacketSize,      \* max_packet_size
    FragmentAbove,      \* fragment_above
    WireFragments,      \* what a u8 fragment count can say: 255
    PacketHeaderSize,   \* packet_header_size: the IP and UDP headers
    WireHeader,         \* size of an encoded packet header, taken as fixed
    RttFactor,          \* rtt_smoothing_factor
    NoHeader            \* a fragment without the packet header

IsPowerOfTwo(n) == \E k \in 0 .. n : n = 2 ^ k

\* EndpointConfig::validate, lengths in units of fragment_size.  It asks for 32,
\* one full batch of acks, where this says AckWidth.
Validate ==
    /\ MaxPacketSize # 0 /\ MaxFragments # 0
    /\ FragmentAbove <= MaxPacketSize
    /\ MaxPacketSize <= MaxFragments
    /\ IsPowerOfTwo(SentSize) /\ SentSize >= AckWidth
    /\ AckBufSize >= AckWidth
    /\ IsPowerOfTwo(ReceivedSize) /\ IsPowerOfTwo(ReassemblySize)
    /\ IsPowerOfTwo(OutgoingSize) /\ IsPowerOfTwo(IncomingSize)

\* Of the range of the factor, 0 to 1, only the ends.
ASSUME ConfigAssumption == Validate /\ RttFactor \in {0, 1}

\* The powers of two that validate asks for divide the sequence space.  A buffer
\* of half of it, 32768 slots, would refuse its newest sequence.
ASSUME WindowAssumption ==
    \A size \in {SentSize, ReceivedSize} :
        size \in Nat \ {0} /\ SeqSpace % size = 0 /\ 2 * size < SeqSpace

ASSUME LimitAssumption ==
    /\ {AckWidth, AckBufSize, OutgoingSize, IncomingSize} \subseteq Nat
    /\ {MaxPacketSize, FragmentAbove, WireFragments} \subseteq Nat
    /\ {PacketHeaderSize, WireHeader} \subseteq Nat
    /\ AckWidth <= SeqSpace

\* A stretch of payload as long as one fragment: the k-th of len of packet id.
Chunks == [id : Nat, k : Nat, len : Nat]

\* The ack half of a packet header: bits is the set of the offsets whose bit is
\* set, ids is history.
Headers == [ack : SeqNums, bits : SUBSET (0 .. (AckWidth - 1)), ids : SUBSET Nat]

ASSUME AbsenceAssumption == NoChunk \notin Chunks /\ NoHeader \notin Headers

Sent     == INSTANCE SeqBufferOps WITH Size <- SentSize
Received == INSTANCE SeqBufferOps WITH Size <- ReceivedSize

SentData == [acked : BOOLEAN, time : Nat, id : Nat, len : Nat]

ReceivedData == [id : Nat, time : Nat, packet_bytes : Nat]

\* A slot with an entry is not an empty one.
ASSUME EntryAssumption == NoEntry \notin [sequence : SeqNums, data : ReceivedData]

ZeroCounters ==
    [packets_sent |-> 0, packets_received |-> 0, packets_acked |-> 0,
     packets_stale |-> 0, packets_invalid |-> 0,
     packets_too_large_to_send |-> 0, packets_too_large_to_receive |-> 0,
     fragments_sent |-> 0, fragments_received |-> 0, fragments_invalid |-> 0]

\* A rate is kept as the bytes and the duration it is the quotient of.
NoRate == [bytes |-> 0, duration |-> 1]

NewEndpoint ==
    [time |-> 0, sequence |-> 0, ack_buf |-> << >>, counters |-> ZeroCounters,
     rtt |-> 0, packet_loss |-> 0, sent_bandwidth |-> NoRate,
     received_bandwidth |-> NoRate, acked_bandwidth |-> NoRate,
     sent |-> Sent!NewBuffer, received |-> Received!NewBuffer,
     reassembly |-> NewReassembly, outgoing |-> << >>, incoming |-> << >>]

\* smooth_value() at the two ends of the range a factor may have, where its
\* floating point is exact: 0 keeps the estimate, 1 takes the new sample.
SmoothValue(current, new, factor) == IF factor = 1 THEN new ELSE current

\* Bug: a queue that never refuses.
WriteAllUnbounded(queue, capacity, items) == queue \o items

\* Writing the items one after the other into a bounded queue: once it is full
\* the rest are dropped.  write_slot's result is ignored by the senders.
WriteAll(queue, capacity, items) ==
    LET all == queue \o items
    IN  IF Len(all) <= capacity THEN all ELSE SubSeq(all, 1, capacity)

Chunk(id, k, len) == [id |-> id, k |-> k, len |-> len]

Payload(id, len) == [k \in 1 .. len |-> Chunk(id, k - 1, len)]

--------------------------------------------------------------------------------
(* Sending *)

\* The ack half of a packet header.  ids is history: the packets whose receipt
\* the bits stand for.
AckHeader(c) ==
    LET a == Received!GenerateAckBits(c.received)
    IN  [ack |-> a.ack, bits |-> a.bits,
         ids |-> {Received!Find(c.received, WrappingSub(a.ack, i)).id : i \in a.bits}]

RegularPacket(seq, a, id, len) ==
    [kind |-> "packet", sequence |-> seq, header |-> a,
     payload |-> Payload(id, len), id |-> id]

\* Only the first fragment carries the packet header.
Fragment(seq, a, id, len, k) ==
    [kind |-> "fragment", sequence |-> seq,
     fragment_id |-> k, num_fragments |-> len,
     header |-> IF k = 0 THEN a ELSE NoHeader,
     chunk |-> Chunk(id, k, len), id |-> id]

SendRegularPacket(c, seq, a, id, len) ==
    [c EXCEPT !.outgoing = WriteAll(@, OutgoingSize, <<RegularPacket(seq, a, id, len)>>)]

\* A packet of too many fragments is dropped after its sequence was taken.  A
\* fragment the queue had no room for is counted all the same.
SendFragmentedPacket(c, seq, a, id, len) ==
    IF len > MaxFragments \/ len > WireFragments THEN c ELSE
    [c EXCEPT !.outgoing = WriteAll(@, OutgoingSize,
                               [k \in 1 .. len |-> Fragment(seq, a, id, len, k - 1)]),
              !.counters.fragments_sent = @ + len]

\* send_packet()
SendPacket(c, id, len) ==
    LET seq == c.sequence
        a   == AckHeader(c)
        c1  == [c EXCEPT !.sequence = WrappingAdd(@, 1),
                         !.sent = Sent!Insert(@, seq,
                             [acked |-> FALSE, time |-> c.time, id |-> id, len |-> len]),
                         !.counters.packets_sent = @ + 1]
    IN  IF len > MaxPacketSize
        THEN [c EXCEPT !.counters.packets_too_large_to_send = @ + 1]
        ELSE IF len > FragmentAbove
             THEN SendFragmentedPacket(c1, seq, a, id, len)
             ELSE SendRegularPacket(c1, seq, a, id, len)

--------------------------------------------------------------------------------
(* Receiving *)

\* Bug: bit 0 is taken for the sequence before ack.
AckSequenceBeforeAck(a, i) == WrappingSub(a.ack, i + 1)

\* The sequence that bit i of header a acknowledges.
AckSequence(a, i) == WrappingSub(a.ack, i)

\* Bug: a packet already acknowledged is acknowledged again.
AllAcked(c, a) ==
    {i \in 0 .. (AckWidth - 1) :
        i \in a.bits /\ Sent!Exists(c.sent, AckSequence(a, i))}

\* The bits of header a that acknowledge a packet for the first time.
NewlyAcked(c, a) ==
    {i \in 0 .. (AckWidth - 1) :
        /\ i \in a.bits
        /\ Sent!Exists(c.sent, AckSequence(a, i))
        /\ ~Sent!Find(c.sent, AckSequence(a, i)).acked}

\* The numbers in a finite set, lowest first: the order of the loop over the bits.
Ascending(S) ==
    [j \in 1 .. Cardinality(S) |-> CHOOSE i \in S : Cardinality({k \in S : k <= i}) = j]

\* The sent packets with those of bits S of header a acknowledged.
FlagAcked(b, a, S) ==
    [b EXCEPT !.entries = [i \in Sent!Slots |->
        IF @[i] # NoEntry /\ @[i].sequence \in {AckSequence(a, k) : k \in S}
        THEN [@[i] EXCEPT !.data.acked = TRUE] ELSE @[i]]]

\* What the ack buffer is told of the bits in order.  The id is history.
Acks(c, a, order) ==
    [j \in 1 .. Len(order) |->
        [sequence |-> AckSequence(a, order[j]),
         id |-> Sent!Find(c.sent, AckSequence(a, order[j])).id]]

\* Bug: the ack buffer is taken for full one entry early.
AckBufRoomShort == AckBufSize - 1

AckBufRoom == AckBufSize

\* The estimate after one more sample.  0 stands for no sample so far, so a
\* sample of 0 leaves the next one to be the first.
RttUpdate(rtt, sample) ==
    IF rtt = 0 THEN sample ELSE SmoothValue(rtt, sample, RttFactor)

\* The estimate after the samples that the bits in order give.
Measure(c, a, order) ==
    LET sample(rtt, i) ==
            RttUpdate(rtt, c.time - Sent!Find(c.sent, AckSequence(a, i)).time)
    IN  FoldLeft(sample, c.rtt, order)

\* Bug: an ack the buffer has no room for is not noted at all.
ProcessAcksUnlessFull(c, a) ==
    LET all   == Ascending(NewlyAcked(c, a))
        room  == AckBufRoom - Len(c.ack_buf)
        order == IF Len(all) <= room THEN all ELSE SubSeq(all, 1, room)
    IN  [c EXCEPT !.sent = FlagAcked(@, a, ToSet(order)),
                  !.ack_buf = @ \o Acks(c, a, order),
                  !.counters.packets_acked = @ + Len(order),
                  !.rtt = Measure(c, a, order)]

\* process_acks(): the flags, the bounded ack buffer, the counter and the RTT.
\* An ack the buffer has no room for is dropped but still flagged, counted and
\* measured.
ProcessAcks(c, a) ==
    LET new   == NewlyAcked(c, a)
        order == Ascending(new)
    IN  [c EXCEPT !.sent = FlagAcked(@, a, new),
                  !.ack_buf = WriteAll(@, AckBufRoom, Acks(c, a, order)),
                  !.counters.packets_acked = @ + Len(order),
                  !.rtt = Measure(c, a, order)]

\* A packet received, recorded for the ack bits of the packets to come.
Record(c, seq, id, bytes) ==
    [c EXCEPT !.received = Received!Insert(@, seq,
                  [id |-> id, time |-> c.time, packet_bytes |-> PacketHeaderSize + bytes]),
              !.counters.packets_received = @ + 1]

\* A regular packet counts with its header, a reassembled one without.
RecordRegular(c, d) == Record(c, d.sequence, d.id, WireHeader + Len(d.payload))

Stale(c, seq) == ~Received!CanInsert(c.received, seq)

Duplicate(c, seq) == Received!Exists(c.received, seq)

\* Bug: no duplicate test.
ReceiveRegularUnchecked(c, d) ==
    IF Stale(c, d.sequence)
    THEN [c EXCEPT !.counters.packets_stale = @ + 1]
    ELSE [ProcessAcks(RecordRegular(c, d), d.header) EXCEPT
              !.incoming = IF d.payload = << >> THEN @ ELSE
                  WriteAll(@, IncomingSize,
                      <<[sequence |-> d.sequence, payload |-> d.payload]>>)]

\* receive_regular_packet() of a well-formed packet.  The packet is recorded,
\* hence acknowledged to its sender, even if the incoming queue is full.
ReceiveRegularPacket(c, d) ==
    IF Stale(c, d.sequence) \/ Duplicate(c, d.sequence)
    THEN [c EXCEPT !.counters.packets_stale = @ + 1]
    ELSE [ProcessAcks(RecordRegular(c, d), d.header) EXCEPT
              !.incoming = IF d.payload = << >> THEN @ ELSE
                  WriteAll(@, IncomingSize,
                      <<[sequence |-> d.sequence, payload |-> d.payload]>>)]

\* Bug: a completed packet is recorded although the queue dropped it.
ReceiveFragmentRecordsDropped(c, d) ==
    LET c1 == [c EXCEPT !.counters.fragments_received = @ + 1]
        c2 == IF d.fragment_id = 0 THEN ProcessAcks(c1, d.header) ELSE c1
        p  == ProcessFragment(c2.reassembly, d)
        c3 == [c2 EXCEPT !.reassembly = p.reassembly]
        payload == CopyTo(p.reassembly.slots[Tracker!Index(d.sequence)])
    IN  IF p.complete
        THEN [Record(c3, d.sequence, d.id, Len(payload)) EXCEPT !.incoming =
                  WriteAll(@, IncomingSize,
                      <<[sequence |-> d.sequence, payload |-> payload]>>)]
        ELSE c3

\* receive_fragment() of a well-formed fragment.  Its acks count whatever
\* becomes of the fragment.  A completed packet is delivered, recorded and
\* counted only if the incoming queue has room.
ReceiveFragment(c, d) ==
    LET c1 == [c EXCEPT !.counters.fragments_received = @ + 1]
        c2 == IF d.fragment_id = 0 THEN ProcessAcks(c1, d.header) ELSE c1
        p  == ProcessFragment(c2.reassembly, d)
        c3 == [c2 EXCEPT !.reassembly = p.reassembly]
        payload == CopyTo(p.reassembly.slots[Tracker!Index(d.sequence)])
    IN  IF p.complete /\ Len(c.incoming) < IncomingSize
        THEN [Record(c3, d.sequence, d.id, Len(payload)) EXCEPT !.incoming =
                  Append(@, [sequence |-> d.sequence, payload |-> payload])]
        ELSE c3

\* receive_packet() of what a peer sent.
ReceivePacket(c, d) ==
    IF d.kind = "fragment" THEN ReceiveFragment(c, d) ELSE ReceiveRegularPacket(c, d)

\* Fragments whose header parses but makes no sense to this endpoint.
ForeignFragments ==
    {[kind |-> "fragment", sequence |-> 0, fragment_id |-> 1, num_fragments |-> n,
      header |-> NoHeader, chunk |-> NoChunk, id |-> 0] : n \in {0, 1, MaxFragments + 1}}

\* receive_packet() of a datagram no peer sent: too long, or with a header
\* that does not parse.  (An empty one changes nothing.)
StrayKinds == {"too_large", "packet_header", "fragment_header", "first_fragment"}

ReceiveStray(c, kind) ==
    CASE kind = "too_large" ->
            [c EXCEPT !.counters.packets_too_large_to_receive = @ + 1]
      [] kind = "packet_header" ->
            [c EXCEPT !.counters.packets_invalid = @ + 1]
      [] kind = "fragment_header" ->
            [c EXCEPT !.counters.fragments_invalid = @ + 1]
      [] kind = "first_fragment" ->
            [c EXCEPT !.counters.fragments_received = @ + 1,
                      !.counters.fragments_invalid = @ + 1]

--------------------------------------------------------------------------------
(* Draining, acks and reset *)

DrainOutgoing(c) == [c EXCEPT !.outgoing = << >>]

DrainIncoming(c) == [c EXCEPT !.incoming = << >>]

ClearAcks(c) == [c EXCEPT !.ack_buf = << >>]

\* Bug: the received packets survive a reset.
ResetEndpointKeepsReceived(c) ==
    [NewEndpoint EXCEPT !.time = c.time,
                        !.reassembly = ResetReassembly(c.reassembly),
                        !.received = c.received]

\* reset(): everything but the time and the reassembly slots.
ResetEndpoint(c) ==
    [NewEndpoint EXCEPT !.time = c.time,
                        !.reassembly = ResetReassembly(c.reassembly)]

================================================================================
