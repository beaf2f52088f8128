---------------------------- MODULE EndpointLemmas ----------------------------
(***************************************************************************)
(* What the operations of an endpoint do to each of its fields, for every  *)
(* configuration.                                                          *)
(***************************************************************************)
EXTENDS Endpoint, SequenceTheorems, FiniteSetTheorems, TLAPS

SentL     == INSTANCE SeqBufferLemmas WITH Size <- SentSize
ReceivedL == INSTANCE SeqBufferLemmas WITH Size <- ReceivedSize
TrackerL  == INSTANCE SeqBufferLemmas WITH Size <- ReassemblySize, AckWidth <- 0

--------------------------------------------------------------------------------
(* What the proofs need to know of % beyond linear arithmetic *)

\* Division with remainder, as the provers need it.
LEMMA DivMod ==
    \A x \in Int, n \in Nat \ {0} :
        /\ x \div n \in Int
        /\ x % n \in 0 .. (n - 1)
        /\ x = n * (x \div n) + (x % n)
  OBVIOUS

\* A remainder is unique.
LEMMA ModUnique ==
    \A q \in Int, r \in Int, n \in Nat \ {0} :
        0 <= r /\ r < n => (q * n + r) % n = r
  OBVIOUS

\* Numbers less than n apart have different remainders.
LEMMA ModInjective ==
    ASSUME NEW x \in Int, NEW y \in Int, NEW n \in Nat \ {0},
           y <= x, x - y < n, x % n = y % n
    PROVE  x = y
<1> DEFINE q1 == x \div n
           q2 == y \div n
           r == x % n
<1>1. /\ q1 \in Int /\ q2 \in Int /\ r \in Int
      /\ x = n * q1 + r /\ y = n * q2 + r
  BY DivMod
<1> HIDE DEF q1, q2, r
<1>2. x - y = n * (q1 - q2)
  BY <1>1
<1>3. CASE q1 = q2
  BY <1>1, <1>3
<1>4. CASE q1 < q2
  BY <1>1, <1>2, <1>4
<1>5. CASE q1 > q2
  BY <1>1, <1>2, <1>5
<1> QED BY <1>1, <1>3, <1>4, <1>5

--------------------------------------------------------------------------------

\* The endpoint c with its tracked state replaced.
Endpoint(c, sequence, sent, received, reassembly, outgoing, incoming, ack_buf,
         counters, rtt) ==
    [time |-> c.time, sequence |-> sequence, ack_buf |-> ack_buf,
     counters |-> counters, rtt |-> rtt, packet_loss |-> c.packet_loss,
     sent_bandwidth |-> c.sent_bandwidth,
     received_bandwidth |-> c.received_bandwidth,
     acked_bandwidth |-> c.acked_bandwidth, sent |-> sent,
     received |-> received, reassembly |-> reassembly,
     outgoing |-> outgoing, incoming |-> incoming]

\* c has the fields of an endpoint.
EndpointRecord(c) ==
    c = Endpoint(c, c.sequence, c.sent, c.received, c.reassembly, c.outgoing,
                 c.incoming, c.ack_buf, c.counters, c.rtt)

\* The statistics.
Counters == [DOMAIN ZeroCounters -> Nat]

\* The names of the counters.
LEMMA CounterNames ==
    DOMAIN ZeroCounters =
        {"packets_sent", "packets_received", "packets_acked", "packets_stale",
         "packets_invalid", "packets_too_large_to_send",
         "packets_too_large_to_receive", "fragments_sent", "fragments_received",
         "fragments_invalid"}
  BY DEF ZeroCounters

\* Counting keeps the counters natural numbers, and only one counter counts the
\* packets received.
LEMMA CounterStep ==
    ASSUME NEW k \in Counters, NEW n \in Nat
    PROVE  /\ k.packets_received \in Nat
           /\ [k EXCEPT !.packets_received = @ + n] \in Counters
           /\ [k EXCEPT !.packets_received = @ + n].packets_received = k.packets_received + n
           /\ [k EXCEPT !.packets_stale = @ + n] \in Counters
           /\ [k EXCEPT !.packets_stale = @ + n].packets_received = k.packets_received
           /\ [k EXCEPT !.packets_acked = @ + n] \in Counters
           /\ [k EXCEPT !.packets_acked = @ + n].packets_received = k.packets_received
           /\ [k EXCEPT !.fragments_received = @ + n] \in Counters
           /\ [k EXCEPT !.fragments_received = @ + n].packets_received = k.packets_received
<1> DEFINE N == DOMAIN ZeroCounters
<1>1. /\ "packets_received" \in N /\ "packets_stale" \in N
      /\ "packets_acked" \in N /\ "fragments_received" \in N
  BY CounterNames
<1> HIDE DEF N
<1>2. k \in [N -> Nat]
  BY DEF Counters, N
<1>3. k.packets_received \in Nat
  BY <1>1, <1>2
<1>4. [k EXCEPT !.packets_received = @ + n] \in [N -> Nat]
  BY <1>1, <1>2
<1>5. [k EXCEPT !.packets_received = @ + n].packets_received = k.packets_received + n
  BY <1>1, <1>2
<1>6. [k EXCEPT !.packets_stale = @ + n] \in [N -> Nat]
  BY <1>1, <1>2
<1>7. [k EXCEPT !.packets_stale = @ + n].packets_received = k.packets_received
  BY <1>1, <1>2
<1>8. [k EXCEPT !.packets_acked = @ + n] \in [N -> Nat]
  BY <1>1, <1>2
<1>9. [k EXCEPT !.packets_acked = @ + n].packets_received = k.packets_received
  BY <1>1, <1>2
<1>10. [k EXCEPT !.fragments_received = @ + n] \in [N -> Nat]
  BY <1>1, <1>2
<1>11. [k EXCEPT !.fragments_received = @ + n].packets_received = k.packets_received
  BY <1>1, <1>2
<1> QED BY <1>3, <1>4, <1>5, <1>6, <1>7, <1>8, <1>9, <1>10, <1>11, Zenon DEF Counters, N

\* An endpoint so made has the fields it was made with.
LEMMA EndpointFields ==
    ASSUME NEW c, NEW sequence, NEW sent, NEW received, NEW reassembly, NEW outgoing,
           NEW incoming, NEW ack_buf, NEW counters, NEW rtt, NEW c1,
           c1 = Endpoint(c, sequence, sent, received, reassembly, outgoing, incoming,
                         ack_buf, counters, rtt)
    PROVE  /\ EndpointRecord(c1)
           /\ c1.time = c.time
           /\ c1.sequence = sequence
           /\ c1.sent = sent
           /\ c1.received = received
           /\ c1.reassembly = reassembly
           /\ c1.outgoing = outgoing
           /\ c1.incoming = incoming
           /\ c1.ack_buf = ack_buf
           /\ c1.counters = counters
           /\ c1.rtt = rtt
  BY DEF EndpointRecord, Endpoint

\* Draining the outgoing queue empties it and changes nothing else.
LEMMA DrainOutgoingFields ==
    ASSUME NEW c, EndpointRecord(c)
    PROVE  DrainOutgoing(c) =
               Endpoint(c, c.sequence, c.sent, c.received, c.reassembly, << >>,
                        c.incoming, c.ack_buf, c.counters, c.rtt)
  BY DEF EndpointRecord, Endpoint, DrainOutgoing

\* Draining the incoming queue empties it and changes nothing else.
LEMMA DrainIncomingFields ==
    ASSUME NEW c, EndpointRecord(c)
    PROVE  DrainIncoming(c) =
               Endpoint(c, c.sequence, c.sent, c.received, c.reassembly, c.outgoing,
                        << >>, c.ack_buf, c.counters, c.rtt)
  BY DEF EndpointRecord, Endpoint, DrainIncoming

\* clear_acks() empties the ack buffer and changes nothing else.
LEMMA ClearAcksFields ==
    ASSUME NEW c, EndpointRecord(c)
    PROVE  ClearAcks(c) =
               Endpoint(c, c.sequence, c.sent, c.received, c.reassembly, c.outgoing,
                        c.incoming, << >>, c.counters, c.rtt)
  BY DEF EndpointRecord, Endpoint, ClearAcks

\* Counting one event changes nothing but that counter.
LEMMA CountFields ==
    ASSUME NEW c, EndpointRecord(c), NEW f, NEW n
    PROVE  [c EXCEPT !.counters[f] = @ + n] =
               Endpoint(c, c.sequence, c.sent, c.received, c.reassembly, c.outgoing,
                        c.incoming, c.ack_buf, [c.counters EXCEPT ![f] = @ + n], c.rtt)
  BY DEF EndpointRecord, Endpoint

\* process_acks() changes the tracked packets, the ack buffer, a counter and the RTT.
LEMMA ProcessAcksFields ==
    ASSUME NEW c, EndpointRecord(c), NEW a
    PROVE  ProcessAcks(c, a) =
               Endpoint(c, c.sequence, FlagAcked(c.sent, a, NewlyAcked(c, a)),
                        c.received, c.reassembly, c.outgoing, c.incoming,
                        WriteAll(c.ack_buf, AckBufRoom,
                                 Acks(c, a, Ascending(NewlyAcked(c, a)))),
                        [c.counters EXCEPT !.packets_acked =
                            @ + Len(Ascending(NewlyAcked(c, a)))],
                        Measure(c, a, Ascending(NewlyAcked(c, a))))
<1> DEFINE new == NewlyAcked(c, a)
           order == Ascending(new)
           x == FlagAcked(c.sent, a, new)
           q == WriteAll(c.ack_buf, AckBufRoom, Acks(c, a, order))
           k == [c.counters EXCEPT !.packets_acked = @ + Len(order)]
           r == Measure(c, a, order)
<1>1. ASSUME NEW d, d = ProcessAcks(c, a)
      PROVE  d = [c EXCEPT !.sent = x, !.ack_buf = q, !.counters = k, !.rtt = r]
  <2> HIDE DEF r, order
  <2> QED BY <1>1, Zenon DEF ProcessAcks, r, order
<1> HIDE DEF x, q, k, r
<1>2. ASSUME NEW d, d = [c EXCEPT !.sent = x, !.ack_buf = q, !.counters = k, !.rtt = r]
      PROVE  d = Endpoint(c, c.sequence, x, c.received, c.reassembly, c.outgoing,
                          c.incoming, q, k, r)
  BY <1>2 DEF EndpointRecord, Endpoint
<1> QED BY <1>1, <1>2 DEF x, q, k, r

\* A packet recorded changes the received packets and a counter.
LEMMA RecordFields ==
    ASSUME NEW c, EndpointRecord(c), NEW seq, NEW id, NEW bytes
    PROVE  Record(c, seq, id, bytes) =
               Endpoint(c, c.sequence, c.sent,
                        Received!Insert(c.received, seq,
                            [id |-> id, time |-> c.time,
                             packet_bytes |-> PacketHeaderSize + bytes]),
                        c.reassembly, c.outgoing, c.incoming, c.ack_buf,
                        [c.counters EXCEPT !.packets_received = @ + 1], c.rtt)
<1> DEFINE data == [id |-> id, time |-> c.time, packet_bytes |-> PacketHeaderSize + bytes]
           received == Received!Insert(c.received, seq, data)
           k == [c.counters EXCEPT !.packets_received = @ + 1]
<1>1. ASSUME NEW d, d = Record(c, seq, id, bytes)
      PROVE  d = [c EXCEPT !.received = received, !.counters = k]
  BY <1>1 DEF Record
<1> HIDE DEF received, k
<1>2. ASSUME NEW d, d = [c EXCEPT !.received = received, !.counters = k]
      PROVE  d = Endpoint(c, c.sequence, c.sent, received, c.reassembly, c.outgoing,
                          c.incoming, c.ack_buf, k, c.rtt)
  BY <1>2 DEF EndpointRecord, Endpoint
<1> QED BY <1>1, <1>2 DEF received, k

--------------------------------------------------------------------------------
(* Sending *)

\* The datagrams of a packet that is sent.
Datagrams(c, id, len) ==
    IF len > FragmentAbove
    THEN [k \in 1 .. len |-> Fragment(c.sequence, AckHeader(c), id, len, k - 1)]
    ELSE <<RegularPacket(c.sequence, AckHeader(c), id, len)>>

\* What is tracked of a packet that is sent.
Tracked(c, id, len) == [acked |-> FALSE, time |-> c.time, id |-> id, len |-> len]

\* c1 is c after it sent packet id: the packet is tracked under the next sequence
\* number, and its datagrams are queued unless it takes too many.
Sends(c, id, len, c1) ==
    /\ EndpointRecord(c1)
    /\ c1.time = c.time
    /\ c1.sequence = WrappingAdd(c.sequence, 1)
    /\ c1.sent = Sent!Insert(c.sent, c.sequence, Tracked(c, id, len))
    /\ c1.received = c.received
    /\ c1.reassembly = c.reassembly
    /\ \/ c1.outgoing = c.outgoing
       \/ /\ c1.outgoing = WriteAll(c.outgoing, OutgoingSize, Datagrams(c, id, len))
          /\ len > FragmentAbove => len <= MaxFragments
    /\ c1.incoming = c.incoming
    /\ c1.ack_buf = c.ack_buf
    /\ c1.counters \in Counters

\* send_packet() of a packet that is not too large.
LEMMA SendFields ==
    ASSUME NEW c, EndpointRecord(c), c.counters \in Counters,
           NEW id, NEW len \in Nat, len <= MaxPacketSize
    PROVE  Sends(c, id, len, SendPacket(c, id, len))
<1> DEFINE seq == c.sequence
           a == AckHeader(c)
           next == WrappingAdd(seq, 1)
           x == Sent!Insert(c.sent, seq, Tracked(c, id, len))
           k == [c.counters EXCEPT !.packets_sent = @ + 1]
           c1 == [c EXCEPT !.sequence = next, !.sent = x, !.counters = k]
           c2 == Endpoint(c, next, x, c.received, c.reassembly, c.outgoing,
                          c.incoming, c.ack_buf, k, c.rtt)
           q == WriteAll(c.outgoing, OutgoingSize, Datagrams(c, id, len))
<1>0. ~(len > MaxPacketSize)
  BY LimitAssumption
<1>1. SendPacket(c, id, len) = IF len > FragmentAbove
                               THEN SendFragmentedPacket(c1, seq, a, id, len)
                               ELSE SendRegularPacket(c1, seq, a, id, len)
  BY <1>0 DEF SendPacket, Tracked
<1>2. k \in Counters
  BY CounterNames DEF Counters
<1> HIDE DEF k, x, next
<1>3. c1 = c2
  <2> SUFFICES ASSUME NEW d, d = c1 PROVE d = c2
    BY Zenon
  <2> QED BY DEF EndpointRecord, Endpoint
<1> HIDE DEF c1, c2
<1>4. /\ EndpointRecord(c2) /\ c2.time = c.time /\ c2.sequence = next /\ c2.sent = x
      /\ c2.received = c.received /\ c2.reassembly = c.reassembly
      /\ c2.outgoing = c.outgoing /\ c2.incoming = c.incoming
      /\ c2.ack_buf = c.ack_buf /\ c2.counters = k
  BY EndpointFields DEF c2
<1>5. CASE ~(len > FragmentAbove)
  <2>1. q = WriteAll(c2.outgoing, OutgoingSize, <<RegularPacket(seq, a, id, len)>>)
    BY <1>4, <1>5 DEF Datagrams
  <2>2. SendPacket(c, id, len) = [c2 EXCEPT !.outgoing = q]
    BY <1>1, <1>3, <1>5, <2>1 DEF SendRegularPacket
  <2>3. [c2 EXCEPT !.outgoing = q] =
            Endpoint(c2, c2.sequence, c2.sent, c2.received, c2.reassembly, q,
                     c2.incoming, c2.ack_buf, c2.counters, c2.rtt)
    BY <1>4 DEF EndpointRecord, Endpoint
  <2> QED BY <1>2, <1>4, <1>5, <2>2, <2>3, EndpointFields DEF Sends, next, x
<1>6. CASE len > FragmentAbove /\ (len > MaxFragments \/ len > WireFragments)
  <2>1. SendPacket(c, id, len) = c2
    BY <1>1, <1>3, <1>6 DEF SendFragmentedPacket
  <2> QED BY <1>2, <1>4, <2>1 DEF Sends, next, x
<1>7. CASE len > FragmentAbove /\ ~(len > MaxFragments \/ len > WireFragments)
  <2> DEFINE k2 == [c2.counters EXCEPT !.fragments_sent = @ + len]
  <2>1. q = WriteAll(c2.outgoing, OutgoingSize,
                     [j \in 1 .. len |-> Fragment(seq, a, id, len, j - 1)])
    BY <1>4, <1>7 DEF Datagrams
  <2>2. SendPacket(c, id, len) = [c2 EXCEPT !.outgoing = q, !.counters = k2]
    BY <1>1, <1>3, <1>7, <2>1 DEF SendFragmentedPacket
  <2>3. k2 \in Counters
    BY <1>2, <1>4, CounterNames DEF Counters
  <2> HIDE DEF k2, q
  <2>4. ASSUME NEW d, d = [c2 EXCEPT !.outgoing = q, !.counters = k2]
        PROVE  d = Endpoint(c2, c2.sequence, c2.sent, c2.received, c2.reassembly, q,
                            c2.incoming, c2.ack_buf, k2, c2.rtt)
    BY <1>4, <2>4 DEF EndpointRecord, Endpoint
  <2>5. len <= MaxFragments
    BY <1>7, ReassemblyAssumption
  <2> QED BY <1>4, <2>2, <2>3, <2>4, <2>5, EndpointFields DEF Sends, next, x, q
<1> QED BY <1>5, <1>6, <1>7

\* send_packet() of a packet that is too large only counts it.
LEMMA SendTooLargeFields ==
    ASSUME NEW c, EndpointRecord(c), NEW id
    PROVE  SendPacket(c, id, MaxPacketSize + 1) =
               Endpoint(c, c.sequence, c.sent, c.received, c.reassembly, c.outgoing,
                        c.incoming, c.ack_buf,
                        [c.counters EXCEPT !.packets_too_large_to_send = @ + 1], c.rtt)
<1> DEFINE k == [c.counters EXCEPT !.packets_too_large_to_send = @ + 1]
<1>1. MaxPacketSize + 1 > MaxPacketSize
  BY LimitAssumption
<1>2. SendPacket(c, id, MaxPacketSize + 1) = [c EXCEPT !.counters = k]
  BY <1>1 DEF SendPacket
<1> HIDE DEF k
<1>3. [c EXCEPT !.counters = k] =
          Endpoint(c, c.sequence, c.sent, c.received, c.reassembly, c.outgoing,
                   c.incoming, c.ack_buf, k, c.rtt)
  BY DEF EndpointRecord, Endpoint
<1> QED BY <1>2, <1>3 DEF k

--------------------------------------------------------------------------------
(* Receiving *)

\* The number of bits that acknowledge a packet for the first time is finite.
LEMMA NewlyAckedFinite ==
    ASSUME NEW c, NEW a
    PROVE  /\ IsFiniteSet(NewlyAcked(c, a))
           /\ Cardinality(NewlyAcked(c, a)) \in Nat
           /\ Cardinality(NewlyAcked(c, a)) <= AckWidth
           /\ Len(Ascending(NewlyAcked(c, a))) = Cardinality(NewlyAcked(c, a))
<1>1. AckWidth \in Nat
  BY LimitAssumption
<1>2. /\ IsFiniteSet(0 .. (AckWidth - 1))
      /\ Cardinality(0 .. (AckWidth - 1)) = AckWidth
  BY <1>1, FS_Interval
<1>3. NewlyAcked(c, a) \subseteq 0 .. (AckWidth - 1)
  BY DEF NewlyAcked
<1>4. /\ IsFiniteSet(NewlyAcked(c, a))
      /\ Cardinality(NewlyAcked(c, a)) <= AckWidth
  BY <1>2, <1>3, FS_Subset, ZenonT(60)
<1>5. Cardinality(NewlyAcked(c, a)) \in Nat
  BY <1>4, FS_CardinalityType
<1> HIDE DEF NewlyAcked
<1> QED BY <1>4, <1>5 DEF Ascending

\* The ascending order puts every number of a set in the place its rank says.
LEMMA AscendingRanks ==
    ASSUME NEW S, S \subseteq Int, IsFiniteSet(S)
    PROVE  /\ Cardinality(S) \in Nat
           /\ Ascending(S) \in [1 .. Cardinality(S) -> S]
           /\ \A j \in 1 .. Cardinality(S) : Cardinality({k \in S : k <= Ascending(S)[j]}) = j
           /\ \A i, j \in 1 .. Cardinality(S) : Ascending(S)[i] = Ascending(S)[j] => i = j
           /\ \A k \in S : \E j \in 1 .. Cardinality(S) : Ascending(S)[j] = k
<1> DEFINE n == Cardinality(S)
           upto(i) == {k \in S : k <= i}
           rank == [i \in S |-> Cardinality(upto(i))]
           order == Ascending(S)
<1>1. n \in Nat /\ IsFiniteSet(1 .. n) /\ Cardinality(1 .. n) = n
  BY FS_CardinalityType, FS_Interval
<1>2. ASSUME NEW i \in S
      PROVE  IsFiniteSet(upto(i)) /\ Cardinality(upto(i)) \in 1 .. n
  <2>1. IsFiniteSet(upto(i)) /\ Cardinality(upto(i)) <= n
    <3>1. upto(i) \in SUBSET S
      OBVIOUS
    <3> HIDE DEF upto
    <3> QED BY <3>1, FS_Subset
  <2>2. Cardinality(upto(i)) \in Nat
    BY <2>1, FS_CardinalityType
  <2>3. i \in upto(i)
    OBVIOUS
  <2>4. upto(i) # {}
    BY <2>3
  <2>5. Cardinality(upto(i)) # 0
    <3> HIDE DEF upto
    <3> QED BY <2>1, <2>4, FS_EmptySet
  <2> QED BY <2>1, <2>2, <2>5, <1>1
<1>3. ASSUME NEW i \in S, NEW j \in S, Cardinality(upto(i)) = Cardinality(upto(j)), i < j
      PROVE  FALSE
  <2>1. upto(i) \in SUBSET upto(j)
    <3>1. ASSUME NEW k \in S, k <= i PROVE k <= j
      <4>1. k \in Int /\ i \in Int /\ j \in Int
        OBVIOUS
      <4> QED BY <4>1, <3>1, <1>3
    <3> QED BY <3>1
  <2>2. j \in upto(j) /\ j \notin upto(i)
    BY <1>3
  <2>3. upto(j) = upto(i)
    <3> HIDE DEF upto
    <3> QED BY <1>2, <1>3, <2>1, FS_Subset
  <2> QED BY <2>2, <2>3
<1>4. rank \in [S -> 1 .. n] /\ \A i \in S : rank[i] = Cardinality(upto(i))
  BY <1>2
<1>5. \A i, j \in S : rank[i] = rank[j] => i = j
  <2> TAKE i, j \in S
  <2> HAVE rank[i] = rank[j]
  <2>1. Cardinality(upto(i)) = Cardinality(upto(j))
    BY <1>4
  <2>2. i < j \/ j < i \/ i = j
    OBVIOUS
  <2> HIDE DEF upto
  <2> QED BY <2>1, <2>2, <1>3
<1>6. \A j \in 1 .. n : \E i \in S : rank[i] = j
  <2> HIDE DEF rank
  <2>1. rank \in Injection(S, 1 .. n)
    BY <1>4, <1>5 DEF Injection, IsInjective
  <2>2. rank \in Surjection(S, 1 .. n)
    <3> HIDE DEF n
    <3> QED BY <1>1, <2>1, FS_Injection DEF n
  <2> QED BY <2>2 DEF Surjection
<1>7. /\ order = [j \in 1 .. n |-> CHOOSE i \in S : Cardinality(upto(i)) = j]
  BY DEF Ascending
<1>8. \A j \in 1 .. n : order[j] \in S /\ rank[order[j]] = j
  <2> TAKE j \in 1 .. n
  <2>1. order[j] = CHOOSE i \in S : Cardinality(upto(i)) = j
    BY <1>7
  <2>2. \E i \in S : Cardinality(upto(i)) = j
    BY <1>4, <1>6
  <2> HIDE DEF upto, order, n
  <2>3. order[j] \in S /\ Cardinality(upto(order[j])) = j
    BY <2>1, <2>2
  <2> QED BY <2>3, <1>4
<1>9. \A j \in 1 .. n : Cardinality(upto(order[j])) = j
  BY <1>4, <1>8
<1> HIDE DEF rank, upto
<1>10. order \in [1 .. n -> S]
  BY <1>7, <1>8
<1> HIDE DEF order
<1>11. \A i, j \in 1 .. n : order[i] = order[j] => i = j
  BY <1>8
<1>12. \A k \in S : \E j \in 1 .. n : order[j] = k
  BY <1>4, <1>5, <1>8
<1> QED BY <1>1, <1>9, <1>10, <1>11, <1>12 DEF order, upto

\* The loop over the bits meets each of them once.
LEMMA AscendingFacts ==
    ASSUME NEW S, S \subseteq Int, IsFiniteSet(S)
    PROVE  /\ Cardinality(S) \in Nat
           /\ Ascending(S) \in [1 .. Cardinality(S) -> S]
           /\ \A i, j \in 1 .. Cardinality(S) : Ascending(S)[i] = Ascending(S)[j] => i = j
           /\ \A k \in S : \E j \in 1 .. Cardinality(S) : Ascending(S)[j] = k
  BY AscendingRanks

\* Writing items into a bounded queue: what was there stays, in front, and what is
\* new is one of the items.
LEMMA WriteAllFacts ==
    ASSUME NEW T, NEW q \in Seq(T), NEW items \in Seq(T), NEW cap \in Nat, Len(q) <= cap
    PROVE  LET w == WriteAll(q, cap, items) IN
           /\ w \in Seq(T)
           /\ Len(w) <= cap
           /\ Len(q) <= Len(w)
           /\ Len(w) <= Len(q) + Len(items)
           /\ \A i \in 1 .. Len(q) : w[i] = q[i]
           /\ \A i \in 1 .. Len(w) : i > Len(q) =>
                  i - Len(q) \in 1 .. Len(items) /\ w[i] = items[i - Len(q)]
<1> DEFINE all == q \o items
           w == WriteAll(q, cap, items)
<1>1. /\ Len(q) \in Nat /\ Len(items) \in Nat /\ all \in Seq(T)
      /\ Len(all) = Len(q) + Len(items)
      /\ \A i \in 1 .. Len(q) : all[i] = q[i]
      /\ \A i \in 1 .. Len(all) : i > Len(q) => all[i] = items[i - Len(q)]
  OBVIOUS
<1> HIDE DEF all
<1>2. CASE Len(all) <= cap
  <2>1. w = all
    BY <1>2 DEF WriteAll, all
  <2> QED BY <1>1, <1>2, <2>1
<1>3. CASE ~(Len(all) <= cap)
  <2>1. w = SubSeq(all, 1, cap)
    BY <1>3 DEF WriteAll, all
  <2>2. /\ w \in Seq(T) /\ Len(w) = cap
        /\ \A i \in 1 .. cap : w[i] = all[i]
    BY <1>1, <1>3, <2>1
  <2> HIDE DEF w
  <2> QED BY <1>1, <1>3, <2>2 DEF w
<1> QED BY <1>2, <1>3

\* Writing one item: it is appended if there is room for it and dropped if not.
LEMMA WriteOne ==
    ASSUME NEW T, NEW q \in Seq(T), NEW cap \in Nat, Len(q) <= cap, NEW x
    PROVE  WriteAll(q, cap, <<x>>) = IF Len(q) < cap THEN Append(q, x) ELSE q
<1> DEFINE all == q \o <<x>>
<1>1. /\ Len(q) \in Nat /\ Len(all) = Len(q) + 1
      /\ \A i \in 1 .. Len(q) : all[i] = q[i]
  OBVIOUS
<1>2. all = Append(q, x)
  OBVIOUS
<1>3. CASE Len(q) < cap
  BY <1>1, <1>2, <1>3 DEF WriteAll
<1>4. CASE Len(q) = cap
  <2>1. WriteAll(q, cap, <<x>>) = SubSeq(all, 1, cap)
    BY <1>1, <1>4 DEF WriteAll
  <2>2. SubSeq(all, 1, cap) = q
    BY <1>1, <1>4
  <2> QED BY <1>4, <2>1, <2>2
<1> QED BY <1>1, <1>3, <1>4

\* Which of the two kinds of datagram d is.
IsFragment(d) == d.kind = "fragment"

\* Whether the acks that come with datagram d are looked at.
TakesAcks(c, d) ==
    IF IsFragment(d) THEN d.fragment_id = 0
    ELSE ~Stale(c, d.sequence) /\ ~Duplicate(c, d.sequence)

\* Whether datagram d makes a packet that is recorded.
Records(c, d) ==
    IF IsFragment(d)
    THEN ProcessFragment(c.reassembly, d).complete /\ Len(c.incoming) < IncomingSize
    ELSE ~Stale(c, d.sequence) /\ ~Duplicate(c, d.sequence)

\* The payload of the packet that datagram d makes.
PayloadMade(c, d) ==
    IF IsFragment(d)
    THEN CopyTo(ProcessFragment(c.reassembly, d).reassembly.slots[Tracker!Index(d.sequence)])
    ELSE d.payload

\* What is recorded of the packet that datagram d makes.
Noted(c, d) ==
    [id |-> d.id, time |-> c.time,
     packet_bytes |-> PacketHeaderSize +
         IF IsFragment(d) THEN Len(PayloadMade(c, d)) ELSE WireHeader + Len(d.payload)]

\* What d adds to the incoming queue.
Item(c, d) == [sequence |-> d.sequence, payload |-> PayloadMade(c, d)]

\* Whether datagram d makes a packet that the application gets.
Delivers(c, d) ==
    /\ Records(c, d)
    /\ IsFragment(d) \/ d.payload # << >>
    /\ Len(c.incoming) < IncomingSize

\* The acks of header a, as the ack buffer gets them.
NewAcks(c, a) == Acks(c, a, Ascending(NewlyAcked(c, a)))

\* c1 is c after it received datagram d.
Receives(c, d, c1) ==
    /\ EndpointRecord(c1)
    /\ c1.time = c.time
    /\ c1.sequence = c.sequence
    /\ c1.outgoing = c.outgoing
    /\ c1.sent = IF TakesAcks(c, d)
                 THEN FlagAcked(c.sent, d.header, NewlyAcked(c, d.header)) ELSE c.sent
    /\ c1.ack_buf = IF TakesAcks(c, d)
                    THEN WriteAll(c.ack_buf, AckBufRoom, NewAcks(c, d.header)) ELSE c.ack_buf
    /\ c1.reassembly = IF IsFragment(d)
                       THEN ProcessFragment(c.reassembly, d).reassembly ELSE c.reassembly
    /\ c1.received = IF Records(c, d)
                     THEN Received!Insert(c.received, d.sequence, Noted(c, d)) ELSE c.received
    /\ c1.incoming = IF Delivers(c, d) THEN Append(c.incoming, Item(c, d)) ELSE c.incoming
    /\ c1.counters \in Counters
    /\ c1.counters.packets_received =
           c.counters.packets_received + (IF Records(c, d) THEN 1 ELSE 0)

\* receive_packet() of a packet in one datagram.
LEMMA ReceiveRegularFields ==
    ASSUME NEW c, EndpointRecord(c), c.counters \in Counters,
           NEW T, c.incoming \in Seq(T), Len(c.incoming) <= IncomingSize,
           NEW d, ~IsFragment(d)
    PROVE  Receives(c, d, ReceivePacket(c, d))
<1> DEFINE a == d.header
           new == NewlyAcked(c, a)
           item == [sequence |-> d.sequence, payload |-> d.payload]
           seen == Stale(c, d.sequence) \/ Duplicate(c, d.sequence)
           c1 == RecordRegular(c, d)
           c2 == ProcessAcks(c1, a)
           q == IF d.payload = << >> THEN c2.incoming
                ELSE WriteAll(c2.incoming, IncomingSize, <<item>>)
<1>0. /\ TakesAcks(c, d) <=> ~seen
      /\ Records(c, d) <=> ~seen
      /\ Delivers(c, d) <=> ~seen /\ d.payload # << >> /\ Len(c.incoming) < IncomingSize
      /\ Item(c, d) = item
  BY DEF TakesAcks, Records, Delivers, Item, PayloadMade
<1>1. ReceivePacket(c, d) = IF seen THEN [c EXCEPT !.counters.packets_stale = @ + 1]
                            ELSE [c2 EXCEPT !.incoming = q]
  BY DEF ReceivePacket, ReceiveRegularPacket, IsFragment
<1>2. CASE seen
  <2> DEFINE k == [c.counters EXCEPT !.packets_stale = @ + 1]
  <2>1. k \in Counters /\ k.packets_received = c.counters.packets_received
        /\ c.counters.packets_received \in Nat
    BY CounterStep
  <2>2. ReceivePacket(c, d) = [c EXCEPT !.counters = k]
    BY <1>1, <1>2
  <2> HIDE DEF k
  <2>3. [c EXCEPT !.counters = k] =
            Endpoint(c, c.sequence, c.sent, c.received, c.reassembly, c.outgoing,
                     c.incoming, c.ack_buf, k, c.rtt)
    BY DEF EndpointRecord, Endpoint
  <2>4. ~TakesAcks(c, d) /\ ~Records(c, d) /\ ~Delivers(c, d)
    BY <1>0, <1>2
  <2> QED BY <2>1, <2>2, <2>3, <2>4, EndpointFields DEF Receives
<1>3. CASE ~seen
  <2> DEFINE k1 == [c.counters EXCEPT !.packets_received = @ + 1]
             k2 == [c1.counters EXCEPT !.packets_acked = @ + Len(Ascending(NewlyAcked(c1, a)))]
             r == Received!Insert(c.received, d.sequence, Noted(c, d))
  <2>1. c1 = Endpoint(c, c.sequence, c.sent, r, c.reassembly, c.outgoing, c.incoming,
                      c.ack_buf, k1, c.rtt)
    BY RecordFields DEF RecordRegular, Noted
  <2> HIDE DEF c1, r, k1
  <2>2. /\ EndpointRecord(c1) /\ c1.time = c.time /\ c1.sequence = c.sequence
        /\ c1.sent = c.sent /\ c1.received = r /\ c1.reassembly = c.reassembly
        /\ c1.outgoing = c.outgoing /\ c1.incoming = c.incoming
        /\ c1.ack_buf = c.ack_buf /\ c1.counters = k1
    BY <2>1, EndpointFields
  <2>3. NewlyAcked(c1, a) = new /\ NewAcks(c1, a) = NewAcks(c, a)
    BY <2>2 DEF NewlyAcked, NewAcks, Acks
  <2>4. c2 = Endpoint(c1, c1.sequence, FlagAcked(c1.sent, a, NewlyAcked(c1, a)),
                      c1.received, c1.reassembly, c1.outgoing, c1.incoming,
                      WriteAll(c1.ack_buf, AckBufRoom, NewAcks(c1, a)), k2,
                      Measure(c1, a, Ascending(NewlyAcked(c1, a))))
    BY <2>2, ProcessAcksFields DEF NewAcks
  <2> HIDE DEF c2, k2
  <2>5. /\ EndpointRecord(c2) /\ c2.time = c.time /\ c2.sequence = c.sequence
        /\ c2.sent = FlagAcked(c.sent, a, new) /\ c2.received = r
        /\ c2.reassembly = c.reassembly /\ c2.outgoing = c.outgoing
        /\ c2.incoming = c.incoming
        /\ c2.ack_buf = WriteAll(c.ack_buf, AckBufRoom, NewAcks(c, a)) /\ c2.counters = k2
    BY <2>2, <2>3, <2>4, EndpointFields
  <2>6. k1 \in Counters /\ k1.packets_received = c.counters.packets_received + 1
    BY CounterStep DEF k1
  <2>7. k2 \in Counters /\ k2.packets_received = k1.packets_received
    <3>1. Len(Ascending(NewlyAcked(c1, a))) \in Nat
      BY NewlyAckedFinite
    <3> QED BY <2>2, <2>6, <3>1, CounterStep DEF k2
  <2>8. q = IF Delivers(c, d) THEN Append(c.incoming, Item(c, d)) ELSE c.incoming
    <3>1. IncomingSize \in Nat
      BY LimitAssumption
    <3>2. WriteAll(c.incoming, IncomingSize, <<item>>) =
              IF Len(c.incoming) < IncomingSize THEN Append(c.incoming, item) ELSE c.incoming
      BY <3>1, WriteOne
    <3> HIDE DEF item
    <3> QED BY <1>0, <1>3, <2>5, <3>2
  <2>9. ReceivePacket(c, d) = [c2 EXCEPT !.incoming = q]
    BY <1>1, <1>3
  <2> HIDE DEF q
  <2>10. [c2 EXCEPT !.incoming = q] =
            Endpoint(c2, c2.sequence, c2.sent, c2.received, c2.reassembly, c2.outgoing,
                     q, c2.ack_buf, c2.counters, c2.rtt)
    BY <2>5 DEF EndpointRecord, Endpoint
  <2>11. TakesAcks(c, d) /\ Records(c, d)
    BY <1>0, <1>3
  <2>12. ~IsFragment(d)
    OBVIOUS
  <2> DEFINE c3 == ReceivePacket(c, d)
  <2>13. /\ EndpointRecord(c3) /\ c3.time = c.time /\ c3.sequence = c.sequence
         /\ c3.sent = FlagAcked(c.sent, a, new) /\ c3.received = r
         /\ c3.reassembly = c.reassembly /\ c3.outgoing = c.outgoing
         /\ c3.incoming = q
         /\ c3.ack_buf = WriteAll(c.ack_buf, AckBufRoom, NewAcks(c, a)) /\ c3.counters = k2
    BY <2>5, <2>9, <2>10, EndpointFields
  <2> HIDE DEF c3
  <2> QED BY <2>6, <2>7, <2>8, <2>11, <2>12, <2>13 DEF Receives, r, c3
<1> QED BY <1>2, <1>3

\* receive_packet() of a fragment.
LEMMA ReceiveFragmentFields ==
    ASSUME NEW c, EndpointRecord(c), c.counters \in Counters, NEW d, IsFragment(d)
    PROVE  Receives(c, d, ReceivePacket(c, d))
<1> DEFINE a == d.header
           k1 == [c.counters EXCEPT !.fragments_received = @ + 1]
           c1 == [c EXCEPT !.counters = k1]
           c2 == IF d.fragment_id = 0 THEN ProcessAcks(c1, a) ELSE c1
           x == IF TakesAcks(c, d) THEN FlagAcked(c.sent, a, NewlyAcked(c, a)) ELSE c.sent
           q == IF TakesAcks(c, d) THEN WriteAll(c.ack_buf, AckBufRoom, NewAcks(c, a))
                ELSE c.ack_buf
           p == ProcessFragment(c.reassembly, d)
           f == p.reassembly
           c3 == [c2 EXCEPT !.reassembly = f]
<1>1. /\ k1 \in Counters /\ k1.packets_received = c.counters.packets_received
      /\ c.counters.packets_received \in Nat
  BY CounterStep
<1>2. TakesAcks(c, d) <=> d.fragment_id = 0
  BY DEF TakesAcks
<1>3. ReceivePacket(c, d) = ReceiveFragment(c, d)
  BY DEF ReceivePacket, IsFragment
<1>31. [c EXCEPT !.counters.fragments_received = @ + 1] = c1
  OBVIOUS
<1> HIDE DEF k1
<1>4. c1 = Endpoint(c, c.sequence, c.sent, c.received, c.reassembly, c.outgoing,
                    c.incoming, c.ack_buf, k1, c.rtt)
  BY DEF EndpointRecord, Endpoint
<1> HIDE DEF c1
<1>5. /\ EndpointRecord(c1) /\ c1.time = c.time /\ c1.sequence = c.sequence
      /\ c1.sent = c.sent /\ c1.received = c.received /\ c1.reassembly = c.reassembly
      /\ c1.outgoing = c.outgoing /\ c1.incoming = c.incoming
      /\ c1.ack_buf = c.ack_buf /\ c1.counters = k1
  BY <1>4, EndpointFields
<1>6. /\ EndpointRecord(c2) /\ c2.time = c.time /\ c2.sequence = c.sequence
      /\ c2.sent = x /\ c2.received = c.received /\ c2.reassembly = c.reassembly
      /\ c2.outgoing = c.outgoing /\ c2.incoming = c.incoming
      /\ c2.ack_buf = q /\ c2.counters \in Counters
      /\ c2.counters.packets_received = c.counters.packets_received
  <2>1. CASE d.fragment_id = 0
    <3> DEFINE k2 == [c1.counters EXCEPT !.packets_acked =
                         @ + Len(Ascending(NewlyAcked(c1, a)))]
    <3>1. NewlyAcked(c1, a) = NewlyAcked(c, a) /\ NewAcks(c1, a) = NewAcks(c, a)
      BY <1>5 DEF NewlyAcked, NewAcks, Acks
    <3>2. c2 = Endpoint(c1, c1.sequence, FlagAcked(c1.sent, a, NewlyAcked(c1, a)),
                        c1.received, c1.reassembly, c1.outgoing, c1.incoming,
                        WriteAll(c1.ack_buf, AckBufRoom, NewAcks(c1, a)), k2,
                        Measure(c1, a, Ascending(NewlyAcked(c1, a))))
      BY <1>5, <2>1, ProcessAcksFields DEF NewAcks
    <3>3. k2 \in Counters /\ k2.packets_received = k1.packets_received
      <4>1. Len(Ascending(NewlyAcked(c1, a))) \in Nat
        BY NewlyAckedFinite
      <4> QED BY <1>1, <1>5, <4>1, CounterStep
    <3> HIDE DEF c2, k2
    <3>4. x = FlagAcked(c.sent, a, NewlyAcked(c, a))
          /\ q = WriteAll(c.ack_buf, AckBufRoom, NewAcks(c, a))
      BY <1>2, <2>1
    <3> HIDE DEF x, q
    <3> QED BY <1>1, <1>5, <3>1, <3>2, <3>3, <3>4, EndpointFields
  <2>2. CASE d.fragment_id # 0
    BY <1>1, <1>2, <1>5, <2>2
  <2> QED BY <2>1, <2>2
<1> HIDE DEF c2, x, q
<1>7. c3 = Endpoint(c2, c2.sequence, c2.sent, c2.received, f, c2.outgoing,
                    c2.incoming, c2.ack_buf, c2.counters, c2.rtt)
  <2> HIDE DEF f
  <2> QED BY <1>6 DEF EndpointRecord, Endpoint
<1>8. ReceiveFragment(c, d) =
          IF p.complete /\ Len(c.incoming) < IncomingSize
          THEN [Record(c3, d.sequence, d.id, Len(PayloadMade(c, d))) EXCEPT !.incoming =
                   Append(@, Item(c, d))]
          ELSE c3
  <2> DEFINE c11 == [c EXCEPT !.counters.fragments_received = @ + 1]
             c12 == IF d.fragment_id = 0 THEN ProcessAcks(c11, d.header) ELSE c11
             p2 == ProcessFragment(c12.reassembly, d)
             c0 == [c12 EXCEPT !.reassembly = p2.reassembly]
             load == CopyTo(p2.reassembly.slots[Tracker!Index(d.sequence)])
  <2>1. ReceiveFragment(c, d) =
            IF p2.complete /\ Len(c.incoming) < IncomingSize
            THEN [Record(c0, d.sequence, d.id, Len(load)) EXCEPT !.incoming =
                      Append(@, [sequence |-> d.sequence, payload |-> load])]
            ELSE c0
    BY Zenon DEF ReceiveFragment
  <2>11. c12 = c2
    BY <1>31, Zenon DEF c2
  <2> HIDE DEF c12
  <2>2. p2 = p /\ c0 = c3
    BY <1>6, <2>11
  <2> HIDE DEF p
  <2>3. load = PayloadMade(c, d)
    BY <2>2, Zenon DEF PayloadMade, p
  <2> HIDE DEF p2, c0, c3, load
  <2> QED BY <2>1, <2>2, <2>3, Zenon DEF Item
<1> HIDE DEF c3, f
<1>9. /\ EndpointRecord(c3) /\ c3.time = c.time /\ c3.sequence = c.sequence
      /\ c3.sent = x /\ c3.received = c.received /\ c3.reassembly = f
      /\ c3.outgoing = c.outgoing /\ c3.incoming = c.incoming
      /\ c3.ack_buf = q /\ c3.counters \in Counters
      /\ c3.counters.packets_received = c.counters.packets_received
  BY <1>6, <1>7, EndpointFields
<1>10. CASE Records(c, d)
  <2> DEFINE k == [c3.counters EXCEPT !.packets_received = @ + 1]
             r == Received!Insert(c.received, d.sequence, Noted(c, d))
             c4 == Record(c3, d.sequence, d.id, Len(PayloadMade(c, d)))
             i == Append(c.incoming, Item(c, d))
  <2>1. c4 = Endpoint(c3, c3.sequence, c3.sent, r, c3.reassembly, c3.outgoing,
                      c3.incoming, c3.ack_buf, k, c3.rtt)
    BY <1>9, RecordFields DEF Noted
  <2>2. k \in Counters /\ k.packets_received = c.counters.packets_received + 1
    <3>1. c3.counters \in Counters
      BY <1>9
    <3>2. k \in Counters /\ k.packets_received = c3.counters.packets_received + 1
      BY <3>1, CounterStep
    <3> QED BY <1>9, <3>2
  <2> HIDE DEF c4, k, r
  <2>3. /\ EndpointRecord(c4) /\ c4.time = c.time /\ c4.sequence = c.sequence
        /\ c4.sent = x /\ c4.received = r /\ c4.reassembly = f
        /\ c4.outgoing = c.outgoing /\ c4.incoming = c.incoming
        /\ c4.ack_buf = q /\ c4.counters = k
    BY <1>9, <2>1, EndpointFields
  <2>4. ReceivePacket(c, d) = [c4 EXCEPT !.incoming = i]
    BY <1>3, <1>8, <1>10, <2>3 DEF Records, c4
  <2> HIDE DEF i
  <2>5. [c4 EXCEPT !.incoming = i] =
            Endpoint(c4, c4.sequence, c4.sent, c4.received, c4.reassembly, c4.outgoing,
                     i, c4.ack_buf, c4.counters, c4.rtt)
    BY <2>3 DEF EndpointRecord, Endpoint
  <2> DEFINE c5 == ReceivePacket(c, d)
  <2>6. /\ EndpointRecord(c5) /\ c5.time = c.time /\ c5.sequence = c.sequence
        /\ c5.sent = x /\ c5.received = r /\ c5.reassembly = f
        /\ c5.outgoing = c.outgoing /\ c5.incoming = i
        /\ c5.ack_buf = q /\ c5.counters = k
    BY <2>3, <2>4, <2>5, EndpointFields
  <2> HIDE DEF c5
  <2>7. Delivers(c, d)
    BY <1>10 DEF Delivers, Records
  <2> QED BY <1>10, <2>2, <2>6, <2>7, Zenon DEF Receives, r, c5, i, f, x, q
<1>11. CASE ~Records(c, d)
  <2>1. ReceivePacket(c, d) = c3
    BY <1>3, <1>8, <1>11 DEF Records
  <2>2. ~Delivers(c, d)
    BY <1>11 DEF Delivers
  <2>3. c3.counters.packets_received = c.counters.packets_received + 0
    BY <1>1, <1>9
  <2> QED BY <1>9, <1>11, <2>1, <2>2, <2>3, Zenon DEF Receives, f, x, q
<1> QED BY <1>10, <1>11

\* receive_packet() of any datagram.
LEMMA ReceiveFields ==
    ASSUME NEW c, EndpointRecord(c), c.counters \in Counters,
           NEW T, c.incoming \in Seq(T), Len(c.incoming) <= IncomingSize, NEW d
    PROVE  Receives(c, d, ReceivePacket(c, d))
  BY ReceiveRegularFields, ReceiveFragmentFields

--------------------------------------------------------------------------------
(* Reassembly *)

\* A slot of the reassembly buffer, used or not.
SlotStates ==
    [sequence : SeqNums, num_fragments : Nat, num_fragments_received : Nat,
     fragment_received : SUBSET Nat, chunks : [FragmentIds -> Chunks \cup {NoChunk}]]

\* The reassembly buffer.
Reassemblies ==
    [tracker : Tracker!Buffers({{}}), slots : [Tracker!Slots -> SlotStates]]

\* A slot that counts and holds exactly the fragments it has marked.
Consistent(slot) ==
    /\ slot.num_fragments <= MaxFragments
    /\ slot.fragment_received \subseteq 0 .. (slot.num_fragments - 1)
    /\ slot.num_fragments_received = Cardinality(slot.fragment_received)
    /\ \A k \in 0 .. (slot.num_fragments - 1) :
           k \in slot.fragment_received <=> slot.chunks[k] # NoChunk

\* Every tracked sequence has its own consistent slot, with some but not all of
\* its fragments.
Synced(r) ==
    \A i \in Tracker!Slots : r.tracker.entries[i] # NoEntry =>
        /\ r.slots[i].sequence = r.tracker.entries[i].sequence
        /\ Consistent(r.slots[i])
        /\ r.slots[i].num_fragments_received \in 1 .. (r.slots[i].num_fragments - 1)

\* A fragment as process_fragment() gets it from the header that was read.
FragmentShape(f) ==
    /\ f.sequence \in SeqNums
    /\ f.fragment_id \in Nat
    /\ f.num_fragments \in Nat
    /\ ValidFragment(f) => f.chunk \in Chunks

\* The fragment ids below n, for n up to the maximum.
LEMMA FragmentIdsBelow ==
    ASSUME NEW n \in Nat, n <= MaxFragments
    PROVE  0 .. (n - 1) \subseteq FragmentIds
  BY ReassemblyAssumption DEF FragmentIds

\* The tracker's index is a slot.
LEMMA TrackerIndex ==
    ASSUME NEW s \in SeqNums
    PROVE  Tracker!Index(s) \in Tracker!Slots
<1>1. s \in Int
  BY SeqSpaceAssumption DEF SeqNums
<1> QED BY <1>1, ReassemblyAssumption, DivMod DEF Tracker!Index, Tracker!Slots

\* The slot that takes a fragment has the fragment's sequence and count, and does
\* not have the fragment yet.
LEMMA OpenSlotFacts ==
    ASSUME NEW r \in Reassemblies, Synced(r), NEW f, FragmentShape(f), Accepts(r, f)
    PROVE  LET slot == OpenSlot(r, f) IN
           /\ slot \in SlotStates
           /\ Consistent(slot)
           /\ slot.sequence = f.sequence
           /\ slot.num_fragments = f.num_fragments
           /\ f.fragment_id \notin slot.fragment_received
<1> DEFINE i == Tracker!Index(f.sequence)
           slot == OpenSlot(r, f)
<1>1. i \in Tracker!Slots /\ r.slots[i] \in SlotStates
  BY TrackerIndex DEF FragmentShape, Reassemblies
<1>2. /\ slot.sequence = f.sequence /\ slot.num_fragments = f.num_fragments
      /\ f.fragment_id \notin slot.fragment_received
      /\ f.num_fragments \in Nat /\ f.num_fragments <= MaxFragments
      /\ f.sequence \in SeqNums
  BY DEF Accepts, HasFragment, ValidFragment, FragmentShape
<1>3. CASE Tracker!Exists(r.tracker, f.sequence)
  <2>1. slot = r.slots[i]
    BY <1>3 DEF OpenSlot
  <2>2. r.tracker.entries[i] # NoEntry
    BY <1>3 DEF Tracker!Exists, Tracker!Index
  <2> QED BY <1>1, <1>2, <2>1, <2>2 DEF Synced
<1>4. CASE ~Tracker!Exists(r.tracker, f.sequence)
  <2>1. slot = ResetSlot(r.slots[i], f.sequence, f.num_fragments)
    BY <1>4 DEF OpenSlot
  <2>2. slot \in SlotStates
    BY <1>1, <1>2, <2>1 DEF ResetSlot, SlotStates
  <2>3. Consistent(slot)
    <3>1. /\ slot.num_fragments_received = 0 /\ slot.fragment_received = {}
          /\ slot.num_fragments = f.num_fragments
      BY <2>1 DEF ResetSlot
    <3>2. Cardinality({}) = 0
      BY FS_EmptySet
    <3>3. ASSUME NEW k \in 0 .. (f.num_fragments - 1)
          PROVE  slot.chunks[k] = NoChunk
      <4>1. k \in FragmentIds /\ k < f.num_fragments
        BY <1>2, <3>3, FragmentIdsBelow
      <4> QED BY <2>1, <4>1 DEF ResetSlot
    <3> QED BY <1>2, <3>1, <3>2, <3>3 DEF Consistent
  <2> QED BY <1>2, <2>2, <2>3
<1> QED BY <1>3, <1>4

\* Storing a fragment keeps the slot consistent; the slot is complete exactly if
\* it has every fragment.
LEMMA CollectedFacts ==
    ASSUME NEW r \in Reassemblies, Synced(r), NEW f, FragmentShape(f), Accepts(r, f)
    PROVE  LET old == OpenSlot(r, f)
               slot == Collected(r, f)
               n == f.num_fragments
           IN  /\ slot \in SlotStates
               /\ Consistent(slot)
               /\ slot.sequence = f.sequence
               /\ slot.num_fragments = n
               /\ slot.fragment_received = old.fragment_received \cup {f.fragment_id}
               /\ slot.chunks[f.fragment_id] = f.chunk
               /\ \A k \in old.fragment_received : slot.chunks[k] = old.chunks[k]
               /\ slot.num_fragments_received \in 1 .. n
               /\ IsComplete(slot) <=> slot.fragment_received = 0 .. (n - 1)
               /\ IsComplete(slot) <=> slot.num_fragments_received = n
<1> DEFINE old == OpenSlot(r, f)
           slot == Collected(r, f)
           n == f.num_fragments
           id == f.fragment_id
           S == old.fragment_received
<1>1. /\ old \in SlotStates /\ Consistent(old) /\ old.sequence = f.sequence
      /\ old.num_fragments = n /\ id \notin S
  BY OpenSlotFacts
<1>2. /\ n \in Nat \ {0} /\ n <= MaxFragments /\ id \in 0 .. (n - 1) /\ f.chunk \in Chunks
      /\ 0 .. (n - 1) \subseteq FragmentIds /\ id \in FragmentIds
  <2>1. /\ n \in Nat \ {0} /\ n <= MaxFragments /\ id \in 0 .. (n - 1) /\ f.chunk \in Chunks
    BY DEF Accepts, ValidFragment, FragmentShape
  <2> QED BY <2>1, FragmentIdsBelow
<1>3. slot = [old EXCEPT !.chunks[id] = f.chunk,
                         !.fragment_received = @ \cup {id},
                         !.num_fragments_received = @ + 1]
  BY DEF Collected, StoreFragment
<1> HIDE DEF old, slot
<1>4. /\ slot.sequence = old.sequence /\ slot.num_fragments = n
      /\ slot.fragment_received = S \cup {id}
      /\ slot.num_fragments_received = old.num_fragments_received + 1
      /\ slot.chunks = [old.chunks EXCEPT ![id] = f.chunk]
  BY <1>1, <1>3 DEF SlotStates
<1>5. slot \in SlotStates
  <2>1. old.chunks \in [FragmentIds -> Chunks \cup {NoChunk}]
    BY <1>1 DEF SlotStates
  <2>2. slot.chunks \in [FragmentIds -> Chunks \cup {NoChunk}]
    BY <1>2, <1>4, <2>1
  <2>3. slot = [sequence |-> slot.sequence, num_fragments |-> slot.num_fragments,
                num_fragments_received |-> slot.num_fragments_received,
                fragment_received |-> slot.fragment_received, chunks |-> slot.chunks]
    BY <1>1, <1>3 DEF SlotStates
  <2>4. /\ slot.sequence \in SeqNums /\ slot.num_fragments \in Nat
        /\ slot.num_fragments_received \in Nat /\ slot.fragment_received \in SUBSET Nat
    BY <1>1, <1>2, <1>4 DEF SlotStates
  <2> QED BY <2>2, <2>3, <2>4 DEF SlotStates
<1>6. /\ IsFiniteSet(0 .. (n - 1)) /\ Cardinality(0 .. (n - 1)) = n
  <2>1. 0 \in Int /\ n - 1 \in Int /\ ~(0 > n - 1) /\ (n - 1) - 0 + 1 = n
    BY <1>2
  <2> QED BY <2>1, FS_Interval
<1>7. S \subseteq 0 .. (n - 1)
  BY <1>1 DEF Consistent
<1>8. /\ IsFiniteSet(S) /\ Cardinality(S) \in Nat
      /\ Cardinality(S \cup {id}) = Cardinality(S) + 1
  <2>1. IsFiniteSet(S)
    BY <1>6, <1>7, FS_Subset
  <2> QED BY <1>1, <2>1, FS_CardinalityType, FS_AddElement
<1>9. /\ S \cup {id} \subseteq 0 .. (n - 1)
      /\ Cardinality(S \cup {id}) <= n
      /\ Cardinality(S \cup {id}) = n <=> S \cup {id} = 0 .. (n - 1)
  <2>1. S \cup {id} \subseteq 0 .. (n - 1)
    BY <1>2, <1>7
  <2>2. /\ Cardinality(S \cup {id}) <= Cardinality(0 .. (n - 1))
        /\ Cardinality(0 .. (n - 1)) = Cardinality(S \cup {id}) =>
               0 .. (n - 1) = S \cup {id}
    BY <1>6, <2>1, FS_Subset
  <2> QED BY <1>6, <2>1, <2>2
<1>10. slot.num_fragments_received = Cardinality(S \cup {id})
  BY <1>1, <1>4, <1>8 DEF Consistent
<1>11. slot.num_fragments_received \in 1 .. n
  BY <1>2, <1>8, <1>9, <1>10
<1>12. \A k \in FragmentIds : slot.chunks[k] = IF k = id THEN f.chunk ELSE old.chunks[k]
  BY <1>1, <1>2, <1>4 DEF SlotStates
<1>13. \A k \in S : slot.chunks[k] = old.chunks[k]
  BY <1>1, <1>2, <1>7, <1>12
<1>14. ASSUME NEW k \in 0 .. (n - 1)
       PROVE  k \in S \cup {id} <=> slot.chunks[k] # NoChunk
  <2>1. f.chunk # NoChunk
    BY <1>2, AbsenceAssumption
  <2>2. k \in S <=> old.chunks[k] # NoChunk
    BY <1>1, <1>14 DEF Consistent
  <2> QED BY <1>1, <1>2, <1>12, <1>14, <2>1, <2>2
<1>15. Consistent(slot)
  BY <1>2, <1>4, <1>9, <1>10, <1>14 DEF Consistent
<1>16. /\ IsComplete(slot) <=> slot.num_fragments_received = n
       /\ IsComplete(slot) <=> slot.fragment_received = 0 .. (n - 1)
  BY <1>4, <1>9, <1>10 DEF IsComplete
<1> QED BY <1>1, <1>2, <1>4, <1>5, <1>11, <1>12, <1>13, <1>15, <1>16 DEF old, slot

\* tracker.insert() of a sequence it can take: InsertType and InsertSlots.
LEMMA TrackerInsert ==
    ASSUME NEW b \in Tracker!Buffers({{}}), NEW s \in SeqNums, Tracker!CanInsert(b, s)
    PROVE  /\ Tracker!Insert(b, s, {}) \in Tracker!Buffers({{}})
           /\ Tracker!Insert(b, s, {}).entries[Tracker!Index(s)].sequence = s
           /\ \A i \in Tracker!Slots : i # Tracker!Index(s) =>
                  Tracker!Insert(b, s, {}).entries[i] \in {b.entries[i], NoEntry}
<1>1. /\ Tracker!Buffers({{}}) = TrackerL!Buffers({{}}) /\ SeqNums = TrackerL!SeqNums
      /\ Tracker!Slots = TrackerL!Slots /\ Tracker!Index(s) = TrackerL!Index(s)
  BY DEF Tracker!Buffers, TrackerL!Buffers, Tracker!Slots, TrackerL!Slots,
         Tracker!Index, TrackerL!Index, SeqNums, Tracker!SeqNums, TrackerL!SeqNums
<1>2. /\ Tracker!Insert(b, s, {}) = TrackerL!Insert(b, s, {})
      /\ Tracker!CanInsert(b, s) = TrackerL!CanInsert(b, s)
  BY DEF Tracker!Insert, TrackerL!Insert, Tracker!Advance, TrackerL!Advance,
         Tracker!RemoveRange, TrackerL!RemoveRange, Tracker!Slots, TrackerL!Slots,
         Tracker!Index, TrackerL!Index, Tracker!CanInsert, TrackerL!CanInsert,
         Tracker!SequenceLessThan, TrackerL!SequenceLessThan,
         Tracker!SequenceGreaterThan, TrackerL!SequenceGreaterThan,
         Tracker!Half, TrackerL!Half, Tracker!SeqNums, TrackerL!SeqNums,
         Tracker!WrappingAdd, TrackerL!WrappingAdd,
         Tracker!WrappingSub, TrackerL!WrappingSub
<1>3. TrackerL!Insert(b, s, {}) \in TrackerL!Buffers({{}})
  BY <1>1, TrackerL!InsertType, ReassemblyAssumption, SeqSpaceAssumption
<1>4. /\ TrackerL!Insert(b, s, {}).entries[TrackerL!Index(s)] = [sequence |-> s, data |-> {}]
      /\ \A i \in TrackerL!Slots : i # TrackerL!Index(s) =>
             TrackerL!Insert(b, s, {}).entries[i] \in {b.entries[i], NoEntry}
  <2>1. /\ TrackerL!CanInsert(b, s) /\ b \in TrackerL!Buffers({{}}) /\ s \in TrackerL!SeqNums
    BY <1>1, <1>2
  <2> QED BY ONLY <2>1, TrackerL!InsertSlots, ReassemblyAssumption, SeqSpaceAssumption, Zenon
<1> QED BY <1>1, <1>2, <1>3, <1>4

\* The tracker's entry in a slot: a fragment that is taken is tracked in its slot,
\* the others are left alone or forgotten.
LEMMA TrackFacts ==
    ASSUME NEW r \in Reassemblies, NEW f, FragmentShape(f), Accepts(r, f)
    PROVE  LET b == Track(r, f)
               i == Tracker!Index(f.sequence)
           IN  /\ b \in Tracker!Buffers({{}})
               /\ b.entries[i].sequence = f.sequence
               /\ \A j \in Tracker!Slots : j # i =>
                      b.entries[j] \in {r.tracker.entries[j], NoEntry}
<1>1. r.tracker \in Tracker!Buffers({{}}) /\ f.sequence \in SeqNums
  BY DEF Reassemblies, FragmentShape
<1>2. CASE Tracker!Exists(r.tracker, f.sequence)
  BY <1>1, <1>2 DEF Track, Tracker!Exists
<1>3. CASE ~Tracker!Exists(r.tracker, f.sequence)
  <2>1. Tracker!CanInsert(r.tracker, f.sequence)
    BY <1>3 DEF Accepts
  <2>2. Track(r, f) = Tracker!Insert(r.tracker, f.sequence, {})
    BY <1>3 DEF Track
  <2> QED BY <1>1, <2>1, <2>2, TrackerInsert
<1> QED BY <1>2, <1>3

\* Removing the tracked sequence empties its slot alone.
LEMMA UntrackFacts ==
    ASSUME NEW b \in Tracker!Buffers({{}}), NEW s \in SeqNums,
           b.entries[Tracker!Index(s)].sequence = s
    PROVE  /\ Tracker!Remove(b, s) \in Tracker!Buffers({{}})
           /\ Tracker!Remove(b, s).entries[Tracker!Index(s)] = NoEntry
           /\ \A j \in Tracker!Slots : j # Tracker!Index(s) =>
                  Tracker!Remove(b, s).entries[j] = b.entries[j]
<1> DEFINE i == Tracker!Index(s)
           E == [sequence : SeqNums, data : {{}}] \cup {NoEntry}
<1>1. i \in Tracker!Slots
  BY TrackerIndex
<1>2. /\ b.entries \in [Tracker!Slots -> E] /\ b.sequence \in SeqNums
      /\ b = [sequence |-> b.sequence, entries |-> b.entries]
  BY DEF Tracker!Buffers, Tracker!SeqNums, SeqNums
<1>3. Tracker!Exists(b, s) <=> b.entries[i] # NoEntry
  BY DEF Tracker!Exists
<1>4. CASE b.entries[i] = NoEntry
  BY <1>3, <1>4 DEF Tracker!Remove
<1>5. CASE b.entries[i] # NoEntry
  <2>1. Tracker!Remove(b, s) = [b EXCEPT !.entries[i] = NoEntry]
    BY <1>3, <1>5 DEF Tracker!Remove
  <2> HIDE DEF i, E
  <2>2. Tracker!Remove(b, s) =
            [sequence |-> b.sequence, entries |-> [b.entries EXCEPT ![i] = NoEntry]]
    BY <1>2, <2>1
  <2>3. NoEntry \in E
    BY DEF E
  <2>4. [b.entries EXCEPT ![i] = NoEntry] \in [Tracker!Slots -> E]
    BY <1>1, <1>2, <2>3
  <2> QED BY <1>1, <1>2, <2>2, <2>4 DEF Tracker!Buffers, Tracker!SeqNums, SeqNums, i, E
<1> QED BY <1>4, <1>5

\* What process_fragment() makes of the slots: the fragment's own one is left empty
\* or tracked, the others are left alone or forgotten.
LEMMA ProcessFragmentFacts ==
    ASSUME NEW r \in Reassemblies, Synced(r), NEW f, FragmentShape(f), Accepts(r, f)
    PROVE  LET p == ProcessFragment(r, f)
               q == p.reassembly
               i == Tracker!Index(f.sequence)
           IN  /\ i \in Tracker!Slots
               /\ q.tracker \in Tracker!Buffers({{}})
               /\ q.slots[i] = Collected(r, f)
               /\ q.slots \in [Tracker!Slots -> SlotStates]
               /\ p.complete <=> IsComplete(Collected(r, f))
               /\ p.complete => q.tracker.entries[i] = NoEntry
               /\ ~p.complete => q.tracker.entries[i].sequence = f.sequence
               /\ \A j \in Tracker!Slots : j # i =>
                      /\ q.slots[j] = r.slots[j]
                      /\ q.tracker.entries[j] \in {r.tracker.entries[j], NoEntry}
               /\ q = [tracker |-> q.tracker, slots |-> q.slots]
<1> DEFINE i == Tracker!Index(f.sequence)
           new == Collected(r, f)
           b == Track(r, f)
           u == Tracker!Remove(b, f.sequence)
           slots == [r.slots EXCEPT ![i] = new]
<1>1. /\ ProcessFragment(r, f).reassembly.tracker = IF IsComplete(new) THEN u ELSE b
      /\ ProcessFragment(r, f).reassembly.slots = slots
      /\ ProcessFragment(r, f).complete = IsComplete(new)
      /\ ProcessFragment(r, f).reassembly =
             [tracker |-> ProcessFragment(r, f).reassembly.tracker,
              slots |-> ProcessFragment(r, f).reassembly.slots]
  BY DEF ProcessFragment
<1>2. /\ f.sequence \in SeqNums /\ i \in Tracker!Slots
      /\ r.slots \in [Tracker!Slots -> SlotStates] /\ new \in SlotStates
  BY TrackerIndex, CollectedFacts DEF FragmentShape, Reassemblies
<1>3. /\ b \in Tracker!Buffers({{}}) /\ b.entries[i].sequence = f.sequence
      /\ \A j \in Tracker!Slots : j # i => b.entries[j] \in {r.tracker.entries[j], NoEntry}
  BY TrackFacts
<1> HIDE DEF b
<1>4. /\ u \in Tracker!Buffers({{}}) /\ u.entries[i] = NoEntry
      /\ \A j \in Tracker!Slots : j # i => u.entries[j] = b.entries[j]
  BY <1>2, <1>3, UntrackFacts
<1>5. /\ slots \in [Tracker!Slots -> SlotStates] /\ slots[i] = new
      /\ \A j \in Tracker!Slots : j # i => slots[j] = r.slots[j]
  <2> HIDE DEF new, i
  <2> QED BY <1>2
<1> HIDE DEF u, new, slots, i
<1>6. CASE IsComplete(new)
  BY <1>1, <1>2, <1>3, <1>4, <1>5, <1>6 DEF i, new
<1>7. CASE ~IsComplete(new)
  BY <1>1, <1>2, <1>3, <1>4, <1>5, <1>7 DEF i, new
<1> QED BY <1>6, <1>7

\* process_fragment() keeps the tracker and the slots in step.
LEMMA ProcessFragmentSynced ==
    ASSUME NEW r \in Reassemblies, Synced(r), NEW f, FragmentShape(f)
    PROVE  /\ ProcessFragment(r, f).reassembly \in Reassemblies
           /\ Synced(ProcessFragment(r, f).reassembly)
<1> DEFINE p == ProcessFragment(r, f)
           q == p.reassembly
           i == Tracker!Index(f.sequence)
           new == Collected(r, f)
<1>1. CASE ~Accepts(r, f)
  BY <1>1 DEF ProcessFragment
<1>2. CASE Accepts(r, f)
  <2>1. /\ i \in Tracker!Slots /\ q.tracker \in Tracker!Buffers({{}})
        /\ q.slots[i] = new /\ q.slots \in [Tracker!Slots -> SlotStates]
        /\ p.complete <=> IsComplete(new)
        /\ p.complete => q.tracker.entries[i] = NoEntry
        /\ ~p.complete => q.tracker.entries[i].sequence = f.sequence
        /\ \A j \in Tracker!Slots : j # i =>
               /\ q.slots[j] = r.slots[j]
               /\ q.tracker.entries[j] \in {r.tracker.entries[j], NoEntry}
        /\ q = [tracker |-> q.tracker, slots |-> q.slots]
    BY <1>2, ProcessFragmentFacts
  <2>2. /\ new \in SlotStates /\ Consistent(new) /\ new.sequence = f.sequence
        /\ new.num_fragments = f.num_fragments
        /\ new.num_fragments_received \in 1 .. f.num_fragments
        /\ IsComplete(new) <=> new.num_fragments_received = f.num_fragments
    BY <1>2, CollectedFacts
  <2>3. f.num_fragments \in Nat
    BY DEF FragmentShape
  <2> HIDE DEF p, q, i, new
  <2>4. q \in Reassemblies
    BY <2>1 DEF Reassemblies
  <2>5. ASSUME NEW j \in Tracker!Slots, q.tracker.entries[j] # NoEntry
        PROVE  /\ q.slots[j].sequence = q.tracker.entries[j].sequence
               /\ Consistent(q.slots[j])
               /\ q.slots[j].num_fragments_received \in 1 .. (q.slots[j].num_fragments - 1)
    <3>1. CASE j = i
      <4>1. new.num_fragments_received \in 1 .. (new.num_fragments - 1)
        BY <2>1, <2>2, <2>3, <2>5, <3>1
      <4> QED BY <2>1, <2>2, <2>5, <3>1, <4>1
    <3>2. CASE j # i
      BY <2>1, <2>5, <3>2 DEF Synced
    <3> QED BY <3>1, <3>2
  <2> QED BY <2>4, <2>5 DEF Synced, q, p
<1> QED BY <1>1, <1>2

\* The fragments in the slot are packet m's.
Holds(slot, m) ==
    /\ slot.sequence = m % SeqSpace
    /\ \A k \in slot.fragment_received : slot.chunks[k] = Chunk(m, k, slot.num_fragments)

\* Every tracked slot collects one packet, of those in P.
Collects(r, P) ==
    \A i \in Tracker!Slots : r.tracker.entries[i] # NoEntry =>
        \E m \in P : Holds(r.slots[i], m)

\* If fragments of packets of P that share a sequence number are of one packet,
\* process_fragment() never mixes two packets, and what it completes is whole.
LEMMA ProcessFragmentCollects ==
    ASSUME NEW r \in Reassemblies, Synced(r), NEW f, FragmentShape(f),
           NEW P, Collects(r, P), f.id \in P, f.sequence = f.id % SeqSpace,
           f.chunk = Chunk(f.id, f.fragment_id, f.num_fragments),
           \A m \in P : m % SeqSpace = f.id % SeqSpace => m = f.id
    PROVE  LET p == ProcessFragment(r, f)
               q == p.reassembly
           IN  /\ Collects(q, P)
               /\ p.complete =>
                      /\ CopyTo(q.slots[Tracker!Index(f.sequence)]) =
                             Payload(f.id, f.num_fragments)
                      /\ f.num_fragments # 0
<1> DEFINE p == ProcessFragment(r, f)
           q == p.reassembly
           i == Tracker!Index(f.sequence)
           old == OpenSlot(r, f)
           new == Collected(r, f)
           n == f.num_fragments
<1>1. CASE ~Accepts(r, f)
  <2>1. q = r /\ p.complete = FALSE
    BY <1>1 DEF ProcessFragment
  <2> QED BY <2>1
<1>2. CASE Accepts(r, f)
  <2>1. /\ i \in Tracker!Slots /\ q.slots[i] = new
        /\ p.complete <=> IsComplete(new)
        /\ p.complete => q.tracker.entries[i] = NoEntry
        /\ \A j \in Tracker!Slots : j # i =>
               /\ q.slots[j] = r.slots[j]
               /\ q.tracker.entries[j] \in {r.tracker.entries[j], NoEntry}
    BY ONLY r \in Reassemblies, Synced(r), FragmentShape(f), <1>2, ProcessFragmentFacts,
            ZenonT(40)
  <2>2. /\ new.sequence = f.sequence /\ new.num_fragments = n
        /\ new.fragment_received = old.fragment_received \cup {f.fragment_id}
        /\ new.chunks[f.fragment_id] = f.chunk
        /\ \A k \in old.fragment_received : new.chunks[k] = old.chunks[k]
        /\ IsComplete(new) <=> new.fragment_received = 0 .. (n - 1)
    BY <1>2, CollectedFacts
  <2>3. old.num_fragments = n /\ old.sequence = f.sequence
    BY <1>2, OpenSlotFacts
  <2>4. n \in Nat \ {0}
    BY <1>2 DEF Accepts, ValidFragment, FragmentShape
  <2>5. \A k \in old.fragment_received : old.chunks[k] = Chunk(f.id, k, n)
    <3>1. CASE Tracker!Exists(r.tracker, f.sequence)
      <4>1. old = r.slots[i] /\ r.tracker.entries[i] # NoEntry
        BY <3>1 DEF OpenSlot, Tracker!Exists
      <4>2. PICK m \in P : Holds(old, m)
        BY <2>1, <4>1 DEF Collects
      <4>3. m = f.id
        BY <2>3, <4>2 DEF Holds
      <4> QED BY <2>3, <4>2, <4>3 DEF Holds
    <3>2. CASE ~Tracker!Exists(r.tracker, f.sequence)
      <4>1. old.fragment_received = {}
        BY <3>2 DEF OpenSlot, ResetSlot
      <4> QED BY <4>1
    <3> QED BY <3>1, <3>2
  <2> HIDE DEF p, q, i, old, new
  <2>6. \A k \in new.fragment_received : new.chunks[k] = Chunk(f.id, k, n)
    BY <2>2, <2>5
  <2>7. Holds(new, f.id)
    BY <2>2, <2>6 DEF Holds
  <2>8. Collects(q, P)
    <3> SUFFICES ASSUME NEW j \in Tracker!Slots, q.tracker.entries[j] # NoEntry
                 PROVE  \E m \in P : Holds(q.slots[j], m)
      BY DEF Collects
    <3>1. CASE j = i
      BY <2>1, <2>7, <3>1
    <3>2. CASE j # i
      BY <2>1, <3>2 DEF Collects
    <3> QED BY <3>1, <3>2
  <2>9. ASSUME p.complete
        PROVE  CopyTo(q.slots[i]) = Payload(f.id, n)
    <3>1. new.fragment_received = 0 .. (n - 1)
      BY <2>1, <2>2, <2>9
    <3>2. \A k \in 1 .. n : new.chunks[k - 1] = Chunk(f.id, k - 1, n)
      BY <2>4, <2>6, <3>1
    <3> QED BY <2>1, <2>2, <3>2 DEF CopyTo, Payload
  <2> QED BY <2>4, <2>8, <2>9 DEF p, q, i
<1> QED BY <1>1, <1>2
--------------------------------------------------------------------------------
(* The two buffers of packets *)

\* The buffer of the sent packets, as the lemmas on buffers know it.
LEMMA SentBridge ==
    /\ Sent!Buffers(SentData) = SentL!Buffers(SentData)
    /\ Sent!Slots = SentL!Slots
    /\ SeqNums = SentL!SeqNums
    /\ Half = SentL!Half
    /\ \A s : Sent!Index(s) = SentL!Index(s)
    /\ \A b, s : Sent!Exists(b, s) <=> SentL!Exists(b, s)
    /\ \A b, s : Sent!CanInsert(b, s) <=> SentL!CanInsert(b, s)
    /\ \A b, s, d : Sent!Insert(b, s, d) = SentL!Insert(b, s, d)
<1>1. /\ Sent!Buffers(SentData) = SentL!Buffers(SentData) /\ Sent!Slots = SentL!Slots
      /\ SeqNums = SentL!SeqNums /\ Half = SentL!Half
      /\ \A s : Sent!Index(s) = SentL!Index(s)
      /\ \A b, s : Sent!Exists(b, s) <=> SentL!Exists(b, s)
  BY DEF Sent!Buffers, SentL!Buffers, Sent!Slots, SentL!Slots, Sent!SeqNums, SentL!SeqNums,
         SeqNums, Half, SentL!Half, Sent!Index, SentL!Index, Sent!Exists, SentL!Exists
<1>2. /\ \A b, s : Sent!CanInsert(b, s) <=> SentL!CanInsert(b, s)
      /\ \A b, s, d : Sent!Insert(b, s, d) = SentL!Insert(b, s, d)
  BY DEF Sent!Insert, SentL!Insert, Sent!Advance, SentL!Advance, Sent!RemoveRange,
         SentL!RemoveRange, Sent!Slots, SentL!Slots, Sent!Index, SentL!Index, Sent!CanInsert,
         SentL!CanInsert, Sent!SequenceLessThan, SentL!SequenceLessThan,
         Sent!SequenceGreaterThan, SentL!SequenceGreaterThan, Sent!Half, SentL!Half,
         Sent!SeqNums, SentL!SeqNums, Sent!WrappingAdd, SentL!WrappingAdd,
         Sent!WrappingSub, SentL!WrappingSub
<1> QED BY <1>1, <1>2

\* The buffer of the received packets, as the lemmas on buffers know it.
LEMMA ReceivedBridge ==
    /\ Received!Buffers(ReceivedData) = ReceivedL!Buffers(ReceivedData)
    /\ Received!Slots = ReceivedL!Slots
    /\ SeqNums = ReceivedL!SeqNums
    /\ Half = ReceivedL!Half
    /\ \A s : Received!Index(s) = ReceivedL!Index(s)
    /\ \A b, s : Received!Exists(b, s) <=> ReceivedL!Exists(b, s)
    /\ \A b, s : Received!CanInsert(b, s) <=> ReceivedL!CanInsert(b, s)
    /\ \A b, s, d : Received!Insert(b, s, d) = ReceivedL!Insert(b, s, d)
<1>1. /\ Received!Buffers(ReceivedData) = ReceivedL!Buffers(ReceivedData) /\ Received!Slots = ReceivedL!Slots
      /\ SeqNums = ReceivedL!SeqNums /\ Half = ReceivedL!Half
      /\ \A s : Received!Index(s) = ReceivedL!Index(s)
      /\ \A b, s : Received!Exists(b, s) <=> ReceivedL!Exists(b, s)
  BY DEF Received!Buffers, ReceivedL!Buffers, Received!Slots, ReceivedL!Slots, Received!SeqNums, ReceivedL!SeqNums,
         SeqNums, Half, ReceivedL!Half, Received!Index, ReceivedL!Index, Received!Exists, ReceivedL!Exists
<1>2. /\ \A b, s : Received!CanInsert(b, s) <=> ReceivedL!CanInsert(b, s)
      /\ \A b, s, d : Received!Insert(b, s, d) = ReceivedL!Insert(b, s, d)
  BY DEF Received!Insert, ReceivedL!Insert, Received!Advance, ReceivedL!Advance, Received!RemoveRange,
         ReceivedL!RemoveRange, Received!Slots, ReceivedL!Slots, Received!Index, ReceivedL!Index, Received!CanInsert,
         ReceivedL!CanInsert, Received!SequenceLessThan, ReceivedL!SequenceLessThan,
         Received!SequenceGreaterThan, ReceivedL!SequenceGreaterThan, Received!Half, ReceivedL!Half,
         Received!SeqNums, ReceivedL!SeqNums, Received!WrappingAdd, ReceivedL!WrappingAdd,
         Received!WrappingSub, ReceivedL!WrappingSub
<1> QED BY <1>1, <1>2

\* What the lemmas on buffers ask of their sizes.
LEMMA Sizes ==
    /\ SentSize \in Nat \ {0} /\ SeqSpace % SentSize = 0 /\ 2 * SentSize <= SeqSpace
    /\ SentSize < Half
    /\ ReceivedSize \in Nat \ {0} /\ SeqSpace % ReceivedSize = 0
    /\ 2 * ReceivedSize <= SeqSpace /\ ReceivedSize < Half
    /\ Half \in Nat /\ SeqSpace = 2 * Half /\ SeqSpace \in Nat \ {0}
<1>1. Half \in Nat /\ SeqSpace = 2 * Half /\ SeqSpace \in Nat \ {0}
  BY SeqSpaceAssumption DEF Half
<1>2. /\ SentSize \in Nat \ {0} /\ SeqSpace % SentSize = 0 /\ 2 * SentSize < SeqSpace
      /\ ReceivedSize \in Nat \ {0} /\ SeqSpace % ReceivedSize = 0
      /\ 2 * ReceivedSize < SeqSpace
  BY WindowAssumption
<1> QED BY <1>1, <1>2

\* The packet sent next takes its slot, and the packets still in the window stay.
LEMMA SentInsert ==
    ASSUME NEW b \in Sent!Buffers(SentData), NEW d \in SentData, NEW t \in Int,
           SentL!InOrder(b, t), d.id = t
    PROVE  /\ Sent!Insert(b, t % SeqSpace, d) \in Sent!Buffers(SentData)
           /\ SentL!TookIn(b, t, t, d, Sent!Insert(b, t % SeqSpace, d))
           /\ SentL!HeadAfter(t, t) = t + 1
<1>1. /\ b \in SentL!Buffers(SentData)
      /\ Sent!Insert(b, t % SeqSpace, d) = SentL!Insert(b, t % SeqSpace, d)
  BY SentBridge
<1>2. t - SentSize <= t /\ t < t - SentSize + SentL!Half
  BY Sizes, SentBridge
<1>3. SentL!HeadAfter(t, t) = t + 1
  BY DEF SentL!HeadAfter
<1>4. /\ SentL!Insert(b, t % SeqSpace, d) \in SentL!Buffers(SentData)
      /\ SentL!TookIn(b, t, t, d, SentL!Insert(b, t % SeqSpace, d))
  BY ONLY <1>1, <1>2, d \in SentData, t \in Int, SentL!InOrder(b, t), d.id = t,
          SentL!InsertInOrder, Sizes, SeqSpaceAssumption, Zenon
<1> QED BY <1>1, <1>3, <1>4, SentBridge

\* The number n is tracked in its own slot or not at all.
LEMMA SentExists ==
    ASSUME NEW b \in Sent!Buffers(SentData), NEW t \in Int, SentL!InOrder(b, t),
           NEW n \in Int, t - SeqSpace <= n, n < t
    PROVE  /\ n % SentSize \in Sent!Slots
           /\ Sent!Exists(b, n % SeqSpace) <=>
                  b.entries[n % SentSize] # NoEntry /\ b.entries[n % SentSize].data.id = n
<1>1. n < t - SentSize + SeqSpace
  BY Sizes
<1>2. /\ n % SentSize \in SentL!Slots
      /\ SentL!Exists(b, n % SeqSpace) <=>
             b.entries[n % SentSize] # NoEntry /\ b.entries[n % SentSize].data.id = n
  BY ONLY <1>1, t \in Int, SentL!InOrder(b, t), n \in Int, t - SeqSpace <= n,
          SentL!ExistsInOrder, Sizes, SeqSpaceAssumption, ZenonT(120)
<1> QED BY <1>2, SentBridge

\* A packet the window can take is recorded in its slot, and the packets still in
\* the window stay.
LEMMA ReceivedInsert ==
    ASSUME NEW b \in Received!Buffers(ReceivedData), NEW d \in ReceivedData, NEW t \in Int,
           ReceivedL!InOrder(b, t), NEW n \in Int, d.id = n,
           t - ReceivedSize <= n, n < t - ReceivedSize + Half
    PROVE  /\ Received!Insert(b, n % SeqSpace, d) \in Received!Buffers(ReceivedData)
           /\ ReceivedL!TookIn(b, t, n, d, Received!Insert(b, n % SeqSpace, d))
<1>1. /\ b \in ReceivedL!Buffers(ReceivedData)
      /\ Received!Insert(b, n % SeqSpace, d) = ReceivedL!Insert(b, n % SeqSpace, d)
      /\ n < t - ReceivedSize + ReceivedL!Half
  BY ReceivedBridge
<1>2. /\ ReceivedL!Insert(b, n % SeqSpace, d) \in ReceivedL!Buffers(ReceivedData)
      /\ ReceivedL!TookIn(b, t, n, d, ReceivedL!Insert(b, n % SeqSpace, d))
  BY ONLY <1>1, d \in ReceivedData, t \in Int, ReceivedL!InOrder(b, t), n \in Int, d.id = n,
          t - ReceivedSize <= n, ReceivedL!InsertInOrder, Sizes, SeqSpaceAssumption, Zenon
<1> QED BY <1>1, <1>2, ReceivedBridge

\* A packet below the window is not recorded.
LEMMA ReceivedBelow ==
    ASSUME NEW b \in Received!Buffers(ReceivedData), NEW d \in ReceivedData, NEW t \in Int,
           ReceivedL!InOrder(b, t), NEW n \in Int,
           t - ReceivedSize - Half < n, n < t - ReceivedSize
    PROVE  Received!Insert(b, n % SeqSpace, d) = b
<1>1. /\ b \in ReceivedL!Buffers(ReceivedData)
      /\ Received!Insert(b, n % SeqSpace, d) = ReceivedL!Insert(b, n % SeqSpace, d)
      /\ t - ReceivedSize - ReceivedL!Half < n
  BY ReceivedBridge
<1>2. ReceivedL!Insert(b, n % SeqSpace, d) = b
  BY ONLY <1>1, d \in ReceivedData, t \in Int, ReceivedL!InOrder(b, t), n \in Int,
          n < t - ReceivedSize, ReceivedL!InsertBelow, Sizes, SeqSpaceAssumption, Zenon
<1> QED BY <1>1, <1>2

\* Every bit of header a stands for one of the packets the history names.
Backed(a) == \A i \in a.bits : \E m \in a.ids : m % SeqSpace = AckSequence(a, i)

\* The packets in a buffer.
IdsIn(b) == {b.entries[j].data.id : j \in {j \in DOMAIN b.entries : b.entries[j] # NoEntry}}

\* An ack header stands for packets that are recorded.
LEMMA AckHeaderFacts ==
    ASSUME NEW c, c.received \in Received!Buffers(ReceivedData), NEW t \in Int,
           ReceivedL!InOrder(c.received, t)
    PROVE  /\ AckHeader(c) \in Headers
           /\ AckHeader(c).ids \subseteq IdsIn(c.received)
           /\ Backed(AckHeader(c))
<1> DEFINE b == c.received
           g == Received!GenerateAckBits(b)
           a == AckHeader(c)
           seq(k) == WrappingSub(g.ack, k)
<1>1. /\ b.sequence \in SeqNums /\ DOMAIN b.entries = Received!Slots
      /\ \A j \in Received!Slots :
             b.entries[j] # NoEntry => b.entries[j].data.id \in Nat
  BY DEF Received!Buffers, Received!SeqNums, SeqNums, ReceivedData
<1>2. /\ g.ack = WrappingSub(b.sequence, 1)
      /\ g.bits = {k \in 0 .. (AckWidth - 1) : Received!Exists(b, seq(k))}
  BY DEF Received!GenerateAckBits, Received!WrappingSub, WrappingSub
<1>3. g.ack \in SeqNums
  BY <1>1, <1>2, SeqSpaceAssumption DEF WrappingSub, SeqNums
<1>4. /\ a.ack = g.ack /\ a.bits = g.bits
      /\ a.ids = {Received!Find(b, seq(k)).id : k \in g.bits}
      /\ a = [ack |-> a.ack, bits |-> a.bits, ids |-> a.ids]
  BY DEF AckHeader
<1>5. ASSUME NEW k \in g.bits
      PROVE  LET j == Received!Index(seq(k)) IN
             /\ j \in Received!Slots /\ b.entries[j] # NoEntry
             /\ b.entries[j].sequence = seq(k)
             /\ Received!Find(b, seq(k)).id = b.entries[j].data.id
  <2>1. /\ b.entries[Received!Index(seq(k))] # NoEntry
        /\ b.entries[Received!Index(seq(k))].sequence = seq(k)
    BY <1>2, <1>5 DEF Received!Exists
  <2>2. seq(k) \in Int
    <3>1. k \in Int
      BY <1>2, <1>5
    <3> HIDE DEF g
    <3> QED BY <1>3, <3>1, SeqSpaceAssumption DEF WrappingSub, SeqNums
  <2>3. Received!Index(seq(k)) \in Received!Slots
    BY <2>2, Sizes, DivMod DEF Received!Index, Received!Slots
  <2> QED BY <2>1, <2>3 DEF Received!Find
<1> HIDE DEF g, a
<1>6. a.ids \subseteq IdsIn(b) /\ a.ids \subseteq Nat
  BY <1>1, <1>4, <1>5 DEF IdsIn
<1>7. a.bits \subseteq 0 .. (AckWidth - 1)
  BY <1>2, <1>4
<1>8. a \in Headers
  BY <1>3, <1>4, <1>6, <1>7 DEF Headers
<1>9. ASSUME NEW k \in a.bits
      PROVE  \E m \in a.ids : m % SeqSpace = AckSequence(a, k)
  <2> DEFINE j == Received!Index(seq(k))
  <2>1. /\ j \in Received!Slots /\ b.entries[j] # NoEntry
        /\ b.entries[j].sequence = seq(k) /\ b.entries[j].data.id \in a.ids
    BY <1>4, <1>5, <1>9
  <2>2. b.entries[j].sequence = b.entries[j].data.id % SeqSpace
    BY <2>1 DEF ReceivedL!InOrder, ReceivedL!Numbered, ReceivedL!Slots, Received!Slots
  <2>3. AckSequence(a, k) = seq(k)
    BY <1>4 DEF AckSequence
  <2> HIDE DEF j
  <2> QED BY <2>1, <2>2, <2>3
<1> QED BY <1>6, <1>8, <1>9 DEF Backed, a

\* An entry f that is e, or e acknowledged.
FlaggedAs(e, f, hit) ==
    IF e = NoEntry THEN f = NoEntry
    ELSE /\ f.sequence = e.sequence
         /\ f.data.id = e.data.id
         /\ f.data.len = e.data.len
         /\ f.data.acked <=> e.data.acked \/ hit

\* Whether one of the bits in S of header a is for sequence s.
Hit(a, S, s) == \E k \in S : s = AckSequence(a, k)

\* Flagging changes nothing but the flags.
LEMMA FlagAckedFacts ==
    ASSUME NEW b \in Sent!Buffers(SentData), NEW a, NEW S
    PROVE  /\ FlagAcked(b, a, S) \in Sent!Buffers(SentData)
           /\ FlagAcked(b, a, S).sequence = b.sequence
           /\ \A i \in Sent!Slots :
                  FlaggedAs(b.entries[i], FlagAcked(b, a, S).entries[i],
                            Hit(a, S, b.entries[i].sequence))
<1> DEFINE E == [sequence : SeqNums, data : SentData] \cup {NoEntry}
           c == FlagAcked(b, a, S)
           flag(e) == IF e # NoEntry /\ Hit(a, S, e.sequence)
                      THEN [e EXCEPT !.data.acked = TRUE] ELSE e
<1>1. /\ b.sequence \in SeqNums /\ b.entries \in [Sent!Slots -> E]
      /\ b = [sequence |-> b.sequence, entries |-> b.entries]
  BY DEF Sent!Buffers, Sent!SeqNums, SeqNums
<1>2. ASSUME NEW e \in E
      PROVE  flag(e) \in E /\ FlaggedAs(e, flag(e), Hit(a, S, e.sequence))
  <2>1. CASE e # NoEntry /\ Hit(a, S, e.sequence)
    <3>1. e \in [sequence : SeqNums, data : SentData]
      BY <1>2, <2>1
    <3>2. flag(e) = [sequence |-> e.sequence,
                     data |-> [acked |-> TRUE, time |-> e.data.time, id |-> e.data.id,
                               len |-> e.data.len]]
      BY <2>1, <3>1 DEF SentData
    <3> HIDE DEF flag
    <3> QED BY <2>1, <3>1, <3>2 DEF FlaggedAs, SentData
  <2>2. CASE ~(e # NoEntry /\ Hit(a, S, e.sequence))
    BY <1>2, <2>2 DEF FlaggedAs
  <2> QED BY <2>1, <2>2
<1>3. c.sequence = b.sequence /\ c.entries = [i \in Sent!Slots |-> flag(b.entries[i])]
      /\ c = [sequence |-> c.sequence, entries |-> c.entries]
  <2>1. \A e : e.sequence \in {AckSequence(a, k) : k \in S} <=> Hit(a, S, e.sequence)
    BY DEF Hit
  <2>2. c = [b EXCEPT !.entries = [i \in Sent!Slots |-> flag(b.entries[i])]]
    BY <2>1 DEF FlagAcked
  <2> HIDE DEF flag, c
  <2> QED BY <1>1, <2>2
<1> HIDE DEF c, flag, E
<1>4. \A i \in Sent!Slots : b.entries[i] \in E /\ c.entries[i] = flag(b.entries[i])
  BY <1>1, <1>3
<1>5. c.entries \in [Sent!Slots -> E]
  BY <1>2, <1>3, <1>4
<1>6. c \in Sent!Buffers(SentData)
  BY <1>1, <1>3, <1>5 DEF Sent!Buffers, Sent!SeqNums, SeqNums, E
<1> QED BY <1>2, <1>3, <1>4, <1>6 DEF c

\* What the ack buffer is told of the packet that bit k of header a acknowledges.
AckItems == [sequence : SeqNums, id : Nat]

\* What the ack buffer is told of bit k.
AckFor(c, a, k) ==
    [sequence |-> AckSequence(a, k), id |-> Sent!Find(c.sent, AckSequence(a, k)).id]

\* q tells of every packet that header a acknowledges for the first time, once.
Announces(c, a, q) ==
    /\ q \in Seq(AckItems)
    /\ Len(q) <= AckWidth
    /\ \A j \in 1 .. Len(q) : \E k \in NewlyAcked(c, a) : q[j] = AckFor(c, a, k)
    /\ \A i, j \in 1 .. Len(q) : q[i].sequence = q[j].sequence => i = j
    /\ \A k \in NewlyAcked(c, a) : \E j \in 1 .. Len(q) : q[j] = AckFor(c, a, k)

\* A bit that acknowledges a packet for the first time finds it tracked.
LEMMA NewlyAckedBits ==
    ASSUME NEW c, c.sent \in Sent!Buffers(SentData), NEW a \in Headers,
           NEW k \in NewlyAcked(c, a)
    PROVE  /\ k \in 0 .. (AckWidth - 1) /\ k \in a.bits /\ k \in 0 .. (SeqSpace - 1)
           /\ AckSequence(a, k) \in SeqNums
           /\ Sent!Index(AckSequence(a, k)) \in Sent!Slots
           /\ Sent!Exists(c.sent, AckSequence(a, k))
           /\ ~Sent!Find(c.sent, AckSequence(a, k)).acked
           /\ Sent!Find(c.sent, AckSequence(a, k)) \in SentData
<1>1. k \in 0 .. (AckWidth - 1) /\ k \in a.bits
  BY DEF NewlyAcked
<1>2. k \in 0 .. (SeqSpace - 1)
  BY <1>1, LimitAssumption, SeqSpaceAssumption
<1>3. AckSequence(a, k) \in SeqNums
  <2>1. a.ack \in 0 .. (SeqSpace - 1)
    BY DEF Headers, SeqNums
  <2> QED BY <1>2, <2>1, SeqSpaceAssumption DEF AckSequence, WrappingSub, SeqNums
<1>4. Sent!Exists(c.sent, AckSequence(a, k)) /\ ~Sent!Find(c.sent, AckSequence(a, k)).acked
  BY DEF NewlyAcked
<1>5. Sent!Index(AckSequence(a, k)) \in Sent!Slots
  <2> DEFINE s == AckSequence(a, k)
  <2>1. s \in Int /\ SentSize \in Nat \ {0}
    BY <1>3, Sizes, SeqSpaceAssumption DEF SeqNums
  <2> HIDE DEF s
  <2>2. s % SentSize \in 0 .. (SentSize - 1)
    BY <2>1, DivMod
  <2> QED BY <2>2 DEF s, Sent!Index, Sent!Slots
<1>6. Sent!Find(c.sent, AckSequence(a, k)) \in SentData
  <2> DEFINE i == Sent!Index(AckSequence(a, k))
             D == SentData
  <2>1. c.sent.entries \in [Sent!Slots -> [sequence : Sent!SeqNums, data : D] \cup {NoEntry}]
    BY DEF Sent!Buffers
  <2>2. c.sent.entries[i] # NoEntry
    BY <1>4 DEF Sent!Exists
  <2> HIDE DEF i, D
  <2>3. c.sent.entries[i] \in [sequence : Sent!SeqNums, data : D]
    BY <2>1, <2>2, <1>5 DEF i
  <2>4. c.sent.entries[i].data \in D
    BY <2>3
  <2> QED BY <2>4 DEF i, D, Sent!Find
<1> QED BY <1>1, <1>2, <1>3, <1>4, <1>5, <1>6

\* The ack buffer is told of every packet acknowledged, once.
LEMMA NewAcksFacts ==
    ASSUME NEW c, c.sent \in Sent!Buffers(SentData), NEW a \in Headers
    PROVE  Announces(c, a, NewAcks(c, a))
<1> DEFINE S == NewlyAcked(c, a)
           order == Ascending(S)
           n == Cardinality(S)
           q == NewAcks(c, a)
<1>1. IsFiniteSet(S) /\ n <= AckWidth /\ S \subseteq Int /\ Len(order) = n
  BY NewlyAckedFinite DEF NewlyAcked
<1>2. /\ n \in Nat /\ order \in [1 .. n -> S]
      /\ \A i, j \in 1 .. n : order[i] = order[j] => i = j
      /\ \A k \in S : \E j \in 1 .. n : order[j] = k
  <2> HIDE DEF S
  <2> QED BY <1>1, AscendingFacts
<1>3. q = [j \in 1 .. n |-> AckFor(c, a, order[j])]
  <2> QED BY <1>1 DEF NewAcks, Acks, AckFor
<1> HIDE DEF order, n, q, S
<1>4. \A k \in S : AckFor(c, a, k) \in AckItems
  <2> TAKE k \in S
  <2>1. AckSequence(a, k) \in SeqNums /\ Sent!Find(c.sent, AckSequence(a, k)) \in SentData
    BY NewlyAckedBits DEF S
  <2>2. Sent!Find(c.sent, AckSequence(a, k)).id \in Nat
    BY <2>1 DEF SentData
  <2> QED BY <2>1, <2>2 DEF AckFor, AckItems
<1>5. \A j, k \in S : AckSequence(a, j) = AckSequence(a, k) => j = k
  <2> TAKE j, k \in S
  <2>1. j \in 0 .. (SeqSpace - 1) /\ k \in 0 .. (SeqSpace - 1)
    BY NewlyAckedBits DEF S
  <2>2. a.ack \in 0 .. (SeqSpace - 1)
    BY DEF Headers, SeqNums
  <2> QED BY <2>1, <2>2, SeqSpaceAssumption DEF AckSequence, WrappingSub
<1>6. q \in Seq(AckItems) /\ Len(q) = n
  <2>1. q \in [1 .. n -> AckItems]
    BY <1>2, <1>3, <1>4
  <2> QED BY <2>1, <1>2
<1>7. \A j \in 1 .. n : order[j] \in S /\ q[j] = AckFor(c, a, order[j])
  BY <1>2, <1>3
<1>8. \A i, j \in 1 .. n : q[i].sequence = q[j].sequence => i = j
  <2> TAKE i, j \in 1 .. n
  <2>1. \A k : AckFor(c, a, k).sequence = AckSequence(a, k)
    BY DEF AckFor
  <2>2. q[i] = AckFor(c, a, order[i]) /\ q[j] = AckFor(c, a, order[j])
    BY <1>7
  <2>3. q[i].sequence = AckSequence(a, order[i]) /\ q[j].sequence = AckSequence(a, order[j])
    BY ONLY <2>1, <2>2, Zenon
  <2> QED BY <2>3, <1>2, <1>5, <1>7
<1>9. \A k \in S : \E j \in 1 .. n : q[j] = AckFor(c, a, k)
  BY <1>2, <1>7
<1> QED BY <1>1, <1>6, <1>7, <1>8, <1>9 DEF Announces, S, q

\* Flagging keeps the packets in their slots.
LEMMA FlagAckedInOrder ==
    ASSUME NEW b \in Sent!Buffers(SentData), NEW a, NEW S, NEW t, SentL!InOrder(b, t)
    PROVE  SentL!InOrder(FlagAcked(b, a, S), t)
<1> DEFINE c == FlagAcked(b, a, S)
<1>1. /\ c.sequence = b.sequence
      /\ \A i \in Sent!Slots :
             FlaggedAs(b.entries[i], c.entries[i], Hit(a, S, b.entries[i].sequence))
  BY FlagAckedFacts
<1> HIDE DEF c
<1>2. ASSUME NEW i \in SentL!Slots, c.entries[i] # NoEntry
      PROVE  /\ b.entries[i] # NoEntry /\ c.entries[i].sequence = b.entries[i].sequence
             /\ c.entries[i].data.id = b.entries[i].data.id
  BY <1>1, <1>2, SentBridge DEF FlaggedAs
<1>3. SentL!InOrder(c, t)
  BY <1>1, <1>2 DEF SentL!InOrder, SentL!Numbered
<1> QED BY <1>3 DEF c

--------------------------------------------------------------------------------
(* What an endpoint holds and what it exchanges with its peer, as predicates of   *)
(* values, so that the lemmas about them need no primes *)

\* A packet sent as one datagram.
Packets ==
    [kind : {"packet"}, sequence : SeqNums, header : Headers, payload : Seq(Chunks),
     id : Nat]

\* A fragment of a larger one; only the first may carry the packet header.
Fragments ==
    [kind : {"fragment"}, sequence : SeqNums, fragment_id : Nat, num_fragments : Nat,
     header : Headers \cup {NoHeader}, chunk : Chunks, id : Nat]

\* What the incoming queue holds.
Items == [sequence : SeqNums, payload : Seq(Chunks \cup {NoChunk})]

\* The state of an endpoint, by itself.
Sound(c) ==
    /\ EndpointRecord(c)
    /\ c.time \in Nat
    /\ c.counters \in Counters
    /\ c.sent \in Sent!Buffers(SentData)
    /\ c.received \in Received!Buffers(ReceivedData)
    /\ c.reassembly \in Reassemblies
    /\ Synced(c.reassembly)
    /\ c.outgoing \in Seq(Packets \cup Fragments)
    /\ Len(c.outgoing) <= OutgoingSize
    /\ c.incoming \in Seq(Items)
    /\ Len(c.incoming) <= IncomingSize
    /\ c.ack_buf \in Seq(AckItems)
    /\ Len(c.ack_buf) <= AckBufSize

\* Of the ids from low on and below n, those the sequence numbers tell apart.
Recent(low, n) == {m \in 0 .. (n - 1) : low <= m /\ n - m <= SeqSpace}

\* b tracks the newest of the packets low .. n-1, and those marked acknowledged
\* are in A.
Tracks(b, low, n, A) ==
    /\ SentL!InOrder(b, n)
    /\ \A i \in Sent!Slots : b.entries[i] # NoEntry =>
           /\ b.entries[i].data.id >= low
           /\ b.entries[i].data.acked => b.entries[i].data.id \in A

\* t is above the ids in A, next to the greatest of them unless it is low.
Top(low, A, t) ==
    /\ t \in Nat
    /\ low <= t
    /\ \A n \in A : n < t
    /\ t = low \/ t - 1 \in A

\* b records packets of A and R, its head at t.
Remembers(b, t, A, R) ==
    /\ ReceivedL!InOrder(b, t)
    /\ IdsIn(b) \subseteq A \cap R

\* Datagram d is a whole packet, or one fragment of a packet, as it was sent.
Genuine(d) ==
    /\ d.sequence = d.id % SeqSpace
    /\ d \in Packets =>
           /\ d.payload = Payload(d.id, Len(d.payload))
           /\ Len(d.payload) <= FragmentAbove
    /\ d \in Fragments =>
           /\ d.num_fragments > FragmentAbove
           /\ d.fragment_id < d.num_fragments
           /\ d.chunk = Chunk(d.id, d.fragment_id, d.num_fragments)
           /\ d.fragment_id = 0 <=> d.header # NoHeader

\* Header a acknowledges packets in A, and says which.
Vouches(a, A) == Backed(a) /\ a.ids \subseteq A

\* Datagram d is one of the packets low .. n-1, not so old or so new that the
\* receiver, its head at t, misplaces it, and it acknowledges packets in A.
Travels(d, low, n, t, A) ==
    /\ d \in Packets \cup Fragments
    /\ Genuine(d)
    /\ low <= d.id
    /\ d.id < n
    /\ n - d.id < Half + ReceivedSize
    /\ d.id - t < Half - ReceivedSize
    /\ d.header # NoHeader => Vouches(d.header, A)

\* The item is a packet of the peer, whole and under its sequence number.
Intact(item) ==
    \E id \in Nat, len \in Nat \ {0} :
        /\ item.payload = Payload(id, len)
        /\ item.sequence = id % SeqSpace

\* A recent packet is still recent when one more is sent, unless it is as old as
\* the sequence numbers reach.
LEMMA RecentGrows ==
    ASSUME NEW low \in Nat, NEW n \in Nat, NEW m \in Recent(low, n), n - m < SeqSpace
    PROVE  m \in Recent(low, n + 1)
  BY SeqSpaceAssumption DEF Recent

\* Two recent packets with the same sequence number are one packet.
LEMMA RecentUnique ==
    ASSUME NEW low \in Nat, NEW n \in Nat, NEW x \in Recent(low, n),
           NEW y \in Recent(low, n), x % SeqSpace = y % SeqSpace
    PROVE  x = y
<1>1. /\ x \in Int /\ y \in Int /\ x < n /\ y < n
      /\ n - x <= SeqSpace /\ n - y <= SeqSpace /\ SeqSpace \in Nat \ {0}
  BY Sizes DEF Recent
<1>2. CASE y <= x
  BY <1>1, <1>2, ModInjective
<1>3. CASE x <= y
  <2>1. y % SeqSpace = x % SeqSpace /\ y - x < SeqSpace
    BY <1>1, <1>3
  <2> QED BY ONLY <1>1, <1>3, <2>1, ModInjective
<1> QED BY <1>1, <1>2, <1>3

--------------------------------------------------------------------------------
(* The buffers and the datagrams, one operation at a time *)

\* A packet sent is tracked, not yet acknowledged.
LEMMA TracksSend ==
    ASSUME NEW b \in Sent!Buffers(SentData), NEW low \in Nat, NEW n \in Nat, NEW A,
           Tracks(b, low, n, A), low <= n, NEW d \in SentData, d.id = n, ~d.acked
    PROVE  /\ Sent!Insert(b, n % SeqSpace, d) \in Sent!Buffers(SentData)
           /\ Tracks(Sent!Insert(b, n % SeqSpace, d), low, n + 1, A)
<1> DEFINE c == Sent!Insert(b, n % SeqSpace, d)
           j == n % SentSize
<1>1. SentL!InOrder(b, n) /\ n \in Int
  BY DEF Tracks
<1>2. c \in Sent!Buffers(SentData) /\ SentL!TookIn(b, n, n, d, c) /\ SentL!HeadAfter(n, n) = n + 1
  BY <1>1, SentInsert
<1> HIDE DEF c
<1>3. SentL!InOrder(c, n + 1)
  BY <1>2 DEF SentL!TookIn
<1>4. c.entries[j].data = d
  BY <1>2 DEF SentL!TookIn
<1>5. \A i \in Sent!Slots : i # j => (c.entries[i] # NoEntry => c.entries[i] = b.entries[i])
  BY <1>2, SentBridge DEF SentL!TookIn, SentL!KeptExcept
<1>6. ASSUME NEW i \in Sent!Slots, c.entries[i] # NoEntry
      PROVE  /\ c.entries[i].data.id >= low
             /\ c.entries[i].data.acked => c.entries[i].data.id \in A
  <2>1. CASE i = j
    BY <1>4, <2>1
  <2>2. CASE i # j
    BY <1>5, <1>6, <2>2 DEF Tracks
  <2> QED BY <2>1, <2>2
<1> QED BY <1>2, <1>3, <1>6 DEF Tracks, c

\* What SentL!InOrder says of one slot.
LEMMA SentSlot ==
    ASSUME NEW b \in Sent!Buffers(SentData), NEW n \in Nat, SentL!InOrder(b, n),
           NEW i \in Sent!Slots, b.entries[i] # NoEntry
    PROVE  /\ b.entries[i].data.id \in Int
           /\ n - SentSize <= b.entries[i].data.id
           /\ b.entries[i].data.id < n
           /\ b.entries[i].sequence = b.entries[i].data.id % SeqSpace
<1>1. i \in SentL!Slots
  BY SentBridge
<1>2. /\ b.entries[i].data.id \in (n - SentSize) .. (n - 1)
      /\ b.entries[i].sequence = b.entries[i].data.id % SeqSpace
  BY <1>1 DEF SentL!InOrder, SentL!Numbered
<1> QED BY <1>2, Sizes

\* A header that vouches for what it acknowledges marks only what was accepted.
LEMMA TracksFlag ==
    ASSUME NEW b \in Sent!Buffers(SentData), NEW low \in Nat, NEW n \in Nat, NEW A,
           Tracks(b, low, n, A), NEW a, Vouches(a, A \cap Recent(low, n)),
           NEW S, S \subseteq a.bits
    PROVE  /\ FlagAcked(b, a, S) \in Sent!Buffers(SentData)
           /\ Tracks(FlagAcked(b, a, S), low, n, A)
<1> DEFINE c == FlagAcked(b, a, S)
<1>1. c \in Sent!Buffers(SentData)
  BY FlagAckedFacts
<1>2. SentL!InOrder(c, n)
  BY FlagAckedInOrder DEF Tracks
<1>3. \A i \in Sent!Slots :
          FlaggedAs(b.entries[i], c.entries[i], Hit(a, S, b.entries[i].sequence))
  BY FlagAckedFacts
<1> HIDE DEF c
<1>4. ASSUME NEW i \in Sent!Slots, c.entries[i] # NoEntry
      PROVE  /\ c.entries[i].data.id >= low
             /\ c.entries[i].data.acked => c.entries[i].data.id \in A
  <2> DEFINE m == b.entries[i].data.id
  <2>1. /\ b.entries[i] # NoEntry
        /\ c.entries[i].data.id = m
        /\ c.entries[i].data.acked <=>
               b.entries[i].data.acked \/ Hit(a, S, b.entries[i].sequence)
    BY <1>3, <1>4 DEF FlaggedAs
  <2>2. m >= low
    BY <2>1 DEF Tracks
  <2>3. b.entries[i].data.acked => m \in A
    BY <2>1 DEF Tracks
  <2>4. ASSUME Hit(a, S, b.entries[i].sequence) PROVE m \in A
    <3>1. /\ m \in Int /\ n - SentSize <= m /\ m < n
          /\ b.entries[i].sequence = m % SeqSpace
      BY <2>1, SentSlot DEF Tracks
    <3>2. PICK k \in S : b.entries[i].sequence = AckSequence(a, k)
      BY <2>4 DEF Hit
    <3>3. PICK x \in a.ids : x % SeqSpace = AckSequence(a, k)
      BY <3>2 DEF Vouches, Backed
    <3>4. x \in A /\ x \in Recent(low, n)
      BY <3>3 DEF Vouches
    <3> HIDE DEF m
    <3>5. m \in Recent(low, n)
      BY <3>1, <2>2, Sizes DEF Recent
    <3>6. m % SeqSpace = x % SeqSpace
      BY <3>1, <3>2, <3>3
    <3>7. m = x
      BY <3>4, <3>5, <3>6, RecentUnique
    <3> QED BY <3>4, <3>7
  <2> QED BY <2>1, <2>2, <2>3, <2>4
<1> QED BY <1>1, <1>2, <1>4 DEF Tracks, c

\* The head after packet m was recorded.
LEMMA TopGrows ==
    ASSUME NEW low \in Nat, NEW A, A \subseteq Nat, NEW t, Top(low, A, t),
           NEW m \in Nat, low <= m
    PROVE  Top(low, A \cup {m}, ReceivedL!HeadAfter(t, m))
<1> DEFINE u == ReceivedL!HeadAfter(t, m)
<1>1. t \in Nat /\ low <= t /\ \A n \in A : n < t
  BY DEF Top
<1>2. CASE m >= t
  <2>1. u = m + 1
    BY <1>2 DEF ReceivedL!HeadAfter
  <2>2. \A n \in A \cup {m} : n < u
    BY <1>1, <1>2, <2>1
  <2>3. u - 1 = m
    BY <2>1
  <2> QED BY <2>1, <2>2, <2>3, <1>1, <1>2 DEF Top
<1>3. CASE ~(m >= t)
  <2>1. u = t
    BY <1>3 DEF ReceivedL!HeadAfter
  <2> QED BY <2>1, <1>1, <1>3 DEF Top
<1> QED BY <1>2, <1>3

\* The ids in a buffer, by slot.
LEMMA IdsInSlots ==
    ASSUME NEW b \in Received!Buffers(ReceivedData)
    PROVE  /\ DOMAIN b.entries = Received!Slots
           /\ \A i \in Received!Slots : b.entries[i] # NoEntry =>
                  b.entries[i].data.id \in IdsIn(b)
           /\ \A m \in IdsIn(b) : \E i \in Received!Slots :
                  b.entries[i] # NoEntry /\ b.entries[i].data.id = m
<1>1. DOMAIN b.entries = Received!Slots
  BY DEF Received!Buffers
<1> QED BY <1>1 DEF IdsIn

\* A packet the comparison can place is recorded: the head moves up to it if it is
\* ahead, and what the buffer remembers is what was accepted.
LEMMA RemembersRecord ==
    ASSUME NEW b \in Received!Buffers(ReceivedData), NEW low \in Nat, NEW n \in Nat,
           NEW A, A \subseteq Nat, NEW t, Top(low, A, t), t <= n,
           Remembers(b, t, A, Recent(low, n)),
           NEW d \in ReceivedData, low <= d.id, d.id < n,
           n - d.id < Half + ReceivedSize, d.id - t < Half - ReceivedSize
    PROVE  LET c == Received!Insert(b, d.id % SeqSpace, d)
               u == ReceivedL!HeadAfter(t, d.id)
           IN  /\ c \in Received!Buffers(ReceivedData)
               /\ Top(low, A \cup {d.id}, u)
               /\ u <= n
               /\ Remembers(c, u, A \cup {d.id}, Recent(low, n))
<1> DEFINE m == d.id
           c == Received!Insert(b, m % SeqSpace, d)
           u == ReceivedL!HeadAfter(t, m)
<1>1. m \in Nat /\ t \in Nat /\ low <= t
  BY DEF ReceivedData, Top
<1>2. Top(low, A \cup {m}, u)
  <2> HIDE DEF m
  <2> QED BY <1>1, TopGrows DEF m
<1>3. u <= n
  BY <1>1 DEF ReceivedL!HeadAfter
<1>4. m \in Recent(low, n)
  BY <1>1, Sizes DEF Recent
<1>5. CASE t - ReceivedSize <= m
  <2>1. m < t - ReceivedSize + Half
    BY <1>1, Sizes
  <2>2. ReceivedL!InOrder(b, t) /\ m \in Int /\ t \in Int /\ d.id = m
    BY <1>1 DEF Remembers
  <2>3. c \in Received!Buffers(ReceivedData) /\ ReceivedL!TookIn(b, t, m, d, c)
    <3> HIDE DEF m
    <3> QED BY <1>5, <2>1, <2>2, ReceivedInsert
  <2> HIDE DEF c
  <2>4. ReceivedL!InOrder(c, u)
    BY <2>3 DEF ReceivedL!TookIn
  <2>5. c.entries[m % ReceivedSize].data.id = m
    BY <2>3 DEF ReceivedL!TookIn
  <2>6. \A i \in Received!Slots : i # m % ReceivedSize =>
            (c.entries[i] # NoEntry => c.entries[i] = b.entries[i])
    BY <2>3, ReceivedBridge DEF ReceivedL!TookIn, ReceivedL!KeptExcept
  <2>7. IdsIn(c) \subseteq IdsIn(b) \cup {m}
    <3> HIDE DEF m
    <3> SUFFICES ASSUME NEW x \in IdsIn(c), x # m PROVE x \in IdsIn(b)
      OBVIOUS
    <3>1. PICK i \in Received!Slots : c.entries[i] # NoEntry /\ c.entries[i].data.id = x
      BY <2>3, IdsInSlots
    <3>2. i # m % ReceivedSize
      BY <3>1, <2>5
    <3>3. c.entries[i] = b.entries[i]
      BY <3>1, <3>2, <2>6
    <3> QED BY <3>1, <3>3, IdsInSlots
  <2>8. Remembers(c, u, A \cup {m}, Recent(low, n))
    BY <2>4, <2>7, <1>4 DEF Remembers
  <2> QED BY <1>2, <1>3, <2>3, <2>8 DEF c
<1>6. CASE m < t - ReceivedSize
  <2>1. t - ReceivedSize - Half < m
    BY <1>1, Sizes
  <2>2. c = b
    <3>1. ReceivedL!InOrder(b, t) /\ m \in Int /\ t \in Int
      BY <1>1 DEF Remembers
    <3> HIDE DEF m
    <3> QED BY <1>6, <2>1, <3>1, ReceivedBelow
  <2>3. u = t
    BY <1>1, <1>6, Sizes DEF ReceivedL!HeadAfter
  <2>4. Remembers(b, t, A \cup {m}, Recent(low, n))
    BY DEF Remembers
  <2> QED BY <1>2, <1>3, <2>2, <2>3, <2>4
<1> QED BY <1>1, <1>5, <1>6, Sizes

\* The two kinds of datagram.
LEMMA Kinds ==
    /\ \A d \in Packets : ~IsFragment(d) /\ d \notin Fragments /\ d.header # NoHeader
    /\ \A d \in Fragments : IsFragment(d) /\ d \notin Packets
<1>1. \A d \in Packets : d.kind = "packet" /\ d.header \in Headers
  BY DEF Packets
<1>2. \A d \in Fragments : d.kind = "fragment"
  BY DEF Fragments
<1> QED BY <1>1, <1>2, AbsenceAssumption DEF IsFragment

\* A payload is as long as its packet.
LEMMA PayloadFacts ==
    ASSUME NEW id \in Nat, NEW len \in Nat
    PROVE  /\ Payload(id, len) \in Seq(Chunks)
           /\ Len(Payload(id, len)) = len
           /\ DOMAIN Payload(id, len) = 1 .. len
           /\ \A k \in 1 .. len : Payload(id, len)[k] = Chunk(id, k - 1, len)
<1>1. Payload(id, len) = [k \in 1 .. len |-> Chunk(id, k - 1, len)]
  BY DEF Payload
<1>2. \A k \in 1 .. len : Chunk(id, k - 1, len) \in Chunks
  BY DEF Chunk, Chunks
<1>3. Payload(id, len) \in [1 .. len -> Chunks]
  BY <1>1, <1>2
<1> QED BY <1>1, <1>3

\* What a packet sent now puts in flight.
LEMMA RegularTravels ==
    ASSUME NEW n \in Nat, NEW len \in Nat, len <= FragmentAbove, NEW low \in Nat, low <= n,
           NEW t \in Nat, n - t < Half - ReceivedSize,
           NEW a \in Headers, NEW A, Vouches(a, A)
    PROVE  Travels(RegularPacket(n % SeqSpace, a, n, len), low, n + 1, t, A)
<1> DEFINE d == RegularPacket(n % SeqSpace, a, n, len)
<1>1. n % SeqSpace \in SeqNums
  BY DivMod, Sizes DEF SeqNums
<1>2. Payload(n, len) \in Seq(Chunks) /\ Len(Payload(n, len)) = len
  BY PayloadFacts
<1>3. d \in Packets
  BY <1>1, <1>2 DEF RegularPacket, Packets
<1>4. d.sequence = n % SeqSpace /\ d.id = n /\ d.payload = Payload(n, len) /\ d.header = a
  BY DEF RegularPacket
<1> HIDE DEF d
<1>5. Genuine(d)
  BY <1>2, <1>3, <1>4, Kinds DEF Genuine
<1>6. n + 1 - n < Half + ReceivedSize
  BY Sizes
<1> QED BY <1>3, <1>4, <1>5, <1>6, Sizes DEF Travels, d

\* A fragment of a packet just sent may travel.
LEMMA FragmentTravels ==
    ASSUME NEW n \in Nat, NEW len \in Nat, len > FragmentAbove, NEW low \in Nat, low <= n,
           NEW t \in Nat, n - t < Half - ReceivedSize,
           NEW a \in Headers, NEW A, Vouches(a, A), NEW k \in 0 .. (len - 1)
    PROVE  Travels(Fragment(n % SeqSpace, a, n, len, k), low, n + 1, t, A)
<1> DEFINE d == Fragment(n % SeqSpace, a, n, len, k)
           h == IF k = 0 THEN a ELSE NoHeader
<1>1. n % SeqSpace \in SeqNums
  BY DivMod, Sizes DEF SeqNums
<1>2. h \in Headers \cup {NoHeader} /\ (k = 0 <=> h # NoHeader) /\ (h # NoHeader => h = a)
  BY AbsenceAssumption
<1>3. Chunk(n, k, len) \in Chunks /\ k \in Nat
  BY DEF Chunk, Chunks
<1>4. d = [kind |-> "fragment", sequence |-> n % SeqSpace, fragment_id |-> k,
           num_fragments |-> len, header |-> h, chunk |-> Chunk(n, k, len), id |-> n]
  BY DEF Fragment
<1> HIDE DEF d, h
<1>5. d \in Fragments
  BY <1>1, <1>2, <1>3, <1>4 DEF Fragments
<1>6. /\ d.sequence = n % SeqSpace /\ d.id = n /\ d.chunk = Chunk(n, k, len)
      /\ d.fragment_id = k /\ d.num_fragments = len /\ d.header = h
  BY <1>4
<1>7. Genuine(d)
  BY <1>2, <1>5, <1>6, Kinds DEF Genuine
<1>8. n + 1 - n < Half + ReceivedSize
  BY Sizes
<1>9. d.header # NoHeader => Vouches(d.header, A)
  BY <1>2, <1>6
<1> QED BY <1>5, <1>6, <1>7, <1>8, <1>9, Sizes DEF Travels, d

\* So may every datagram of it.
LEMMA DatagramsTravel ==
    ASSUME NEW c, NEW n \in Nat, c.sequence = n % SeqSpace, NEW len \in Nat,
           NEW low \in Nat, low <= n, NEW t \in Nat, n - t < Half - ReceivedSize,
           c.received \in Received!Buffers(ReceivedData), NEW u \in Nat, NEW A, NEW R,
           Remembers(c.received, u, A, R)
    PROVE  LET q == Datagrams(c, n, len)
           IN  /\ q \in Seq(Packets \cup Fragments)
               /\ \A j \in 1 .. Len(q) : Travels(q[j], low, n + 1, t, A \cap R)
<1> DEFINE a == AckHeader(c)
           q == Datagrams(c, n, len)
<1>1. a \in Headers /\ Vouches(a, A \cap R)
  <2>1. ReceivedL!InOrder(c.received, u) /\ u \in Int /\ IdsIn(c.received) \subseteq A \cap R
    BY DEF Remembers
  <2>2. a \in Headers /\ a.ids \subseteq IdsIn(c.received) /\ Backed(a)
    BY <2>1, AckHeaderFacts
  <2> QED BY <2>1, <2>2 DEF Vouches
<1> SUFFICES \E m \in Nat : DOMAIN q = 1 .. m /\ q = [j \in 1 .. m |-> q[j]] /\
             \A j \in 1 .. m : Travels(q[j], low, n + 1, t, A \cap R)
  <2>1. PICK m \in Nat : DOMAIN q = 1 .. m /\ q = [j \in 1 .. m |-> q[j]] /\
             \A j \in 1 .. m : Travels(q[j], low, n + 1, t, A \cap R)
    OBVIOUS
  <2> HIDE DEF q
  <2>2. \A j \in 1 .. m : q[j] \in Packets \cup Fragments
    BY <2>1 DEF Travels
  <2>3. q \in [1 .. m -> Packets \cup Fragments]
    <3> DEFINE T == Packets \cup Fragments
    <3> HIDE DEF T
    <3>1. \A j \in 1 .. m : q[j] \in T
      BY <2>2 DEF T
    <3>2. q \in [1 .. m -> T]
      BY <2>1, <3>1
    <3> QED BY <3>2 DEF T
  <2>4. q \in Seq(Packets \cup Fragments) /\ Len(q) = m
    <3> DEFINE T == Packets \cup Fragments
    <3> HIDE DEF T
    <3>1. q \in [1 .. m -> T]
      BY <2>3 DEF T
    <3>2. q \in Seq(T) /\ Len(q) = m
      BY <3>1
    <3> QED BY <3>2 DEF T
  <2> QED BY <2>1, <2>4 DEF q
<1> HIDE DEF a
<1>2. CASE len > FragmentAbove
  <2>1. q = [k \in 1 .. len |-> Fragment(n % SeqSpace, a, n, len, k - 1)]
    BY <1>2 DEF Datagrams, a
  <2> HIDE DEF q
  <2>2. ASSUME NEW j \in 1 .. len PROVE Travels(q[j], low, n + 1, t, A \cap R)
    <3>1. j - 1 \in 0 .. (len - 1)
      OBVIOUS
    <3> DEFINE k == j - 1
    <3>2. q[j] = Fragment(n % SeqSpace, a, n, len, k)
      BY <2>1
    <3> HIDE DEF k
    <3>3. k \in 0 .. (len - 1)
      BY <3>1 DEF k
    <3>4. Travels(Fragment(n % SeqSpace, a, n, len, k), low, n + 1, t, A \cap R)
      BY <1>1, <1>2, <3>3, FragmentTravels
    <3> QED BY <3>2, <3>4
  <2> QED BY <2>1, <2>2
<1>3. CASE ~(len > FragmentAbove)
  <2> DEFINE d == RegularPacket(n % SeqSpace, a, n, len)
  <2>1. q = <<d>>
    BY <1>3 DEF Datagrams, a
  <2>2. len <= FragmentAbove
    BY <1>3, LimitAssumption
  <2>3. Travels(d, low, n + 1, t, A \cap R)
    BY <1>1, <2>2, RegularTravels
  <2> HIDE DEF d, q
  <2>4. DOMAIN q = 1 .. 1 /\ q[1] = d /\ q = [j \in 1 .. 1 |-> q[j]]
    BY <2>1
  <2> QED BY <2>3, <2>4, SMTT(30)
<1> QED BY <1>2, <1>3

--------------------------------------------------------------------------------
(* An endpoint by itself *)

\* What the outgoing queue gains from send_packet() are datagrams of the packet.
LEMMA SendSound ==
    ASSUME NEW c, Sound(c), NEW n, NEW len \in Nat, NEW c1, Sends(c, n, len, c1),
           c1.sent \in Sent!Buffers(SentData),
           Datagrams(c, n, len) \in Seq(Packets \cup Fragments)
    PROVE  /\ Sound(c1)
           /\ \A d \in ToSet(c1.outgoing) :
                  \/ d \in ToSet(c.outgoing)
                  \/ \E j \in 1 .. Len(Datagrams(c, n, len)) : d = Datagrams(c, n, len)[j]
<1> DEFINE T == Packets \cup Fragments
           q == Datagrams(c, n, len)
           w == WriteAll(c.outgoing, OutgoingSize, q)
<1>1. c.outgoing \in Seq(T) /\ Len(c.outgoing) <= OutgoingSize /\ OutgoingSize \in Nat
  BY LimitAssumption DEF Sound
<1>2. q \in Seq(T)
  OBVIOUS
<1> HIDE DEF T, q
<1>3. /\ w \in Seq(T) /\ Len(w) <= OutgoingSize
      /\ \A i \in 1 .. Len(c.outgoing) : w[i] = c.outgoing[i]
      /\ \A i \in 1 .. Len(w) : i > Len(c.outgoing) =>
             i - Len(c.outgoing) \in 1 .. Len(q) /\ w[i] = q[i - Len(c.outgoing)]
  BY <1>1, <1>2, WriteAllFacts
<1> HIDE DEF w
<1>4. c1.outgoing = c.outgoing \/ c1.outgoing = w
  BY DEF Sends, w, q
<1>5. c1.outgoing \in Seq(T) /\ Len(c1.outgoing) <= OutgoingSize
  BY <1>1, <1>3, <1>4
<1>6. Sound(c1)
  BY <1>5 DEF Sound, Sends, T
<1>7. ASSUME NEW d \in ToSet(c1.outgoing)
      PROVE  d \in ToSet(c.outgoing) \/ \E j \in 1 .. Len(q) : d = q[j]
  <2>1. CASE c1.outgoing = c.outgoing
    BY <1>7, <2>1
  <2>2. CASE c1.outgoing = w
    <3>1. DOMAIN w = 1 .. Len(w) /\ DOMAIN c.outgoing = 1 .. Len(c.outgoing)
          /\ Len(w) \in Nat /\ Len(c.outgoing) \in Nat
      BY <1>1, <1>3
    <3>2. PICK i \in 1 .. Len(w) : d = w[i]
      BY <1>7, <2>2, <3>1 DEF ToSet
    <3>3. CASE i <= Len(c.outgoing)
      <4>1. i \in DOMAIN c.outgoing /\ d = c.outgoing[i]
        BY <3>1, <3>2, <3>3, <1>3
      <4> QED BY <4>1 DEF ToSet
    <3>4. CASE i > Len(c.outgoing)
      BY <3>2, <3>4, <1>3
    <3> QED BY <3>1, <3>3, <3>4
  <2> QED BY <1>4, <2>1, <2>2
<1> QED BY <1>6, <1>7 DEF q

\* A fragment as process_fragment() gets it.
LEMMA FragmentsShape ==
    ASSUME NEW d \in Fragments
    PROVE  FragmentShape(d)
  BY DEF Fragments, FragmentShape

\* A packet that is recorded has a payload.
LEMMA PayloadType ==
    ASSUME NEW c, Sound(c), NEW d \in Packets \cup Fragments, Records(c, d)
    PROVE  /\ PayloadMade(c, d) \in Seq(Chunks \cup {NoChunk})
           /\ Len(PayloadMade(c, d)) \in Nat
<1> DEFINE T == Chunks \cup {NoChunk}
<1>1. CASE d \in Packets
  <2>1. PayloadMade(c, d) = d.payload /\ d.payload \in Seq(Chunks)
    BY <1>1, Kinds DEF PayloadMade, Packets
  <2> QED BY <2>1
<1>2. CASE d \in Fragments
  <2> DEFINE r == c.reassembly
             slot == Collected(r, d)
             n == slot.num_fragments
  <2>1. IsFragment(d) /\ ProcessFragment(r, d).complete
    BY <1>2, Kinds DEF Records
  <2>2. Accepts(r, d)
    BY <2>1 DEF ProcessFragment
  <2>3. r \in Reassemblies /\ Synced(r) /\ FragmentShape(d)
    BY <1>2, FragmentsShape DEF Sound
  <2>4. slot \in SlotStates /\ Consistent(slot)
    <3> HIDE DEF r
    <3> QED BY <2>2, <2>3, CollectedFacts
  <2>5. PayloadMade(c, d) = CopyTo(slot)
    <3>1. ProcessFragment(r, d).reassembly.slots[Tracker!Index(d.sequence)] = slot
      <4> HIDE DEF r
      <4> QED BY <2>2, <2>3, ProcessFragmentFacts
    <3> QED BY <2>1, <3>1 DEF PayloadMade
  <2> HIDE DEF slot
  <2>6. n \in Nat /\ n <= MaxFragments /\ slot.chunks \in [FragmentIds -> T]
    BY <2>4 DEF SlotStates, Consistent
  <2>7. CopyTo(slot) = [k \in 1 .. n |-> slot.chunks[k - 1]]
    BY DEF CopyTo
  <2> HIDE DEF n, T
  <2>8. \A k \in 1 .. n : slot.chunks[k - 1] \in T
    <3> TAKE k \in 1 .. n
    <3>1. k - 1 \in FragmentIds
      BY <2>6, ReassemblyAssumption DEF FragmentIds
    <3> QED BY <3>1, <2>6
  <2>9. CopyTo(slot) \in [1 .. n -> T]
    BY <2>7, <2>8
  <2>10. CopyTo(slot) \in Seq(T) /\ Len(CopyTo(slot)) \in Nat
    BY <2>6, <2>9
  <2> QED BY <2>5, <2>10 DEF T
<1> QED BY <1>1, <1>2

\* What is recorded and delivered of it.
LEMMA NotedType ==
    ASSUME NEW c, Sound(c), NEW d \in Packets \cup Fragments, Records(c, d)
    PROVE  /\ Noted(c, d) \in ReceivedData
           /\ Noted(c, d).id = d.id
           /\ Item(c, d) \in Items
<1> DEFINE m == IF IsFragment(d) THEN Len(PayloadMade(c, d)) ELSE WireHeader + Len(d.payload)
<1>1. d.id \in Nat /\ d.sequence \in SeqNums
  BY DEF Packets, Fragments
<1>2. m \in Nat
  <2>1. CASE d \in Packets
    <3>1. m = WireHeader + Len(d.payload) /\ d.payload \in Seq(Chunks)
      BY <2>1, Kinds DEF Packets
    <3> QED BY <3>1, LimitAssumption
  <2>2. CASE d \in Fragments
    <3>1. m = Len(PayloadMade(c, d))
      BY <2>2, Kinds
    <3> HIDE DEF m
    <3> QED BY <3>1, PayloadType
  <2> QED BY <2>1, <2>2
<1>3. Noted(c, d) = [id |-> d.id, time |-> c.time, packet_bytes |-> PacketHeaderSize + m]
  BY DEF Noted
<1> HIDE DEF m
<1>4. PacketHeaderSize + m \in Nat /\ c.time \in Nat
  BY <1>2, LimitAssumption DEF Sound
<1>5. Noted(c, d) \in ReceivedData /\ Noted(c, d).id = d.id
  BY <1>1, <1>3, <1>4 DEF ReceivedData
<1>6. Item(c, d) \in Items
  BY <1>1, PayloadType DEF Item, Items
<1> QED BY <1>5, <1>6

\* receive_packet() keeps an endpoint sound, if its buffers are.
LEMMA ReceiveSound ==
    ASSUME NEW c, Sound(c), NEW d \in Packets \cup Fragments, Genuine(d), NEW c1,
           Receives(c, d, c1), c1.sent \in Sent!Buffers(SentData),
           c1.received \in Received!Buffers(ReceivedData)
    PROVE  Sound(c1)
<1>1. c1.reassembly \in Reassemblies /\ Synced(c1.reassembly)
  <2>1. CASE d \in Packets
    BY <2>1, Kinds DEF Receives, Sound
  <2>2. CASE d \in Fragments
    <3>1. c1.reassembly = ProcessFragment(c.reassembly, d).reassembly
      BY <2>2, Kinds DEF Receives
    <3>2. c.reassembly \in Reassemblies /\ Synced(c.reassembly) /\ FragmentShape(d)
      BY <2>2, FragmentsShape DEF Sound
    <3> QED BY <3>1, <3>2, ProcessFragmentSynced
  <2> QED BY <2>1, <2>2
<1>2. c1.incoming \in Seq(Items) /\ Len(c1.incoming) <= IncomingSize
  <2>1. c.incoming \in Seq(Items) /\ Len(c.incoming) <= IncomingSize
    BY DEF Sound
  <2>2. CASE Delivers(c, d)
    <3>1. c1.incoming = Append(c.incoming, Item(c, d))
      BY <2>2 DEF Receives
    <3>2. Item(c, d) \in Items /\ Len(c.incoming) < IncomingSize
      BY <2>2, NotedType DEF Delivers
    <3> HIDE DEF Items
    <3> QED BY <2>1, <3>1, <3>2, LimitAssumption
  <2>3. CASE ~Delivers(c, d)
    BY <2>1, <2>3 DEF Receives
  <2> QED BY <2>2, <2>3
<1>3. c1.ack_buf \in Seq(AckItems) /\ Len(c1.ack_buf) <= AckBufSize
  <2>1. c.ack_buf \in Seq(AckItems) /\ Len(c.ack_buf) <= AckBufSize /\ AckBufSize \in Nat
    BY LimitAssumption DEF Sound
  <2>2. CASE TakesAcks(c, d)
    <3>1. c1.ack_buf = WriteAll(c.ack_buf, AckBufSize, NewAcks(c, d.header))
      BY <2>2 DEF Receives, AckBufRoom
    <3>2. d.header \in Headers
      <4>1. CASE d \in Packets
        BY <4>1 DEF Packets
      <4>2. CASE d \in Fragments
        <5>1. d.fragment_id = 0
          BY <2>2, <4>2, Kinds DEF TakesAcks
        <5>2. d.header # NoHeader
          BY <4>2, <5>1 DEF Genuine
        <5> QED BY <4>2, <5>2 DEF Fragments
      <4> QED BY <4>1, <4>2
    <3>3. NewAcks(c, d.header) \in Seq(AckItems)
      BY <3>2, NewAcksFacts DEF Announces, Sound
    <3> QED BY <2>1, <3>1, <3>3, WriteAllFacts
  <2>3. CASE ~TakesAcks(c, d)
    BY <2>1, <2>3 DEF Receives
  <2> QED BY <2>2, <2>3
<1> QED BY <1>1, <1>2, <1>3 DEF Sound, Receives

--------------------------------------------------------------------------------
(* Emptied queues *)

\* Counting keeps the counters natural numbers.
LEMMA CountersStay ==
    ASSUME NEW k \in Counters, NEW f
    PROVE  [k EXCEPT ![f] = @ + 1] \in Counters
<1> DEFINE D == DOMAIN ZeroCounters
<1>1. k \in [D -> Nat]
  BY DEF Counters
<1> HIDE DEF D
<1>2. [k EXCEPT ![f] = @ + 1] = [x \in D |-> IF x = f THEN k[f] + 1 ELSE k[x]]
  BY <1>1
<1>3. \A x \in D : (IF x = f THEN k[f] + 1 ELSE k[x]) \in Nat
  BY <1>1
<1>4. [k EXCEPT ![f] = @ + 1] \in [D -> Nat]
  BY <1>2, <1>3
<1> QED BY <1>4 DEF Counters, D

\* c1 is c with emptied queues or other counters.
Quieted(c, c1) ==
    /\ EndpointRecord(c1) /\ c1.time = c.time /\ c1.sequence = c.sequence
    /\ c1.sent = c.sent /\ c1.received = c.received /\ c1.reassembly = c.reassembly
    /\ c1.outgoing = c.outgoing \/ c1.outgoing = << >>
    /\ c1.incoming = c.incoming \/ c1.incoming = << >>
    /\ c1.ack_buf = c.ack_buf \/ c1.ack_buf = << >>
    /\ c1.counters \in Counters

\* Emptied queues and other counters leave an endpoint sound.
LEMMA SoundQuiet ==
    ASSUME NEW c, Sound(c), NEW c1, Quieted(c, c1)
    PROVE  Sound(c1)
<1>1. \A T : << >> \in Seq(T)
  OBVIOUS
<1>2. Len(<< >>) = 0 /\ 0 <= OutgoingSize /\ 0 <= IncomingSize /\ 0 <= AckBufSize
  BY LimitAssumption
<1>3. c1.outgoing \in Seq(Packets \cup Fragments) /\ Len(c1.outgoing) <= OutgoingSize
  BY <1>1, <1>2 DEF Sound, Quieted
<1>4. c1.incoming \in Seq(Items) /\ Len(c1.incoming) <= IncomingSize
  BY <1>1, <1>2 DEF Sound, Quieted
<1>5. c1.ack_buf \in Seq(AckItems) /\ Len(c1.ack_buf) <= AckBufSize
  BY <1>1, <1>2 DEF Sound, Quieted
<1> QED BY <1>3, <1>4, <1>5 DEF Sound, Quieted

\* The next sequence number.
LEMMA NextSequence ==
    ASSUME NEW n \in Nat
    PROVE  WrappingAdd(n % SeqSpace, 1) = (n + 1) % SeqSpace
<1> DEFINE r == n % SeqSpace
           q == n \div SeqSpace
<1>1. /\ r \in Int /\ q \in Int /\ 0 <= r /\ r < SeqSpace /\ n = SeqSpace * q + r
      /\ SeqSpace \in Nat \ {0} /\ SeqSpace >= 4
  BY DivMod, SeqSpaceAssumption
<1> HIDE DEF r, q
<1>2. CASE r + 1 < SeqSpace
  <2>1. (q * SeqSpace + (r + 1)) % SeqSpace = r + 1
    <3>1. r + 1 \in Int /\ 0 <= r + 1
      BY <1>1
    <3> QED BY ONLY <1>1, <1>2, <3>1, ModUnique
  <2>2. q * SeqSpace + (r + 1) = n + 1
    BY <1>1
  <2> QED BY <1>2, <2>1, <2>2 DEF WrappingAdd, r
<1>3. CASE ~(r + 1 < SeqSpace)
  <2>1. ((q + 1) * SeqSpace + 0) % SeqSpace = 0
    <3>1. q + 1 \in Int /\ 0 \in Int /\ 0 < SeqSpace
      BY <1>1
    <3> QED BY ONLY <1>1, <3>1, ModUnique
  <2>2. r + 1 = SeqSpace
    BY <1>1, <1>3
  <2>3. (q + 1) * SeqSpace + 0 = n + 1
    BY <1>1, <2>2
  <2>4. WrappingAdd(r, 1) = 0
    BY <1>1, <2>2 DEF WrappingAdd
  <2> QED BY <2>1, <2>3, <2>4 DEF r
<1> QED BY <1>2, <1>3

\* Where the acks of a datagram are looked at, it has them.
LEMMA TakesHeader ==
    ASSUME NEW c, NEW d \in Packets \cup Fragments, Genuine(d), TakesAcks(c, d)
    PROVE  d.header \in Headers /\ d.header # NoHeader
<1>1. CASE d \in Packets
  BY <1>1, Kinds DEF Packets
<1>2. CASE d \in Fragments
  <2>1. d.fragment_id = 0
    BY <1>2, Kinds DEF TakesAcks
  <2>2. d.header # NoHeader
    BY <1>2, <2>1 DEF Genuine
  <2> QED BY <1>2, <2>2 DEF Fragments
<1> QED BY <1>1, <1>2

\* The tracked packets after a datagram came in.
LEMMA ReceiveTracks ==
    ASSUME NEW c, Sound(c), NEW d \in Packets \cup Fragments, Genuine(d), NEW c1,
           Receives(c, d, c1), NEW low \in Nat, NEW n \in Nat, NEW A,
           Tracks(c.sent, low, n, A),
           d.header # NoHeader => Vouches(d.header, A \cap Recent(low, n))
    PROVE  c1.sent \in Sent!Buffers(SentData) /\ Tracks(c1.sent, low, n, A)
<1>1. c.sent \in Sent!Buffers(SentData)
  BY DEF Sound
<1>2. CASE TakesAcks(c, d)
  <2> DEFINE a == d.header
             S == NewlyAcked(c, a)
  <2>1. c1.sent = FlagAcked(c.sent, a, S)
    BY <1>2 DEF Receives
  <2>2. Vouches(a, A \cap Recent(low, n))
    BY <1>2, TakesHeader
  <2>3. S \subseteq a.bits
    BY DEF NewlyAcked
  <2> HIDE DEF a, S
  <2> QED BY <1>1, <2>1, <2>2, <2>3, TracksFlag
<1>3. CASE ~TakesAcks(c, d)
  BY <1>1, <1>3 DEF Receives
<1> QED BY <1>2, <1>3

\* Tracking, accepting and travelling while more is accepted.
LEMMA MoreAccepted ==
    ASSUME NEW A, NEW B, A \subseteq B, NEW low, NEW n
    PROVE  /\ \A b : Tracks(b, low, n, A) => Tracks(b, low, n, B)
           /\ \A d, t, R : Travels(d, low, n, t, A \cap R) => Travels(d, low, n, t, B \cap R)
<1>1. \A b : Tracks(b, low, n, A) => Tracks(b, low, n, B)
  BY DEF Tracks
<1>2. \A a, R : Vouches(a, A \cap R) => Vouches(a, B \cap R)
  BY DEF Vouches
<1>3. \A d, t, R : Travels(d, low, n, t, A \cap R) => Travels(d, low, n, t, B \cap R)
  BY <1>2 DEF Travels
<1> QED BY <1>1, <1>3

\* b records packets of B, its head not behind t.
Advances(b, low, n, t, B) ==
    \E u \in Nat : /\ t <= u /\ u <= n
                   /\ Top(low, B, u)
                   /\ Remembers(b, u, B, Recent(low, n))

\* The ids B recorded after datagram d came in, A before.
Admitted(c, d, A, B) == B = IF Records(c, d) THEN A \cup {d.id} ELSE A

\* What the counter says was recorded is what was recorded.
LEMMA ReceiveAdmits ==
    ASSUME NEW c, Sound(c), NEW d, NEW c1, Receives(c, d, c1), NEW A, NEW B,
           B = IF c1.counters.packets_received > c.counters.packets_received
               THEN A \cup {d.id} ELSE A
    PROVE  Admitted(c, d, A, B)
<1>1. c.counters.packets_received \in Nat
  BY CounterStep DEF Sound
<1>2. CASE Records(c, d)
  BY <1>1, <1>2 DEF Receives, Admitted
<1>3. CASE ~Records(c, d)
  BY <1>1, <1>3 DEF Receives, Admitted
<1> QED BY <1>2, <1>3

\* The recorded packets after a datagram came in, and the ids accepted.
LEMMA ReceiveRemembers ==
    ASSUME NEW c, Sound(c), NEW d, NEW c1, Receives(c, d, c1),
           NEW low \in Nat, NEW n \in Nat, NEW t, NEW A, A \subseteq Nat, NEW V,
           Travels(d, low, n, t, V), Top(low, A, t), t <= n,
           Remembers(c.received, t, A, Recent(low, n)), NEW B, Admitted(c, d, A, B)
    PROVE  /\ c1.received \in Received!Buffers(ReceivedData)
           /\ A \subseteq B /\ B \subseteq Nat
           /\ Advances(c1.received, low, n, t, B)
<1>1. d \in Packets \cup Fragments /\ Genuine(d)
  BY DEF Travels
<1>2. d.id \in Nat
  BY <1>1 DEF Packets, Fragments
<1>3. c.received \in Received!Buffers(ReceivedData) /\ t \in Nat
  BY DEF Sound, Top
<1>4. CASE Records(c, d)
  <2> DEFINE x == Noted(c, d)
             u == ReceivedL!HeadAfter(t, x.id)
             b == Received!Insert(c.received, x.id % SeqSpace, x)
  <2>1. B = A \cup {d.id}
    BY <1>4 DEF Admitted
  <2>2. x \in ReceivedData /\ x.id = d.id
    BY <1>1, <1>4, NotedType
  <2>3. c1.received = b
    BY <1>1, <1>4, <2>2 DEF Receives, Genuine
  <2>4. /\ low <= x.id /\ x.id < n /\ n - x.id < Half + ReceivedSize
        /\ x.id - t < Half - ReceivedSize
    BY <2>2 DEF Travels
  <2> HIDE DEF x
  <2>5. /\ b \in Received!Buffers(ReceivedData)
        /\ Top(low, A \cup {x.id}, u)
        /\ u <= n
        /\ Remembers(b, u, A \cup {x.id}, Recent(low, n))
    BY <1>3, <2>2, <2>4, RemembersRecord
  <2>6. u \in Nat /\ t <= u
    BY <1>2, <1>3, <2>2 DEF ReceivedL!HeadAfter
  <2> HIDE DEF b, u
  <2>7. Top(low, B, u) /\ Remembers(c1.received, u, B, Recent(low, n))
    BY <2>1, <2>2, <2>3, <2>5
  <2>8. Advances(c1.received, low, n, t, B)
    BY <2>5, <2>6, <2>7 DEF Advances
  <2> QED BY <1>2, <1>4, <2>1, <2>3, <2>5, <2>8
<1>5. CASE ~Records(c, d)
  <2>1. B = A /\ c1.received = c.received
    BY <1>5 DEF Receives, Admitted
  <2>2. Top(low, B, t) /\ Remembers(c1.received, t, B, Recent(low, n)) /\ t <= t
    BY <1>3, <2>1
  <2>3. Advances(c1.received, low, n, t, B)
    BY <1>3, <2>2 DEF Advances
  <2> QED BY <1>3, <1>5, <2>1, <2>3
<1> QED BY <1>4, <1>5

\* An endpoint just created or reset.
Fresh(c) ==
    /\ EndpointRecord(c)
    /\ c.time \in Nat
    /\ c.sequence = 0
    /\ c.sent = Sent!NewBuffer
    /\ c.received = Received!NewBuffer
    /\ c.reassembly = [tracker |-> Tracker!NewBuffer, slots |-> c.reassembly.slots]
    /\ c.reassembly.slots \in [Tracker!Slots -> SlotStates]
    /\ c.outgoing = << >>
    /\ c.incoming = << >>
    /\ c.ack_buf = << >>
    /\ c.counters \in Counters

\* A fresh endpoint tracks, records and collects nothing.
LEMMA FreshFacts ==
    ASSUME NEW c, Fresh(c), NEW m \in Nat, m % SeqSpace = 0, NEW A, NEW R
    PROVE  /\ Sound(c)
           /\ Tracks(c.sent, m, m, A)
           /\ Remembers(c.received, m, A, R)
           /\ Collects(c.reassembly, R)
<1>1. 0 \in SeqNums
  BY SeqSpaceAssumption DEF SeqNums
<1>2. c.sent \in Sent!Buffers(SentData)
  BY <1>1 DEF Fresh, Sent!NewBuffer, Sent!Buffers, Sent!SeqNums, SeqNums
<1>3. c.received \in Received!Buffers(ReceivedData)
  BY <1>1 DEF Fresh, Received!NewBuffer, Received!Buffers, Received!SeqNums, SeqNums
<1>4. \A i \in Sent!Slots : c.sent.entries[i] = NoEntry
  BY DEF Fresh, Sent!NewBuffer
<1>5. \A i \in Received!Slots : c.received.entries[i] = NoEntry
  BY DEF Fresh, Received!NewBuffer
<1>6. \A i \in Tracker!Slots : c.reassembly.tracker.entries[i] = NoEntry
  BY DEF Fresh, Tracker!NewBuffer
<1>7. c.reassembly \in Reassemblies
  <2>1. Tracker!NewBuffer \in Tracker!Buffers({{}})
    BY <1>1 DEF Tracker!NewBuffer, Tracker!Buffers, Tracker!SeqNums, SeqNums
  <2> QED BY <2>1 DEF Fresh, Reassemblies
<1>8. Synced(c.reassembly) /\ Collects(c.reassembly, R)
  BY <1>6 DEF Synced, Collects
<1>9. /\ c.outgoing \in Seq(Packets \cup Fragments) /\ Len(c.outgoing) <= OutgoingSize
      /\ c.incoming \in Seq(Items) /\ Len(c.incoming) <= IncomingSize
      /\ c.ack_buf \in Seq(AckItems) /\ Len(c.ack_buf) <= AckBufSize
  <2>1. \A T : << >> \in Seq(T)
    OBVIOUS
  <2>2. Len(<< >>) = 0 /\ 0 <= OutgoingSize /\ 0 <= IncomingSize /\ 0 <= AckBufSize
    BY LimitAssumption
  <2> QED BY <2>1, <2>2 DEF Fresh
<1>10. Sound(c)
  BY <1>2, <1>3, <1>7, <1>8, <1>9 DEF Sound, Fresh
<1>11. SentL!InOrder(c.sent, m)
  <2>1. c.sent.sequence = m % SeqSpace
    BY DEF Fresh, Sent!NewBuffer
  <2> QED BY <1>4, <2>1, SentBridge DEF SentL!InOrder, SentL!Numbered
<1>12. ReceivedL!InOrder(c.received, m)
  <2>1. c.received.sequence = m % SeqSpace
    BY DEF Fresh, Received!NewBuffer
  <2> QED BY <1>5, <2>1, ReceivedBridge DEF ReceivedL!InOrder, ReceivedL!Numbered
<1>13. IdsIn(c.received) = {}
  BY <1>3, <1>5, IdsInSlots
<1> QED BY <1>4, <1>8, <1>10, <1>11, <1>12, <1>13 DEF Tracks, Remembers

\* A new endpoint is fresh.
LEMMA NewIsFresh == Fresh(NewEndpoint)
<1>1. EndpointRecord(NewEndpoint)
  BY DEF NewEndpoint, EndpointRecord, Endpoint
<1>2. ZeroCounters \in Counters
  <2>1. \A f \in DOMAIN ZeroCounters : ZeroCounters[f] = 0
    BY DEF ZeroCounters
  <2>2. ZeroCounters = [f \in DOMAIN ZeroCounters |-> ZeroCounters[f]]
    BY DEF ZeroCounters
  <2> QED BY <2>1, <2>2 DEF Counters
<1>3. EmptySlot \in SlotStates
  <2>1. 0 \in SeqNums
    BY SeqSpaceAssumption DEF SeqNums
  <2> QED BY <2>1 DEF EmptySlot, SlotStates
<1>4. NewReassembly.slots \in [Tracker!Slots -> SlotStates]
  BY <1>3 DEF NewReassembly
<1>5. NewReassembly = [tracker |-> Tracker!NewBuffer, slots |-> NewReassembly.slots]
  BY DEF NewReassembly
<1>6. /\ NewEndpoint.time = 0 /\ NewEndpoint.sequence = 0
      /\ NewEndpoint.sent = Sent!NewBuffer /\ NewEndpoint.received = Received!NewBuffer
      /\ NewEndpoint.reassembly = NewReassembly /\ NewEndpoint.outgoing = << >>
      /\ NewEndpoint.incoming = << >> /\ NewEndpoint.ack_buf = << >>
      /\ NewEndpoint.counters = ZeroCounters
  BY DEF NewEndpoint
<1> QED BY <1>1, <1>2, <1>4, <1>5, <1>6 DEF Fresh

================================================================================
