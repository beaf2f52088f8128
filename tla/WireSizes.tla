------------------------------- MODULE WireSizes -------------------------------
(***************************************************************************)
(* The byte sizes of one packet on its way through two endpoints of one    *)
(* configuration: EndpointConfig::validate, the size tests and cuts of     *)
(* send_packet, the fixed slots of the outgoing queue, the size test of    *)
(* receive_packet, the reassembly slab and the slots of the incoming       *)
(* queue.  Bytes are counted, never looked at; the network loses nothing   *)
(* and keeps the order, so whatever is missing at the end, the endpoints   *)
(* lost.                                                                   *)
(***************************************************************************)
EXTENDS Integers, Sequences

CONSTANTS
    Configs,                \* the configurations tried
    HeaderSizes,            \* sizes of an encoded PacketHeader: 4 .. 9
    MaxPacketHeaderBytes,   \* MAX_PACKET_HEADER_BYTES: 9
    FragmentHeaderBytes,    \* FRAGMENT_HEADER_BYTES: 5
    WireFragments,          \* what a u8 fragment count can say: 255
    LengthMod               \* the values of the u16 length of a stored fragment: 65536

ASSUME HeaderAssumption ==
    /\ MaxPacketHeaderBytes \in Nat
    /\ FragmentHeaderBytes \in Nat
    /\ WireFragments \in Nat
    /\ LengthMod \in Nat \ {0}
    /\ HeaderSizes \subseteq 1 .. MaxPacketHeaderBytes

ASSUME ConfigsAssumption ==
    Configs \subseteq [max_packet_size : Nat, fragment_above : Nat,
                       max_fragments : Nat, fragment_size : Nat]

NotSent == -1

VARIABLES
    config,         \* fixed from Endpoint::new on
    sent,           \* length of the packet send_packet accepted, or NotSent
    outgoing,       \* its datagrams: a sequence of [kind, num, header, payload]
    arrived,        \* fragments the receiver has stored
    collected,      \* payload bytes that their stored lengths add up to
    delivered       \* bytes handed to the incoming queue

vars == <<config, sent, outgoing, arrived, collected, delivered>>

Min2(a, b) == IF a < b THEN a ELSE b

\* usize::saturating_sub
SaturatingSub(a, b) == IF a < b THEN 0 ELSE a - b

DivCeil(a, b) == (a + b - 1) \div b

--------------------------------------------------------------------------------
(* Configuration *)

\* The tests of validate() on sizes.
Validate(c) ==
    /\ c.max_packet_size # 0
    /\ c.fragment_size # 0
    /\ c.max_fragments # 0
    /\ c.fragment_above <= c.max_packet_size
    /\ c.max_packet_size <= c.max_fragments * c.fragment_size

MaxDatagramSize(c) == c.fragment_size + FragmentHeaderBytes + MaxPacketHeaderBytes

Init ==
    /\ config \in {c \in Configs : Validate(c)}
    /\ sent = NotSent
    /\ outgoing = << >>
    /\ arrived = 0 /\ collected = 0 /\ delivered = 0

--------------------------------------------------------------------------------
(* Sending *)

\* A datagram written into a slot behind headers of that many bytes.  The
\* header writers want their maximum free, which max_datagram_size provides.
Written(kind, num, header, len) ==
    [kind |-> kind, num |-> num, header |-> header,
     payload |-> Min2(len, SaturatingSub(MaxDatagramSize(config), header))]

RegularPacket(len, h) == Written("packet", 0, h, len)

NumFragments(len) == DivCeil(len, config.fragment_size)

\* Bug: the last chunk is not shortened.
ChunkSizeFull(len, k) == config.fragment_size

\* chunks(fragment_size): all full but the last.
ChunkSize(len, k) == Min2(config.fragment_size, len - (k - 1) * config.fragment_size)

\* The k-th fragment; the first one carries the packet header as well.
FragmentPacket(len, h, k) ==
    Written("fragment", NumFragments(len),
            IF k = 1 THEN FragmentHeaderBytes + h ELSE FragmentHeaderBytes,
            ChunkSize(len, k))

\* Bug: nobody asks whether a byte can count the fragments.
FragmentPacketsUncounted(len, h) ==
    IF NumFragments(len) > config.max_fragments THEN << >> ELSE
    [k \in 1 .. NumFragments(len) |-> FragmentPacket(len, h, k)]

FragmentPackets(len, h) ==
    IF NumFragments(len) > config.max_fragments \/ NumFragments(len) > WireFragments
    THEN << >>
    ELSE [k \in 1 .. NumFragments(len) |-> FragmentPacket(len, h, k)]

\* send_packet() of a packet it accepts.  The outgoing queue has room.
SendPacket(len, h) ==
    /\ len <= config.max_packet_size
    /\ sent' = len
    /\ outgoing' = IF len > config.fragment_above
                   THEN FragmentPackets(len, h)
                   ELSE <<RegularPacket(len, h)>>
    /\ UNCHANGED <<config, arrived, collected, delivered>>

--------------------------------------------------------------------------------
(* Receiving *)

DatagramSize(d) == d.header + d.payload

\* Bug: the limit forgets the packet header.
TooLargeWithoutHeader(d) == DatagramSize(d) > config.max_packet_size

\* receive_packet() drops a datagram above this size.
TooLarge(d) == DatagramSize(d) > config.max_packet_size + MaxPacketHeaderBytes

ReceiveTooLarge(d) ==
    /\ TooLarge(d)
    /\ UNCHANGED <<arrived, collected, delivered>>

\* push() into a slot of max_packet_size bytes.
ReceiveRegular(d) ==
    /\ ~TooLarge(d)
    /\ d.kind = "packet"
    /\ delivered' = Min2(d.payload, config.max_packet_size)
    /\ UNCHANGED <<arrived, collected>>

\* store_fragment(): what fits a slot of the slab, its length cast to a u16.
StoredLength(d) == Min2(d.payload, config.fragment_size) % LengthMod

\* process_fragment() of the peer's next fragment: the last one to arrive
\* copies out as many bytes of each as its stored length says.
ReceiveFragment(d) ==
    /\ ~TooLarge(d)
    /\ d.kind = "fragment"
    /\ arrived' = arrived + 1
    /\ collected' = collected + StoredLength(d)
    /\ delivered' = IF arrived' = d.num THEN collected' ELSE delivered

ReceivePacket ==
    /\ outgoing # << >>
    /\ outgoing' = Tail(outgoing)
    /\ \/ ReceiveTooLarge(Head(outgoing))
       \/ ReceiveRegular(Head(outgoing))
       \/ ReceiveFragment(Head(outgoing))
    /\ UNCHANGED <<config, sent>>

\* One packet is followed.
Next ==
    \/ /\ sent = NotSent
       /\ \E len \in 0 .. config.max_packet_size, h \in HeaderSizes : SendPacket(len, h)
    \/ ReceivePacket

Spec == Init /\ [][Next]_vars

--------------------------------------------------------------------------------

Datagram == [kind : {"packet", "fragment"}, num : 0 .. WireFragments,
             header : Nat, payload : Nat]

\* Type invariant; the count of a fragment is a byte.
TypeOK ==
    /\ config \in Configs
    /\ sent \in Nat \cup {NotSent}
    /\ outgoing \in Seq(Datagram)
    /\ arrived \in Nat /\ collected \in Nat /\ delivered \in Nat

Arrived == sent # NotSent /\ outgoing = << >>

\* What send_packet accepted arrives whole when the network loses nothing:
\* validate() is to refuse any configuration for which a slot, a limit or a
\* counter gets in the way.
AcceptedArrivesWhole == Arrived => delivered = sent

\* The configurations for which the sizes fit together: a packet that is not
\* fragmented fits a slot behind the longest header, and if any is fragmented the
\* datagram with the first fragment is within the receive limit and a u16 holds
\* the length of a full fragment; a u8 counts the fragments.
Coherent(c) ==
    /\ c.fragment_above <= c.fragment_size + FragmentHeaderBytes
    /\ \/ c.fragment_above = c.max_packet_size
       \/ /\ c.fragment_size + FragmentHeaderBytes <= c.max_packet_size
          /\ c.fragment_size < LengthMod
    /\ c.max_packet_size <= WireFragments * c.fragment_size

\* For every configuration that is valid and coherent, each packet that
\* send_packet accepts arrives whole: no cut in a slot, no fragment refused
\* for its size or stored under a shorter length, no packet of too many fragments.
CoherentArrivesWhole == Coherent(config) => AcceptedArrivesWhole

\* Where an accepted packet can be: in its one datagram or handed over, or in
\* fragments, of which those that arrived hold exactly its first bytes and the
\* others are still to come.
InTransit ==
    /\ sent \in 0 .. config.max_packet_size
    /\ \/ /\ sent <= config.fragment_above
          /\ \/ \E h \in HeaderSizes : outgoing = <<RegularPacket(sent, h)>>
             \/ outgoing = << >> /\ delivered = sent
       \/ /\ sent > config.fragment_above
          /\ arrived \in 0 .. NumFragments(sent)
          /\ collected = Min2(arrived * config.fragment_size, sent)
          /\ arrived = NumFragments(sent) => delivered = sent
          /\ \E h \in HeaderSizes :
                outgoing = [j \in 1 .. (NumFragments(sent) - arrived) |->
                                FragmentPacket(sent, h, arrived + j)]

\* No byte of an accepted packet goes missing at any point of its way: not when
\* it is cut into slots, not in the size test of receive_packet, not in the
\* slab.  The strengthening that CoherentArrivesWhole is proved from.
NothingMissing ==
    Coherent(config) =>
        \/ sent = NotSent /\ outgoing = << >> /\ arrived = 0 /\ collected = 0
        \/ InTransit

================================================================================
