------------------------------ MODULE PacketCodec ------------------------------
(***************************************************************************)
(* The bytes on the wire: PacketHeader of src/packet.rs, FragmentHeader of *)
(* src/fragment.rs, and the way send_packet puts them in front of a        *)
(* payload and receive_packet takes them off again.  A datagram may be cut *)
(* short on its way, as by a receive buffer that is too small for it.      *)
(*                                                                         *)
(* All widths are the real ones.  A byte is a number, ack_bits are its     *)
(* four bytes, the lowest first.                                           *)
(***************************************************************************)
EXTENDS Integers, Sequences

CONSTANTS
    PacketHeaders,      \* the packet headers written
    FragmentHeaders,    \* the fragment headers written
    Payloads            \* the payloads: sequences of bytes

\* The unsigned integers below n.
Unsigned(n) == 0 .. (n - 1)

U8  == Unsigned(256)
U16 == Unsigned(65536)

PacketHeader   == [sequence : U16, ack : U16, ack_bits : [1 .. 4 -> U8]]
FragmentHeader == [sequence : U16, fragment_id : U8, num_fragments : U8]

ASSUME CodecAssumption ==
    /\ PacketHeaders \subseteq PacketHeader
    /\ FragmentHeaders \subseteq FragmentHeader
    /\ Payloads \subseteq Seq(U8)

MAX_PACKET_HEADER_BYTES == 9
FRAGMENT_HEADER_BYTES == 5

None == [none |-> TRUE]
NoHeader == [sequence |-> 0, ack |-> 0, ack_bits |-> <<0, 0, 0, 0>>]
NoFragment == [sequence |-> 0, fragment_id |-> 0, num_fragments |-> 0]

VARIABLES
    datagram,   \* what the sender encoded: [kind, fragment, header, payload]
    wire,       \* its bytes, as far as they get
    result      \* what receive_packet made of them

vars == <<datagram, wire, result>>

ToLeBytes(n) == <<n % 256, n \div 256>>

FromLeBytes(low, high) == low + 256 * high

\* byte & mask # 0 for a mask 1 << i.
Bit(byte, mask) == (byte \div mask) % 2 = 1

Flag(b, mask) == IF b THEN mask ELSE 0

--------------------------------------------------------------------------------
(* Writing *)

SequenceDiff(h) == (h.sequence - h.ack) % 65536

\* Bug: a difference of 256 is taken to fit a byte.
ShortAckOffByOne(h) == SequenceDiff(h) <= 256

ShortAck(h) == SequenceDiff(h) <= 255

\* Bug: the shifts count from 0, the bit kept for the fragment flag.
PrefixFromBit0(h) ==
    Flag(h.ack_bits[1] # 255, 1) + Flag(h.ack_bits[2] # 255, 2)
    + Flag(h.ack_bits[3] # 255, 4) + Flag(h.ack_bits[4] # 255, 8)
    + Flag(ShortAck(h), 16)

\* Bits 1 to 4: the bytes of ack_bits that follow; bit 5: a one-byte ack.
Prefix(h) ==
    Flag(h.ack_bits[1] # 255, 2) + Flag(h.ack_bits[2] # 255, 4)
    + Flag(h.ack_bits[3] # 255, 8) + Flag(h.ack_bits[4] # 255, 16)
    + Flag(ShortAck(h), 32)

\* Bug: the ack is written in full behind its difference.
AckBytesTwice(h) ==
    IF ShortAck(h) THEN <<SequenceDiff(h) % 256>> \o ToLeBytes(h.ack) ELSE ToLeBytes(h.ack)

AckBytes(h) == IF ShortAck(h) THEN <<SequenceDiff(h) % 256>> ELSE ToLeBytes(h.ack)

\* A byte of ack_bits is written unless it is 0xFF.
AckBitsByte(byte) == IF byte # 255 THEN <<byte>> ELSE << >>

\* write_to_slice() and write(): a header as bytes.
WriteHeader(h) ==
    <<Prefix(h)>> \o ToLeBytes(h.sequence) \o AckBytes(h)
    \o AckBitsByte(h.ack_bits[1]) \o AckBitsByte(h.ack_bits[2])
    \o AckBitsByte(h.ack_bits[3]) \o AckBitsByte(h.ack_bits[4])

WriteFragmentHeader(f) ==
    <<1>> \o ToLeBytes(f.sequence) \o <<f.fragment_id, f.num_fragments>>

--------------------------------------------------------------------------------
(* Reading *)

\* PacketHeader::read(): the header and its size, or None.  pos0 is the end of the
\* ack, pos1 to pos4 the ends of the bytes of ack_bits, of which one that is left
\* out takes no room.  The code tests the length before each part; a header is
\* refused if any part is missing.
ReadHeader(data) ==
    IF Len(data) < 3 \/ Bit(data[1], 1) THEN None ELSE
    LET sequence == FromLeBytes(data[2], data[3])
        has(mask) == Bit(data[1], mask)
        byte(mask, pos) == IF has(mask) THEN data[pos] ELSE 255
        pos0 == IF has(32) THEN 4 ELSE 5
        pos1 == pos0 + Flag(has(2), 1)
        pos2 == pos1 + Flag(has(4), 1)
        pos3 == pos2 + Flag(has(8), 1)
        pos4 == pos3 + Flag(has(16), 1)
    IN  IF Len(data) < pos4 THEN None ELSE
        [header |-> [sequence |-> sequence,
                     ack |-> IF has(32) THEN (sequence - data[4]) % 65536
                             ELSE FromLeBytes(data[4], data[5]),
                     ack_bits |-> <<byte(2, pos1), byte(4, pos2),
                                    byte(8, pos3), byte(16, pos4)>>],
         size   |-> pos4]

\* Bug: a fragment header alone is taken for a cut one.
ReadFragmentHeaderStrict(data) ==
    IF Len(data) <= FRAGMENT_HEADER_BYTES \/ ~Bit(data[1], 1) THEN None ELSE
    [sequence |-> FromLeBytes(data[2], data[3]),
     fragment_id |-> data[4], num_fragments |-> data[5]]

ReadFragmentHeader(data) ==
    IF Len(data) < FRAGMENT_HEADER_BYTES \/ ~Bit(data[1], 1) THEN None ELSE
    [sequence |-> FromLeBytes(data[2], data[3]),
     fragment_id |-> data[4], num_fragments |-> data[5]]

From(data, n) == SubSeq(data, n + 1, Len(data))

IsFragmentPacket(data) == Bit(data[1], 1)

Waiting == [status |-> "waiting"]

Refused == [status |-> "refused"]

Accept(kind, f, h, payload) ==
    [status |-> "accepted", kind |-> kind, fragment |-> f, header |-> h, payload |-> payload]

ParseRegular(data) ==
    LET r == ReadHeader(data)
    IN  IF r = None THEN Refused
        ELSE Accept("packet", NoFragment, r.header, From(data, r.size))

\* The first fragment has a packet header behind its fragment header.
ParseFragment(data) ==
    LET f    == ReadFragmentHeader(data)
        rest == From(data, FRAGMENT_HEADER_BYTES)
        r    == ReadHeader(rest)
    IN  IF f = None THEN Refused
        ELSE IF f.fragment_id # 0 THEN Accept("fragment", f, NoHeader, rest)
        ELSE IF r = None THEN Refused
        ELSE Accept("fragment", f, r.header, From(rest, r.size))

\* receive_packet() as far as the headers are concerned.
Parse(data) ==
    IF data = << >> THEN Refused
    ELSE IF IsFragmentPacket(data) THEN ParseFragment(data) ELSE ParseRegular(data)

--------------------------------------------------------------------------------

Regular(h, p) == [kind |-> "packet", fragment |-> NoFragment, header |-> h, payload |-> p]

Fragment(f, h, p) ==
    [kind |-> "fragment", fragment |-> f,
     header |-> IF f.fragment_id = 0 THEN h ELSE NoHeader, payload |-> p]

HeaderBytes(d) ==
    (IF d.kind = "fragment" THEN WriteFragmentHeader(d.fragment) ELSE << >>)
    \o (IF d.kind = "packet" \/ d.fragment.fragment_id = 0
        THEN WriteHeader(d.header) ELSE << >>)

Send(d) ==
    /\ wire = << >>
    /\ datagram' = d
    /\ wire' = HeaderBytes(d) \o d.payload
    /\ result' = Waiting

\* send_regular_packet() and send_fragmented_packet(), one datagram.
SendRegular(h, p) == Send(Regular(h, p))

SendFragment(f, h, p) == Send(Fragment(f, h, p))

Init ==
    /\ datagram = Regular(NoHeader, << >>)
    /\ wire = << >>
    /\ result = Waiting

\* The network delivers only the first n bytes.
Cut(n) ==
    /\ result = Waiting
    /\ wire' = SubSeq(wire, 1, n)
    /\ UNCHANGED <<datagram, result>>

\* receive_packet().
Receive ==
    /\ result = Waiting
    /\ wire # << >>
    /\ result' = Parse(wire)
    /\ UNCHANGED <<datagram, wire>>

Next ==
    \/ \E h \in PacketHeaders, p \in Payloads : SendRegular(h, p)
    \/ \E f \in FragmentHeaders, h \in PacketHeaders, p \in Payloads : SendFragment(f, h, p)
    \/ \E n \in 1 .. Len(wire) : Cut(n)
    \/ Receive

Spec == Init /\ [][Next]_vars

--------------------------------------------------------------------------------

\* Type invariant: what is on the wire are bytes, and bit 0 of the first one, which
\* receive_packet tells the kinds apart by, is set in fragments and clear in all
\* other packets, whatever their headers say.
TypeOK ==
    /\ datagram.header \in PacketHeader
    /\ datagram.fragment \in FragmentHeader
    /\ wire \in Seq(U8)
    /\ wire # << >> => (IsFragmentPacket(wire) <=> datagram.kind = "fragment")
    /\ result.status \in {"waiting", "refused", "accepted"}

\* The header of a datagram never takes more than the bytes that
\* write_to_slice makes sure of before it writes without further tests, and
\* never less than the documented minimum.
HeaderFits ==
    LET size == Len(WriteHeader(datagram.header))
    IN  size \in 4 .. MAX_PACKET_HEADER_BYTES

\* Whatever the receiver accepts, of a whole datagram or of a cut one, is what
\* the sender encoded: kind, both headers, and the payload from its first byte
\* up to the cut.
NothingMisread ==
    result.status = "accepted" =>
        /\ result.kind = datagram.kind
        /\ result.fragment = datagram.fragment
        /\ result.header = datagram.header
        /\ Len(result.payload) <= Len(datagram.payload)
        /\ result.payload = SubSeq(datagram.payload, 1, Len(result.payload))
        /\ Len(wire) = Len(HeaderBytes(datagram)) + Len(result.payload)

\* Only a datagram that was cut within its header is refused.
OnlyCutHeaderRefused ==
    result.status = "refused" => Len(wire) < Len(HeaderBytes(datagram))

================================================================================
