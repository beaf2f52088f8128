------------------------------- MODULE LossyLoop -------------------------------
(***************************************************************************)
(* The frame loop of examples/with_packet_loss.rs (and, when nothing is    *)
(* dropped, of examples/basic.rs): one thread drives a client and a server *)
(* endpoint, one message and one response per frame, over a network that   *)
(* drops either.  It is the loop in which acks, RTT, loss and bandwidth    *)
(* meet: every one of them must be explained by what the network dropped.  *)
(*                                                                         *)
(* Time is counted in frames.  The n-th frame sends the client's packet n  *)
(* and the server's packet n.                                              *)
(***************************************************************************)
EXTENDS Statistics

CONSTANTS
    Frames,     \* 500 in the code
    MaxDrops    \* bound: datagrams the network drops

ASSUME LoopAssumption ==
    /\ 1 <= FragmentAbove                               \* messages are not fragmented
    /\ MaxDrops <= Half - ReceivedSize                  \* the comparison reaches that far

VARIABLES
    client, server, \* the endpoints
    frame,          \* loop counter
    step,           \* what the frame does next
    up, down,       \* history: frames whose message, whose response came through
    drops           \* datagrams dropped so far

vars == <<client, server, frame, step, up, down, drops>>

MessageLen == 1

Init ==
    /\ client = NewEndpoint /\ server = NewEndpoint
    /\ frame = 0 /\ step = "send"
    /\ up = {} /\ down = {} /\ drops = 0

\* The closure of drain_outgoing: random_range() decides whether the other
\* endpoint receives the datagram.
Deliver(to, datagrams, dropped) ==
    IF dropped THEN to ELSE FoldLeft(ReceivePacket, to, datagrams)

Drop(dropped) ==
    /\ dropped => drops < MaxDrops
    /\ drops' = IF dropped THEN drops + 1 ELSE drops

\* client.send_packet() and its drain_outgoing() into the server.
ClientSends(dropped) ==
    /\ step = "send" /\ frame < Frames
    /\ Drop(dropped)
    /\ LET c == SendPacket(client, frame, MessageLen)
       IN  /\ client' = DrainOutgoing(c)
           /\ server' = Deliver(server, c.outgoing, dropped)
    /\ up' = IF dropped THEN up ELSE up \cup {frame}
    /\ step' = "respond"
    /\ UNCHANGED <<frame, down>>

\* server.drain_incoming(), send_packet() and its drain_outgoing() into the
\* client.  The server never clears its acks.
ServerResponds(dropped) ==
    /\ step = "respond"
    /\ Drop(dropped)
    /\ LET s == SendPacket(DrainIncoming(server), frame, MessageLen)
       IN  /\ server' = DrainOutgoing(s)
           /\ client' = Deliver(client, s.outgoing, dropped)
    /\ down' = IF dropped THEN down ELSE down \cup {frame}
    /\ step' = "update"
    /\ UNCHANGED <<frame, up>>

\* The rest of the frame: the client's drain_incoming() and clear_acks(), and
\* both updates.
EndFrame ==
    /\ step = "update"
    /\ client' = UpdateEndpoint(ClearAcks(DrainIncoming(client)), frame + 1)
    /\ server' = UpdateEndpoint(server, frame + 1)
    /\ frame' = frame + 1
    /\ step' = "send"
    /\ UNCHANGED <<up, down, drops>>

Next ==
    \/ \E dropped \in BOOLEAN : ClientSends(dropped) \/ ServerResponds(dropped)
    \/ EndFrame

Spec == Init /\ [][Next]_vars

--------------------------------------------------------------------------------

TypeOK ==
    /\ step \in {"send", "respond", "update"}
    /\ \A c \in {client, server} :
           /\ c.time = frame
           /\ c.sequence \in SeqNums
           /\ Len(c.ack_buf) <= AckBufSize
           /\ c.packet_loss \in 0 .. NumSamples
           /\ c.rtt \in 0 .. Frames

\* How many packets, the newest received one included, a header acknowledges.
Reach == IF AckWidth < ReceivedSize THEN AckWidth ELSE ReceivedSize

\* For each of the client's packets the frames whose response acknowledged it:
\* those that came through while no message out of reach of it was received.
ClientAckers == [n \in 0 .. frame |->
    IF n \notin up THEN {} ELSE
    {m \in down : n <= m /\ \A k \in up : k <= m => k < n + Reach}]

\* For each of the server's packets the frames whose message acknowledged it.
ServerAckers == [n \in 0 .. frame |->
    IF n \notin down THEN {} ELSE
    {m \in up : n < m /\ \A k \in down : k < m => k < n + Reach}]

\* Packet n was acknowledged before frame g.
AckedBefore(ackers, n, g) == \E m \in ackers[n] : m < g

AckedExactlyAt(c, ackers) ==
    \A i \in Sent!Slots : LET entry == c.sent.entries[i] IN
        entry # NoEntry =>
            (entry.data.acked <=> AckedBefore(ackers, entry.data.id, frame + 1))

\* endpoint.rs, "ACK Mechanism": a packet counts as acknowledged exactly when
\* it was received and one of the packets that came back was sent while it was
\* among the last AckWidth received.  Losing a response loses no ack as long
\* as a later one comes through in time.  (ADR-003: "loss detection, RTT" do
\* not depend on the ack buffer; the server's overflows here.)
AckedExactly ==
    /\ AckedExactlyAt(client, ClientAckers)
    /\ AckedExactlyAt(server, ServerAckers)

\* Of the packets in a range those that were sent, and not acknowledged, before
\* frame g.
Unacked(ackers, range, g) ==
    {n \in range : n \in 0 .. (g - 1) /\ ~AckedBefore(ackers, n, g)}

\* endpoint.rs:43-44: the packet loss is the "fraction of unacked entries in the
\* older half of the sent-packet ring buffer", once the ring is full.  (The code
\* does not keep this: LossWindow.cfg.)
LossOfOlderHalf ==
    LET olderHalf == (frame - SentSize) .. (frame - NumSamples - 1)
        Exact(c, ackers) == c.packet_loss = Cardinality(Unacked(ackers, olderHalf, frame))
    IN  step = "send" /\ frame >= SentSize =>
            Exact(client, ClientAckers) /\ Exact(server, ServerAckers)

\* The same lines, of a ring without an unacked entry in either half: there is no
\* packet loss to report, whether or not the sequence has just wrapped.
NoLossWhenAllAcked ==
    LET tracked == (frame - SentSize) .. (frame - 1)
        Quiet(c, ackers) == Unacked(ackers, tracked, frame) = {} => c.packet_loss = 0
    IN  step = "send" /\ frame >= SentSize =>
            Quiet(client, ClientAckers) /\ Quiet(server, ServerAckers)

\* How far the estimate of update_packet_loss is off at most: it is the loss of the
\* older half of the ring, give or take one packet at either end, at the end of one
\* of the last NumSamples frames; this before the ring is full and across the wrap.
LossExplained ==
    LET Within(c, ackers, g) ==
            /\ Cardinality(Unacked(ackers, (g - SentSize + 1) .. (g - NumSamples - 1), g))
                   <= c.packet_loss
            /\ c.packet_loss
                   <= Cardinality(Unacked(ackers, (g - SentSize) .. (g - NumSamples), g))
        Explained(c, ackers) ==
            \E g \in 0 .. frame : g >= frame - NumSamples /\ Within(c, ackers, g)
    IN  step = "send" => Explained(client, ClientAckers) /\ Explained(server, ServerAckers)

RttExactAt(c, ackers) ==
    LET acked == {n \in 0 .. frame : ackers[n] # {}}
        first(n) == Min(ackers[n])
        last == Max({first(n) : n \in acked})
    IN  c.rtt = IF acked = {} THEN 0
                ELSE last - Min({n \in acked : first(n) = last})

\* process_acks: the RTT sample is the time from sending a packet to the first
\* packet that acknowledged it, whatever the later ones repeat; the oldest of
\* the packets acknowledged together is the last to be folded in.
RttExact ==
    step = "send" => RttExactAt(client, ClientAckers) /\ RttExactAt(server, ServerAckers)

\* The rate last measured over the packets Looked(g), of size bytes each and one
\* per frame.
LastRate(Looked(_), size) ==
    LET spanning == {g \in 1 .. frame : Cardinality(Looked(g)) > 1}
        packets  == Looked(Max(spanning))
    IN  IF spanning = {} THEN NoRate ELSE
        [bytes |-> size * Cardinality(packets), duration |-> Max(packets) - Min(packets)]

\* update_bandwidth: at the end of a frame the client's rates are those of the
\* packets it tracks, of the acknowledged ones among them, and the server's of
\* the messages it tracks, as of the last frame in which there were two of them.
BandwidthExact ==
    LET ackers      == ClientAckers
        tracked(g)  == {n \in 0 .. (g - 1) : n >= g - SentSize}
        acked(g)    == {n \in tracked(g) : AckedBefore(ackers, n, g)}
        came(g)     == {n \in up : n < g}
        received(g) == {n \in came(g) : n > Max(came(g)) - ReceivedSize}
        size        == PacketHeaderSize + MessageLen
    IN  step = "send" =>
            /\ client.sent_bandwidth = LastRate(tracked, size)
            /\ client.acked_bandwidth = LastRate(acked, size)
            /\ server.received_bandwidth = LastRate(received, size + WireHeader)

================================================================================
