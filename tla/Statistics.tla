------------------------------ MODULE Statistics ------------------------------
(***************************************************************************)
(* Endpoint::update of src/endpoint.rs: which tracked packets the loss and *)
(* bandwidth estimates are taken from, and when they are left alone.  (The *)
(* RTT is measured by process_acks, in module Endpoint.)                   *)
(*                                                                         *)
(* The loss is kept as the number of packets counted as dropped, out of    *)
(* NumSamples; a bandwidth as the bytes and the time of which it is the    *)
(* quotient.                                                               *)
(***************************************************************************)
EXTENDS Endpoint, FiniteSetsExt

CONSTANTS
    LossFactor,         \* packet_loss_smoothing_factor
    BandwidthFactor     \* bandwidth_smoothing_factor

ASSUME FactorAssumption == LossFactor \in {0, 1} /\ BandwidthFactor \in {0, 1}

NumSamples == SentSize \div 2

\* The n sequences from base on.
SequencesFrom(base, n) == {WrappingAdd(base, i % SeqSpace) : i \in 0 .. (n - 1)}

--------------------------------------------------------------------------------
(* Packet loss *)

\* Bug: the base does not wrap.
LossBaseSaturating(b) ==
    IF b.sequence < SentSize THEN 1 ELSE b.sequence - SentSize + 1

LossBase(b) == WrappingAdd(WrappingSub(b.sequence, SentSize % SeqSpace), 1)

NumDropped(b) ==
    Cardinality({seq \in SequencesFrom(LossBase(b), NumSamples) :
                     Sent!Exists(b, seq) /\ ~Sent!Find(b, seq).acked})

\* The test for enough samples compares the raw sequence, so it also holds the
\* estimate back after every wrap.
UpdatePacketLoss(c) ==
    IF c.sent.sequence < NumSamples % SeqSpace THEN c ELSE
    [c EXCEPT !.packet_loss = SmoothValue(@, NumDropped(c.sent), LossFactor)]

--------------------------------------------------------------------------------
(* Bandwidth *)

\* Bug: the earliest time is looked for from 0 downwards.
EarliestFromZero(times) == Min(times \cup {0})

Earliest(times) == Min(times)

Latest(times) == Max(times \cup {0})

\* The estimate after a look at packets, a function from sequences to times and
\* sizes.  It stays as it is unless they span some time.
Measured(rate, packets) ==
    LET times      == {packets[seq].time : seq \in DOMAIN packets}
        bytes(seq) == packets[seq].packet_bytes
    IN  IF times = {} \/ Latest(times) <= Earliest(times) THEN rate ELSE
        SmoothValue(rate, [bytes    |-> MapThenSumSet(bytes, DOMAIN packets),
                           duration |-> Latest(times) - Earliest(times)],
                    BandwidthFactor)

UpdateBandwidth(c) ==
    LET data(seq)     == Sent!Find(c.sent, seq)
        sentData(seq) == [time |-> data(seq).time,
                          packet_bytes |-> PacketHeaderSize + data(seq).len]
        sent  == {seq \in SequencesFrom(WrappingSub(c.sent.sequence, SentSize % SeqSpace),
                                        SentSize) : Sent!Exists(c.sent, seq)}
        acked == {seq \in sent : data(seq).acked}
        recv  == {seq \in SequencesFrom(WrappingSub(c.received.sequence,
                                                    ReceivedSize % SeqSpace),
                                        ReceivedSize) : Received!Exists(c.received, seq)}
    IN  [c EXCEPT !.sent_bandwidth     = Measured(@, [seq \in sent |-> sentData(seq)]),
                  !.received_bandwidth =
                      Measured(@, [seq \in recv |-> Received!Find(c.received, seq)]),
                  !.acked_bandwidth    = Measured(@, [seq \in acked |-> sentData(seq)])]

\* update()
UpdateEndpoint(c, time) ==
    UpdateBandwidth(UpdatePacketLoss([c EXCEPT !.time = time]))

================================================================================
