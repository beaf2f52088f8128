------------------------------ MODULE Connection ------------------------------
(***************************************************************************)
(* Two endpoints that exchange packets over UDP: datagrams are reordered,  *)
(* lost and duplicated.  The application calls the endpoints' operations   *)
(* in any order.                                                           *)
(*                                                                         *)
(* History variables name packets by absolute ids, so that the properties  *)
(* can tell a packet from a later one with the same sequence number.       *)
(***************************************************************************)
EXTENDS Endpoint, FiniteSetsExt

CONSTANTS
    Endpoints,      \* the two endpoints
    Lens,           \* the packet lengths sent
    Start,          \* packets each endpoint sent before the behaviour starts
    StartLen,       \* and their length
    MaxSends,       \* bound: endpoint -> number of packets it sends from then on
    MaxInFlight,    \* bound: datagrams in flight to one endpoint
    MaxDups,        \* bound: deliveries of a datagram that stays in flight
    MaxMishaps,     \* bound: oversized sends, foreign datagrams, resets of both sides
    NoStalePartials \* whether a partial packet is gone before its sequence recurs

ASSUME ConnectionAssumption ==
    /\ \E a, b \in Endpoints : a # b /\ Endpoints = {a, b}
    /\ Lens \subseteq Nat
    /\ Start \in Nat
    /\ MaxSends \in [Endpoints -> Nat]
    /\ {MaxInFlight, MaxDups, MaxMishaps} \subseteq Nat
    /\ NoStalePartials \in BOOLEAN

VARIABLES
    ep,             \* endpoint -> its state
    net,            \* endpoint -> the datagrams in flight to it
    next,           \* history: endpoint -> id of its next packet
    accepted,       \* history: endpoint -> ids of the peer's packets it recorded
    overflowed,     \* history: endpoint -> those it recorded with its incoming queue full
    drained,        \* history: endpoint -> id -> times its payload was drained
    reported,       \* history: endpoint -> id -> times its ack was read
    base,           \* history: endpoint -> its first id after the last reset
    budget          \* sends, duplications and mishaps still allowed

history == <<accepted, overflowed, drained, reported>>
vars == <<ep, net, next, base, history, budget>>

Peer(e) == CHOOSE p \in Endpoints : p # e

\* The id after the newest packet e recorded since the last reset.
Newest(e) == Max({base[Peer(e)]} \cup {n + 1 : n \in accepted[e]})

\* Sent by e and not yet received or lost.
InFlight(e) == net[Peer(e)] \cup ToSet(ep[e].outgoing)

\* The ids some packet on its way to e acknowledges, or may yet acknowledge.
Acknowledgeable(e) ==
    LET p == Peer(e)
        b == ep[p].received
    IN  (UNION {d.header.ids : d \in {d \in InFlight(p) : d.header # NoHeader}})
        \cup {b.entries[i].data.id : i \in {i \in Received!Slots : b.entries[i] # NoEntry}}

\* The chunks held by e for packets it is reassembling.
Partial(e) ==
    LET r == ep[e].reassembly
        active == {i \in Tracker!Slots : r.tracker.entries[i] # NoEntry}
    IN  UNION {{r.slots[i].chunks[k] : k \in r.slots[i].fragment_received} : i \in active}

\* What the u16 sequence numbers need of the network: the peer is not further
\* behind than the comparison reaches, no datagram is older than that, and no
\* ack is a whole sequence space late.  The code does not enforce it.  It is
\* about the packets sent since the last reset.
Timely(e) ==
    LET n == next[e]
        p == Peer(e)
    IN  /\ n - Newest(p) < Half - ReceivedSize
        /\ \A d \in InFlight(e) : n + 1 - d.id < Half + ReceivedSize
        /\ \A m \in Acknowledgeable(e) : m >= base[e] => n - m < SeqSpace
        /\ NoStalePartials =>
               \A c \in Partial(p) : c.id >= base[e] => n - c.id < SeqSpace

IdsOf(e) == 0 .. (2 * SeqSpace * MaxMishaps + Start + MaxSends[e])

\* e sends packet id, the peer receives all of it, and both queues are read.
Exchange(w, e, id, len) ==
    LET c == SendPacket(w[e], id, len)
        p == FoldLeft(ReceivePacket, w[Peer(e)], c.outgoing)
    IN  [w EXCEPT ![e] = DrainOutgoing(c), ![Peer(e)] = ClearAcks(DrainIncoming(p))]

\* The endpoints after k undisturbed round trips, run through the operations
\* themselves: with Start just below SeqSpace the behaviours cross the wrap.
WarmUp[k \in 0 .. Start] ==
    LET first == CHOOSE e \in Endpoints : TRUE
    IN  IF k = 0
        THEN [e \in Endpoints |-> NewEndpoint]
        ELSE Exchange(Exchange(WarmUp[k - 1], first, k - 1, StartLen),
                      Peer(first), k - 1, StartLen)

\* Sent before the start and not acknowledged yet.
Unacked(e) ==
    {n \in 0 .. (Start - 1) :
        \E i \in Sent!Slots : LET entry == ep[e].sent.entries[i] IN
            entry # NoEntry /\ ~entry.data.acked /\ entry.data.id = n}

Init ==
    /\ ep = WarmUp[Start]
    /\ net = [e \in Endpoints |-> {}]
    /\ next = [e \in Endpoints |-> Start]
    /\ base = [e \in Endpoints |-> 0]
    /\ accepted = [e \in Endpoints |-> 0 .. (Start - 1)]
    /\ overflowed = [e \in Endpoints |-> {}]
    /\ drained = [e \in Endpoints |->
           [n \in IdsOf(Peer(e)) |-> IF n < Start THEN 1 ELSE 0]]
    /\ reported = [e \in Endpoints |->
           [n \in IdsOf(e) |-> IF n < Start /\ n \notin Unacked(e) THEN 1 ELSE 0]]
    /\ budget = [sends |-> MaxSends, dups |-> MaxDups, mishaps |-> MaxMishaps]

Send(e, len) ==
    /\ budget.sends[e] > 0
    /\ Timely(e)
    /\ len <= MaxPacketSize
    /\ ep' = [ep EXCEPT ![e] = SendPacket(@, next[e], len)]
    /\ next' = [next EXCEPT ![e] = @ + 1]
    /\ budget' = [budget EXCEPT !.sends[e] = @ - 1]
    /\ UNCHANGED <<net, base, history>>

SendTooLarge(e) ==
    /\ budget.mishaps > 0
    /\ ep' = [ep EXCEPT ![e] = SendPacket(@, next[e], MaxPacketSize + 1)]
    /\ budget' = [budget EXCEPT !.mishaps = @ - 1]
    /\ UNCHANGED <<net, next, base, history>>

\* The drained datagrams go to the UDP socket, and the network loses any of
\* them.  (Losing one later is no different: it is not delivered either way.)
Flush(e, through) ==
    /\ ep[e].outgoing # << >>
    /\ through \subseteq ToSet(ep[e].outgoing)
    /\ Cardinality(net[Peer(e)] \cup through) <= MaxInFlight
    /\ net' = [net EXCEPT ![Peer(e)] = @ \cup through]
    /\ ep' = [ep EXCEPT ![e] = DrainOutgoing(@)]
    /\ UNCHANGED <<next, base, history, budget>>

\* Any datagram in flight, the same one again while the network repeats it.
Receive(e, d) ==
    /\ d \in net[e]
    /\ ep' = [ep EXCEPT ![e] = ReceivePacket(@, d)]
    /\ accepted' = [accepted EXCEPT ![e] =
           IF ep'[e].counters.packets_received > ep[e].counters.packets_received
           THEN @ \cup {d.id} ELSE @]
    /\ overflowed' = [overflowed EXCEPT ![e] =
           IF Len(ep[e].incoming) = IncomingSize
           THEN @ \cup (accepted'[e] \ accepted[e]) ELSE @]
    /\ \/ net' = [net EXCEPT ![e] = @ \ {d}] /\ UNCHANGED budget
       \/ /\ budget.dups > 0
          /\ budget' = [budget EXCEPT !.dups = @ - 1]
          /\ UNCHANGED net
    /\ UNCHANGED <<next, base, drained, reported>>

\* A datagram that is not the peer's: one that does not parse, or a fragment
\* whose header the receiver's configuration refuses.
ReceiveForeign(e) ==
    /\ budget.mishaps > 0
    /\ \/ \E kind \in StrayKinds : ep' = [ep EXCEPT ![e] = ReceiveStray(@, kind)]
       \/ \E d \in ForeignFragments : ep' = [ep EXCEPT ![e] = ReceivePacket(@, d)]
    /\ budget' = [budget EXCEPT !.mishaps = @ - 1]
    /\ UNCHANGED <<net, next, base, history>>

\* How often id n heads a payload of queue q.
Deliveries(q, n) == Cardinality({i \in DOMAIN q : q[i].payload[1].id = n})

ReadIncoming(e) ==
    /\ ep[e].incoming # << >>
    /\ drained' = [drained EXCEPT ![e] =
           [n \in DOMAIN @ |-> @[n] + Deliveries(ep[e].incoming, n)]]
    /\ ep' = [ep EXCEPT ![e] = DrainIncoming(@)]
    /\ UNCHANGED <<net, next, base, accepted, overflowed, reported, budget>>

Reports(q, n) == Cardinality({i \in DOMAIN q : q[i].id = n})

\* get_acks() and then clear_acks().
ReadAcks(e) ==
    /\ ep[e].ack_buf # << >>
    /\ reported' = [reported EXCEPT ![e] =
           [n \in DOMAIN @ |-> @[n] + Reports(ep[e].ack_buf, n)]]
    /\ ep' = [ep EXCEPT ![e] = ClearAcks(@)]
    /\ UNCHANGED <<net, next, base, accepted, overflowed, drained, budget>>

\* The application resets both endpoints while nothing is in flight.  Ids go
\* on at the next one whose sequence is 0.
Restart ==
    /\ budget.mishaps > 0
    /\ \A e \in Endpoints : net[e] = {}
    /\ ep' = [e \in Endpoints |-> ResetEndpoint(ep[e])]
    /\ next' = [e \in Endpoints |->
           SeqSpace * ((next[e] + SeqSpace - 1) \div SeqSpace)]
    /\ base' = next'
    /\ budget' = [budget EXCEPT !.mishaps = @ - 1]
    /\ UNCHANGED <<net, history>>

Next ==
    \/ Restart
    \/ \E e \in Endpoints :
           \/ \E len \in Lens : Send(e, len)
           \/ SendTooLarge(e)
           \/ \E through \in SUBSET ToSet(ep[e].outgoing) : Flush(e, through)
           \/ \E d \in net[e] : Receive(e, d)
           \/ ReceiveForeign(e)
           \/ ReadIncoming(e)
           \/ ReadAcks(e)

Spec == Init /\ [][Next]_vars

--------------------------------------------------------------------------------

\* Type invariant of the parts the other properties do not describe.
TypeOK ==
    \A e \in Endpoints :
        /\ ep[e].sequence \in SeqNums
        /\ ep[e].sequence = next[e] % SeqSpace
        /\ ep[e].sent \in Sent!Buffers(SentData)
        /\ ep[e].received \in Received!Buffers(ReceivedData)
        /\ ep[e].reassembly.tracker \in Tracker!Buffers({{}})
        /\ Len(ep[e].outgoing) <= OutgoingSize
        /\ Len(ep[e].incoming) <= IncomingSize
        /\ Len(ep[e].ack_buf) <= AckBufSize
        /\ ep[e].counters \in [DOMAIN ZeroCounters -> Nat]

\* The packets e has tracked as acknowledged.
Acked(e) ==
    LET b == ep[e].sent.entries
    IN  {b[i].data : i \in {i \in Sent!Slots : b[i] # NoEntry /\ b[i].data.acked}}

\* process_acks() marks a packet acknowledged only if the peer recorded that
\* very packet, and not an older or newer one with the same sequence number.
AckSound ==
    \A e \in Endpoints : \A f \in Acked(e) : f.id \in accepted[Peer(e)]

\* An ack is reported to the application at most once, however often and in
\* however many headers the peer repeats it.
AckReportedOnce ==
    \A e \in Endpoints : \A n \in IdsOf(e) :
        reported[e][n] + Reports(ep[e].ack_buf, n) <= 1

\* ADR-003: an application that has read its acks before a datagram comes in
\* misses none: whatever that datagram acknowledges fits the ack buffer.
AckBatchFits ==
    [][\A e \in Endpoints : ep[e].ack_buf = << >> =>
           \A f \in Acked(e)' \ Acked(e) : Reports(ep[e].ack_buf', f.id) = 1]_vars

\* The received window stands where the newest packet recorded put it, never
\* moved by a late, duplicated or wrapped sequence.
HeadIsNewest ==
    \A e \in Endpoints : ep[e].received.sequence = Newest(e) % SeqSpace

Regular(len) == len <= FragmentAbove

TimesDelivered(e, n) == drained[e][n] + Deliveries(ep[e].incoming, n)

\* README: duplicates of a packet sent as a single datagram are never handed
\* to the application twice.
RegularAtMostOnce ==
    \A e \in Endpoints : \A i \in DOMAIN ep[e].incoming :
        LET chunk == ep[e].incoming[i].payload[1]
        IN  Regular(chunk.len) => TimesDelivered(e, chunk.id) <= 1

\* Whatever is delivered is one packet of the peer, whole and in order, under
\* that packet's sequence number: fragments of two packets never mix.
Integrity ==
    \A e \in Endpoints : \A i \in DOMAIN ep[e].incoming :
        LET item == ep[e].incoming[i]
            c    == item.payload[1]
        IN  /\ item.payload = Payload(c.id, c.len)
            /\ item.sequence = c.id % SeqSpace

\* The tracker and the slots of the reassembly buffer never desynchronise: a
\* tracked sequence has its own slot, with some but not all of its fragments.
ReassemblySync ==
    \A e \in Endpoints, i \in Tracker!Slots :
        LET t    == ep[e].reassembly.tracker.entries[i]
            slot == ep[e].reassembly.slots[i]
        IN  t # NoEntry =>
                /\ slot.sequence = t.sequence
                /\ slot.num_fragments_received = Cardinality(slot.fragment_received)
                /\ slot.num_fragments_received \in 1 .. (slot.num_fragments - 1)
                /\ \A k \in 0 .. (slot.num_fragments - 1) :
                       k \in slot.fragment_received <=> slot.chunks[k] # NoChunk

\* The ack of a fragmented packet is end to end: the sender sees it only if
\* the whole payload reached the peer's incoming queue.  A packet sent as one
\* datagram is recorded before the queue is tried, so its ack means delivery
\* too, except in that one case: the queue was full when it came.
AckMeansDelivered ==
    \A e \in Endpoints : \A f \in Acked(e) :
        \/ f.len = 0
        \/ TimesDelivered(Peer(e), f.id) >= 1
        \/ Regular(f.len) /\ f.id \in overflowed[Peer(e)]

\* README, fragmentation: the packet is delivered once all its fragments have
\* arrived.  The first fragment of a packet newer than any recorded so far is
\* therefore taken.  (The code does not keep this: TrackerLag.cfg.)
FreshFragmentTaken ==
    \A e \in Endpoints : \A d \in net[e] :
        d.kind = "fragment" /\ d.id >= Newest(e) =>
            \/ Tracker!Exists(ep[e].reassembly.tracker, d.sequence)
            \/ Tracker!CanInsert(ep[e].reassembly.tracker, d.sequence)

\* README: no packet, fragmented ones included, is delivered twice.
AtMostOnce ==
    \A e \in Endpoints : \A n \in DOMAIN drained[e] : TimesDelivered(e, n) <= 1

================================================================================
