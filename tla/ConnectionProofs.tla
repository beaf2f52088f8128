--------------------------- MODULE ConnectionProofs ---------------------------
(***************************************************************************)
(* What the two endpoints promise each other over a network that loses,    *)
(* duplicates and reorders, for every configuration, every SeqSpace and    *)
(* any number of packets: proofs of the invariants of module Connection    *)
(* from the program's initial state, Start = 0.                            *)
(*                                                                         *)
(* The invariant says of each direction where its packets can be: tracked  *)
(* by the sender, in flight, half reassembled, recorded or acknowledged,   *)
(* and always less than a sequence space apart from what they are compared *)
(* with (Tracks, Travels, Remembers, Collects, Vouches).  Then a sequence  *)
(* number stands for one id only, and what each operation finds under it   *)
(* is the packet meant.  Timely, the guard of Send, is what keeps the ids  *)
(* that close; every other step moves nothing apart.                       *)
(*                                                                         *)
(* Reporting adds that a packet whose ack was reported is flagged wherever *)
(* it is still tracked, so that no header makes it be reported again.      *)
(* Delivering adds that the received window is complete, that a packet has *)
(* one length wherever it is, and that what was recorded was delivered.    *)
(***************************************************************************)
EXTENDS Connection, EndpointLemmas

(* The inductive invariant.  Its parts are predicates of values, so that the *)
(* lemmas about them need no primes.                                         *)

\* One direction: what e sends to its peer p.
Link(e, p) ==
    /\ ep[e].sequence = next[e] % SeqSpace
    /\ Tracks(ep[e].sent, base[e], next[e], accepted[p])
    /\ Top(base[e], accepted[p], Newest(p))
    /\ Newest(p) <= next[e]
    /\ Remembers(ep[p].received, Newest(p), accepted[p], Recent(base[e], next[e]))
    /\ \A d \in InFlight(e) :
           Travels(d, base[e], next[e], Newest(p),
                   accepted[e] \cap Recent(base[p], next[p]))
    /\ NoStalePartials => Collects(ep[p].reassembly, Recent(base[e], next[e]))
    /\ NoStalePartials => \A i \in DOMAIN ep[p].incoming : Intact(ep[p].incoming[i])

\* The types of the variables that the invariant is about.
Shapes ==
    /\ ep = [e \in Endpoints |-> ep[e]]
    /\ net \in [Endpoints -> SUBSET (Packets \cup Fragments)]
    /\ next \in [Endpoints -> Nat]
    /\ base \in [Endpoints -> Nat]
    /\ accepted \in [Endpoints -> SUBSET Nat]

\* The inductive invariant.
Inv ==
    /\ Shapes
    /\ \A e \in Endpoints : Sound(ep[e]) /\ Link(e, Peer(e))

--------------------------------------------------------------------------------
(* The two endpoints, and numbers *)

\* There are two endpoints, each the other's peer.
LEMMA PeerFacts ==
    ASSUME NEW e \in Endpoints
    PROVE  /\ Peer(e) \in Endpoints
           /\ Peer(e) # e
           /\ Peer(Peer(e)) = e
           /\ \A x \in Endpoints : x = e \/ x = Peer(e)
<1>1. PICK a, b \in Endpoints : a # b /\ Endpoints = {a, b}
  BY ConnectionAssumption
<1>2. \A x \in Endpoints : Peer(x) \in Endpoints /\ Peer(x) # x
  BY <1>1 DEF Peer
<1> QED BY <1>1, <1>2

\* The maximum of a set of numbers.
LEMMA MaxIs ==
    ASSUME NEW S, S \subseteq Int, NEW t \in S, \A x \in S : x <= t
    PROVE  Max(S) = t
<1>1. \E x \in S : \A y \in S : x >= y
  <2>1. \A y \in S : t >= y
    <3> TAKE y \in S
    <3>1. y \in Int /\ t \in Int /\ y <= t
      OBVIOUS
    <3> QED BY <3>1
  <2> QED BY <2>1
<1> DEFINE m == Max(S)
<1>2. m \in S /\ \A y \in S : m >= y
  BY <1>1 DEF Max
<1>3. m \in Int /\ t \in Int /\ m >= t /\ m <= t
  BY <1>2
<1> QED BY <1>3

\* Newest() is the number above the ids recorded.
LEMMA NewestIs ==
    ASSUME NEW low \in Nat, NEW A, A \subseteq Nat, NEW t, Top(low, A, t)
    PROVE  Max({low} \cup {n + 1 : n \in A}) = t
<1> DEFINE S == {low} \cup {n + 1 : n \in A}
<1>1. S \subseteq Int
  OBVIOUS
<1>2. t \in S
  <2>1. CASE t = low
    BY <2>1
  <2>2. CASE t - 1 \in A
    <3>1. t = (t - 1) + 1
      BY DEF Top
    <3> QED BY <2>2, <3>1
  <2> QED BY <2>1, <2>2 DEF Top
<1>3. \A x \in S : x <= t
  <2> TAKE x \in S
  <2>1. CASE x = low
    BY <2>1 DEF Top
  <2>2. ASSUME NEW n \in A, x = n + 1 PROVE x <= t
    BY <2>2 DEF Top
  <2> QED BY <2>1, <2>2
<1> HIDE DEF S
<1>4. Max(S) = t
  BY <1>1, <1>2, <1>3, MaxIs
<1> QED BY <1>4 DEF S

--------------------------------------------------------------------------------
(* The steps *)

\* A step of e that sends nothing new, takes nothing in and acknowledges nothing.
LEMMA QuietStep ==
    ASSUME Inv, NEW e \in Endpoints, NEW c1, Sound(c1), ep' = [ep EXCEPT ![e] = c1],
           c1.sequence = ep[e].sequence, c1.sent = ep[e].sent,
           c1.received = ep[e].received, c1.reassembly = ep[e].reassembly,
           c1.incoming = ep[e].incoming \/ c1.incoming = << >>,
           net' \in [Endpoints -> SUBSET (Packets \cup Fragments)], net'[e] = net[e],
           net'[Peer(e)] \cup ToSet(c1.outgoing) \subseteq InFlight(e),
           UNCHANGED <<next, base, accepted>>
    PROVE  Inv'
<1> DEFINE p == Peer(e)
<1>1. p \in Endpoints /\ p # e /\ Peer(p) = e /\ \A x \in Endpoints : x = e \/ x = p
  BY PeerFacts
<1>2. ep'[e] = c1 /\ ep'[p] = ep[p] /\ ep' = [x \in Endpoints |-> ep'[x]]
  <2>1. ep = [x \in Endpoints |-> ep[x]]
    BY DEF Inv, Shapes
  <2> HIDE DEF p
  <2> QED BY <1>1, <2>1
<1>3. Shapes'
  BY <1>2 DEF Inv, Shapes
<1>4. Sound(ep[e]) /\ Sound(ep[p]) /\ Link(e, p) /\ Link(p, e)
  BY <1>1 DEF Inv
<1> HIDE DEF p
<1>5. Newest(e)' = Newest(e) /\ Newest(p)' = Newest(p)
  BY DEF Newest
<1>6. InFlight(e)' \subseteq InFlight(e)
  BY <1>2 DEF InFlight, p
<1>7. InFlight(p)' \subseteq InFlight(p)
  BY <1>1, <1>2 DEF InFlight
<1>8. Link(e, p)'
  BY <1>2, <1>4, <1>5, <1>6 DEF Link
<1>9. Link(p, e)'
  <2>1. \A i \in DOMAIN << >> : FALSE
    OBVIOUS
  <2> QED BY <1>2, <1>4, <1>5, <1>7, <2>1 DEF Link
<1>10. (Sound(ep[e]) /\ Sound(ep[p]))'
  BY <1>2, <1>4
<1>11. \A x \in Endpoints : (Sound(ep[x]) /\ Link(x, Peer(x)))'
  BY <1>1, <1>8, <1>9, <1>10 DEF p
<1> QED BY <1>3, <1>11 DEF Inv

\* A stray datagram is only counted.
LEMMA StrayFields ==
    ASSUME NEW c, EndpointRecord(c), c.counters \in Counters, NEW kind \in StrayKinds
    PROVE  \E k \in Counters : ReceiveStray(c, kind) =
               Endpoint(c, c.sequence, c.sent, c.received, c.reassembly, c.outgoing,
                        c.incoming, c.ack_buf, k, c.rtt)
<1> DEFINE e(k) == Endpoint(c, c.sequence, c.sent, c.received, c.reassembly, c.outgoing,
                            c.incoming, c.ack_buf, k, c.rtt)
           one(f) == [c.counters EXCEPT ![f] = @ + 1]
           two(f, g) == [one(f) EXCEPT ![g] = @ + 1]
<1>1. \A f : one(f) \in Counters /\ [c EXCEPT !.counters[f] = @ + 1] = e(one(f))
  BY CountersStay, CountFields
<1>2. \A f : one(f) \in Counters
  BY <1>1
<1>3. \A f, g : two(f, g) \in Counters
  <2> TAKE f, g
  <2> DEFINE k == one(f)
  <2>1. k \in Counters
    BY <1>2
  <2> HIDE DEF k
  <2>2. [k EXCEPT ![g] = @ + 1] \in Counters
    BY <2>1, CountersStay
  <2> QED BY <2>2 DEF k
<1>4. CASE kind = "too_large"
  <2>1. ReceiveStray(c, kind) = e(one("packets_too_large_to_receive"))
    BY <1>1, <1>4 DEF ReceiveStray
  <2> QED BY <1>2, <2>1
<1>5. CASE kind = "packet_header"
  <2>1. ReceiveStray(c, kind) = e(one("packets_invalid"))
    BY <1>1, <1>5 DEF ReceiveStray
  <2> QED BY <1>2, <2>1
<1>6. CASE kind = "fragment_header"
  <2>1. ReceiveStray(c, kind) = e(one("fragments_invalid"))
    BY <1>1, <1>6 DEF ReceiveStray
  <2> QED BY <1>2, <2>1
<1>7. CASE kind = "first_fragment"
  <2> DEFINE c1 == [c EXCEPT !.counters.fragments_received = @ + 1]
             k1 == one("fragments_received")
             k2 == two("fragments_received", "fragments_invalid")
  <2>1. c1 = e(k1)
    BY <1>1
  <2>2. ReceiveStray(c, kind) = [c1 EXCEPT !.counters.fragments_invalid = @ + 1]
    BY <1>7 DEF ReceiveStray
  <2>3. [e(k1) EXCEPT !.counters.fragments_invalid = @ + 1] =
            e([k1 EXCEPT !.fragments_invalid = @ + 1])
    <3> HIDE DEF k1
    <3> QED BY DEF Endpoint
  <2>4. ReceiveStray(c, kind) = e(k2)
    BY <2>1, <2>2, <2>3
  <2> QED BY <1>3, <2>4
<1> QED BY <1>4, <1>5, <1>6, <1>7 DEF StrayKinds

\* A foreign fragment is refused, and only counted.
LEMMA ForeignFields ==
    ASSUME NEW c, Sound(c), NEW d \in ForeignFragments
    PROVE  /\ Sound(ReceivePacket(c, d))
           /\ LET c1 == ReceivePacket(c, d) IN
              /\ c1.sequence = c.sequence /\ c1.sent = c.sent /\ c1.received = c.received
              /\ c1.reassembly = c.reassembly /\ c1.outgoing = c.outgoing
              /\ c1.incoming = c.incoming /\ c1.ack_buf = c.ack_buf
<1> DEFINE c1 == ReceivePacket(c, d)
<1>1. PICK n \in {0, 1, MaxFragments + 1} :
          d = [kind |-> "fragment", sequence |-> 0, fragment_id |-> 1, num_fragments |-> n,
               header |-> NoHeader, chunk |-> NoChunk, id |-> 0]
  BY DEF ForeignFragments
<1>2. IsFragment(d) /\ d.fragment_id = 1 /\ d.num_fragments = n
  BY <1>1 DEF IsFragment
<1>3. ~ValidFragment(d)
  BY <1>2, ReassemblyAssumption DEF ValidFragment
<1>4. ~Accepts(c.reassembly, d)
  BY <1>3 DEF Accepts
<1>5. ProcessFragment(c.reassembly, d) = [reassembly |-> c.reassembly, complete |-> FALSE]
  BY <1>4 DEF ProcessFragment
<1>6. Receives(c, d, c1)
  BY <1>2, ReceiveFragmentFields DEF Sound
<1>7. ~Records(c, d) /\ ~TakesAcks(c, d) /\ ~Delivers(c, d)
  BY <1>2, <1>5 DEF Records, TakesAcks, Delivers
<1> HIDE DEF c1
<1>8. /\ EndpointRecord(c1) /\ c1.time = c.time /\ c1.sequence = c.sequence
      /\ c1.sent = c.sent /\ c1.received = c.received /\ c1.reassembly = c.reassembly
      /\ c1.outgoing = c.outgoing /\ c1.incoming = c.incoming /\ c1.ack_buf = c.ack_buf
      /\ c1.counters \in Counters
  BY <1>2, <1>5, <1>6, <1>7 DEF Receives
<1>9. Sound(c1)
  BY <1>8 DEF Sound
<1> QED BY <1>8, <1>9 DEF c1

\* A step that leaves the network and the history alone, and changes of e only
\* counters and the queues that the application empties.
LEMMA CountingStep ==
    ASSUME Inv, NEW e \in Endpoints, NEW c1, Sound(c1), ep' = [ep EXCEPT ![e] = c1],
           c1.sequence = ep[e].sequence, c1.sent = ep[e].sent,
           c1.received = ep[e].received, c1.reassembly = ep[e].reassembly,
           c1.outgoing = ep[e].outgoing,
           c1.incoming = ep[e].incoming \/ c1.incoming = << >>,
           UNCHANGED <<net, next, base, accepted>>
    PROVE  Inv'
<1>1. /\ net' \in [Endpoints -> SUBSET (Packets \cup Fragments)]
      /\ net'[e] = net[e]
  BY DEF Inv, Shapes
<1>2. net'[Peer(e)] \cup ToSet(c1.outgoing) \subseteq InFlight(e)
  BY DEF InFlight
<1>3. UNCHANGED <<next, base, accepted>>
  OBVIOUS
<1> QED BY <1>1, <1>2, <1>3, QuietStep

\* An endpoint that is part of the invariant.
LEMMA SoundEndpoint ==
    ASSUME Inv, NEW e \in Endpoints
    PROVE  Sound(ep[e]) /\ EndpointRecord(ep[e]) /\ ep[e].counters \in Counters
  BY DEF Inv, Sound

\* send_packet() of a packet above max_packet_size keeps the invariant.
LEMMA SendTooLargeStep ==
    ASSUME Inv, NEW e \in Endpoints, SendTooLarge(e)
    PROVE  Inv'
<1> DEFINE c == ep[e]
           c1 == SendPacket(c, next[e], MaxPacketSize + 1)
           k == [c.counters EXCEPT !.packets_too_large_to_send = @ + 1]
<1>1. Sound(c) /\ EndpointRecord(c) /\ c.counters \in Counters
  BY SoundEndpoint
<1>2. c1 = Endpoint(c, c.sequence, c.sent, c.received, c.reassembly, c.outgoing,
                    c.incoming, c.ack_buf, k, c.rtt)
  BY <1>1, SendTooLargeFields
<1>3. k \in Counters
  BY <1>1, CountersStay
<1>4. ep' = [ep EXCEPT ![e] = c1] /\ UNCHANGED <<net, next, base, accepted>>
  BY DEF SendTooLarge, history
<1> HIDE DEF c1, k
<1>5. /\ Sound(c1)
      /\ c1.sequence = c.sequence /\ c1.sent = c.sent /\ c1.received = c.received
      /\ c1.reassembly = c.reassembly /\ c1.outgoing = c.outgoing
      /\ c1.incoming = c.incoming
  <2>1. Quieted(c, c1) /\ c1.outgoing = c.outgoing /\ c1.incoming = c.incoming
    BY <1>1, <1>2, <1>3, EndpointFields DEF Quieted
  <2> QED BY <1>1, <2>1, SoundQuiet DEF Quieted
<1> QED BY <1>4, <1>5, CountingStep

\* Draining the incoming queue keeps the invariant.
LEMMA ReadIncomingStep ==
    ASSUME Inv, NEW e \in Endpoints, ReadIncoming(e)
    PROVE  Inv'
<1> DEFINE c == ep[e]
           c1 == DrainIncoming(c)
<1>1. Sound(c) /\ EndpointRecord(c) /\ c.counters \in Counters
  BY SoundEndpoint
<1>2. c1 = Endpoint(c, c.sequence, c.sent, c.received, c.reassembly, c.outgoing,
                    << >>, c.ack_buf, c.counters, c.rtt)
  BY <1>1, DrainIncomingFields
<1>3. ep' = [ep EXCEPT ![e] = c1] /\ UNCHANGED <<net, next, base, accepted>>
  BY DEF ReadIncoming
<1> HIDE DEF c1
<1>4. /\ Sound(c1)
      /\ c1.sequence = c.sequence /\ c1.sent = c.sent /\ c1.received = c.received
      /\ c1.reassembly = c.reassembly /\ c1.outgoing = c.outgoing
      /\ c1.incoming = << >>
  <2>1. Quieted(c, c1) /\ c1.outgoing = c.outgoing /\ c1.incoming = << >>
    BY <1>1, <1>2, EndpointFields DEF Quieted
  <2> QED BY <1>1, <2>1, SoundQuiet DEF Quieted
<1> QED BY <1>3, <1>4, CountingStep

\* get_acks() and clear_acks() keep the invariant.
LEMMA ReadAcksStep ==
    ASSUME Inv, NEW e \in Endpoints, ReadAcks(e)
    PROVE  Inv'
<1> DEFINE c == ep[e]
           c1 == ClearAcks(c)
<1>1. Sound(c) /\ EndpointRecord(c) /\ c.counters \in Counters
  BY SoundEndpoint
<1>2. c1 = Endpoint(c, c.sequence, c.sent, c.received, c.reassembly, c.outgoing,
                    c.incoming, << >>, c.counters, c.rtt)
  BY <1>1, ClearAcksFields
<1>3. ep' = [ep EXCEPT ![e] = c1] /\ UNCHANGED <<net, next, base, accepted>>
  BY DEF ReadAcks
<1> HIDE DEF c1
<1>4. /\ Sound(c1)
      /\ c1.sequence = c.sequence /\ c1.sent = c.sent /\ c1.received = c.received
      /\ c1.reassembly = c.reassembly /\ c1.outgoing = c.outgoing
      /\ c1.incoming = c.incoming
  <2>1. Quieted(c, c1) /\ c1.outgoing = c.outgoing /\ c1.incoming = c.incoming
    BY <1>1, <1>2, EndpointFields DEF Quieted
  <2> QED BY <1>1, <2>1, SoundQuiet DEF Quieted
<1> QED BY <1>3, <1>4, CountingStep

\* receive_packet() of a foreign datagram keeps the invariant.
LEMMA ReceiveForeignStep ==
    ASSUME Inv, NEW e \in Endpoints, ReceiveForeign(e)
    PROVE  Inv'
<1> DEFINE c == ep[e]
<1>1. Sound(c) /\ EndpointRecord(c) /\ c.counters \in Counters
  BY SoundEndpoint
<1>2. UNCHANGED <<net, next, base, accepted>>
  BY DEF ReceiveForeign, history
<1>3. ASSUME NEW kind \in StrayKinds, ep' = [ep EXCEPT ![e] = ReceiveStray(@, kind)]
      PROVE  Inv'
  <2> DEFINE c1 == ReceiveStray(c, kind)
  <2>1. PICK k \in Counters : c1 =
            Endpoint(c, c.sequence, c.sent, c.received, c.reassembly, c.outgoing,
                     c.incoming, c.ack_buf, k, c.rtt)
    BY <1>1, StrayFields
  <2>2. ep' = [ep EXCEPT ![e] = c1]
    BY <1>3
  <2> HIDE DEF c1
  <2>3. /\ Sound(c1)
        /\ c1.sequence = c.sequence /\ c1.sent = c.sent /\ c1.received = c.received
        /\ c1.reassembly = c.reassembly /\ c1.outgoing = c.outgoing
        /\ c1.incoming = c.incoming
    <3>1. Quieted(c, c1) /\ c1.outgoing = c.outgoing /\ c1.incoming = c.incoming
      BY <1>1, <2>1, EndpointFields DEF Quieted
    <3> QED BY <1>1, <3>1, SoundQuiet DEF Quieted
  <2> QED BY <1>2, <2>2, <2>3, CountingStep
<1>4. ASSUME NEW d \in ForeignFragments, ep' = [ep EXCEPT ![e] = ReceivePacket(@, d)]
      PROVE  Inv'
  <2> DEFINE c1 == ReceivePacket(c, d)
  <2>1. /\ Sound(c1)
        /\ c1.sequence = c.sequence /\ c1.sent = c.sent /\ c1.received = c.received
        /\ c1.reassembly = c.reassembly /\ c1.outgoing = c.outgoing
        /\ c1.incoming = c.incoming
    BY <1>1, ForeignFields
  <2>2. ep' = [ep EXCEPT ![e] = c1]
    BY <1>4
  <2> HIDE DEF c1
  <2> QED BY <1>2, <2>1, <2>2, CountingStep
<1> QED BY <1>3, <1>4 DEF ReceiveForeign

\* Handing the outgoing queue to a network that loses any of it keeps the invariant.
LEMMA FlushStep ==
    ASSUME Inv, NEW e \in Endpoints, NEW through, Flush(e, through)
    PROVE  Inv'
<1> DEFINE c == ep[e]
           p == Peer(e)
           c1 == DrainOutgoing(c)
<1>1. Sound(c) /\ EndpointRecord(c) /\ c.counters \in Counters
  BY SoundEndpoint
<1>2. c1 = Endpoint(c, c.sequence, c.sent, c.received, c.reassembly, << >>,
                    c.incoming, c.ack_buf, c.counters, c.rtt)
  BY <1>1, DrainOutgoingFields
<1>3. /\ ep' = [ep EXCEPT ![e] = c1] /\ UNCHANGED <<next, base, accepted>>
      /\ through \subseteq ToSet(c.outgoing)
      /\ net' = [net EXCEPT ![p] = @ \cup through]
  BY DEF Flush, history
<1> HIDE DEF c1
<1>4. /\ Sound(c1)
      /\ c1.sequence = c.sequence /\ c1.sent = c.sent /\ c1.received = c.received
      /\ c1.reassembly = c.reassembly /\ c1.outgoing = << >>
      /\ c1.incoming = c.incoming
  <2>1. Quieted(c, c1) /\ c1.outgoing = << >> /\ c1.incoming = c.incoming
    BY <1>1, <1>2, EndpointFields DEF Quieted
  <2> QED BY <1>1, <2>1, SoundQuiet DEF Quieted
<1>5. p \in Endpoints /\ p # e
  BY PeerFacts
<1>6. ToSet(c.outgoing) \subseteq Packets \cup Fragments
  <2> DEFINE T == Packets \cup Fragments
  <2>1. c.outgoing \in Seq(T)
    BY <1>1 DEF Sound
  <2> HIDE DEF T
  <2>2. \A i \in DOMAIN c.outgoing : c.outgoing[i] \in T
    BY <2>1
  <2>3. ToSet(c.outgoing) \subseteq T
    BY <2>2 DEF ToSet
  <2> QED BY <2>3 DEF T
<1> HIDE DEF p
<1>7. /\ net' \in [Endpoints -> SUBSET (Packets \cup Fragments)]
      /\ net'[e] = net[e] /\ net'[p] = net[p] \cup through
  <2>1. net \in [Endpoints -> SUBSET (Packets \cup Fragments)]
    BY DEF Inv, Shapes
  <2> QED BY <1>3, <1>5, <1>6, <2>1
<1>8. ToSet(<< >>) = {}
  BY DEF ToSet
<1>9. net'[Peer(e)] \cup ToSet(c1.outgoing) \subseteq InFlight(e)
  BY <1>3, <1>4, <1>7, <1>8 DEF InFlight, p
<1> QED BY <1>3, <1>4, <1>7, <1>9, QuietStep

\* A partial packet that is not too old is still recent when one more is sent.
LEMMA CollectsGrows ==
    ASSUME NEW r \in Reassemblies, Synced(r), NEW low \in Nat, NEW n \in Nat,
           Collects(r, Recent(low, n)),
           \A i \in Tracker!Slots : r.tracker.entries[i] # NoEntry =>
               \A k \in r.slots[i].fragment_received :
                   r.slots[i].chunks[k].id >= low => n - r.slots[i].chunks[k].id < SeqSpace
    PROVE  Collects(r, Recent(low, n + 1))
<1> SUFFICES ASSUME NEW i \in Tracker!Slots, r.tracker.entries[i] # NoEntry
             PROVE  \E m \in Recent(low, n + 1) : Holds(r.slots[i], m)
  BY DEF Collects
<1>1. PICK m \in Recent(low, n) : Holds(r.slots[i], m)
  BY DEF Collects
<1>2. \E k : k \in r.slots[i].fragment_received
  <2> DEFINE S == r.slots[i].fragment_received
  <2>1. /\ r.slots[i].num_fragments_received = Cardinality(S)
        /\ r.slots[i].num_fragments_received >= 1
    BY DEF Synced, Consistent
  <2>2. Cardinality({}) = 0
    BY FS_EmptySet
  <2> HIDE DEF S
  <2>3. S # {}
    <3>1. ASSUME S = {} PROVE FALSE
      <4>1. Cardinality(S) = 0
        BY ONLY <3>1, <2>2, Zenon
      <4> QED BY <2>1, <4>1
    <3> QED BY <3>1
  <2> QED BY <2>3 DEF S
<1>3. PICK k : k \in r.slots[i].fragment_received
  BY <1>2
<1>4. r.slots[i].chunks[k].id = m
  <2>1. r.slots[i].chunks[k] = Chunk(m, k, r.slots[i].num_fragments)
    BY <1>1, <1>3 DEF Holds
  <2>2. \A len : Chunk(m, k, len).id = m
    BY DEF Chunk
  <2> QED BY ONLY <2>1, <2>2, Zenon
<1>5. m >= low
  BY DEF Recent
<1>6. n - m < SeqSpace
  BY <1>3, <1>4, <1>5
<1> QED BY <1>1, <1>6, RecentGrows

\* send_packet() keeps the invariant.
LEMMA SendStep ==
    ASSUME Inv, NEW e \in Endpoints, NEW len \in Lens, Send(e, len)
    PROVE  Inv'
<1> DEFINE p == Peer(e)
           c == ep[e]
           n == next[e]
           low == base[e]
           t == Newest(p)
           A == accepted[e]
           R == Recent(base[p], next[p])
           q == Datagrams(c, n, len)
           c1 == SendPacket(c, n, len)
<1>1. p \in Endpoints /\ p # e /\ Peer(p) = e /\ \A x \in Endpoints : x = e \/ x = p
  BY PeerFacts
<1>2. /\ Timely(e) /\ len <= MaxPacketSize /\ ep' = [ep EXCEPT ![e] = c1]
      /\ next' = [next EXCEPT ![e] = @ + 1] /\ UNCHANGED <<net, base, accepted>>
  BY DEF Send, history
<1>3. /\ Sound(c) /\ Sound(ep[p]) /\ Link(e, p) /\ Link(p, e) /\ Shapes
  BY <1>1 DEF Inv
<1>4. len \in Nat /\ n \in Nat /\ low \in Nat /\ t \in Nat /\ low <= n /\ A \subseteq Nat
      /\ Newest(e) \in Nat
  <2>1. len \in Nat /\ n \in Nat /\ low \in Nat /\ A \subseteq Nat
    BY ConnectionAssumption, <1>3 DEF Shapes
  <2>2. t \in Nat /\ low <= t /\ t <= n /\ Newest(e) \in Nat
    BY <1>3 DEF Link, Top
  <2> QED BY <2>1, <2>2
<1>5. /\ n - t < Half - ReceivedSize
      /\ \A d \in InFlight(e) : n + 1 - d.id < Half + ReceivedSize
      /\ \A m \in Acknowledgeable(e) : m >= low => n - m < SeqSpace
      /\ NoStalePartials => \A x \in Partial(p) : x.id >= low => n - x.id < SeqSpace
  BY <1>2 DEF Timely
<1>6. Sends(c, n, len, c1)
  BY <1>2, <1>3, <1>4, SendFields DEF Sound
<1>7. c1.sent \in Sent!Buffers(SentData) /\ Tracks(c1.sent, low, n + 1, accepted[p])
  <2> DEFINE d == Tracked(c, n, len)
  <2>1. d \in SentData /\ d.id = n /\ ~d.acked
    BY <1>3, <1>4 DEF Tracked, SentData, Sound
  <2>2. c1.sent = Sent!Insert(c.sent, n % SeqSpace, d)
    BY <1>3, <1>6 DEF Sends, Link
  <2>3. c.sent \in Sent!Buffers(SentData) /\ Tracks(c.sent, low, n, accepted[p])
    BY <1>3 DEF Link, Sound
  <2> HIDE DEF d, c, c1, n, low
  <2> QED BY <1>4, <2>1, <2>2, <2>3, TracksSend
<1>8. /\ q \in Seq(Packets \cup Fragments)
      /\ \A j \in 1 .. Len(q) : Travels(q[j], low, n + 1, t, A \cap R)
  <2>1. /\ c.sequence = n % SeqSpace
        /\ c.received \in Received!Buffers(ReceivedData)
        /\ Remembers(c.received, Newest(e), A, R)
    BY <1>3 DEF Link, Sound
  <2> DEFINE u == Newest(e)
  <2> HIDE DEF c, n, low, t, A, R, u
  <2>2. u \in Nat /\ Remembers(c.received, u, A, R)
    BY <1>4, <2>1 DEF u
  <2> QED BY <1>4, <1>5, <2>1, <2>2, DatagramsTravel DEF q
<1>9. /\ Sound(c1)
      /\ \A d \in ToSet(c1.outgoing) :
             d \in ToSet(c.outgoing) \/ \E j \in 1 .. Len(q) : d = q[j]
  <2> HIDE DEF c, n, c1
  <2> QED BY <1>3, <1>4, <1>6, <1>7, <1>8, SendSound
<1>10. /\ c1.sequence = (n + 1) % SeqSpace /\ c1.received = c.received
       /\ c1.reassembly = c.reassembly /\ c1.incoming = c.incoming
  <2>1. c.sequence = n % SeqSpace
    BY <1>3 DEF Link
  <2> QED BY <1>4, <1>6, <2>1, NextSequence DEF Sends
<1> HIDE DEF c1, q
<1>11. /\ ep'[e] = c1 /\ ep'[p] = ep[p] /\ ep' = [x \in Endpoints |-> ep'[x]]
       /\ next'[e] = n + 1 /\ next'[p] = next[p] /\ next' \in [Endpoints -> Nat]
  <2>1. ep = [x \in Endpoints |-> ep[x]] /\ next \in [Endpoints -> Nat]
    BY <1>3 DEF Shapes
  <2> HIDE DEF p
  <2> QED BY <1>1, <1>2, <2>1
<1>12. Shapes'
  BY <1>2, <1>3, <1>11 DEF Shapes
<1> HIDE DEF p
<1>13. Newest(e)' = Newest(e) /\ Newest(p)' = t
  BY <1>2 DEF Newest
<1>14. InFlight(e) = net[p] \cup ToSet(c.outgoing) /\ InFlight(p)' = InFlight(p)
       /\ InFlight(e)' = net[p] \cup ToSet(c1.outgoing)
  BY <1>1, <1>2, <1>11 DEF InFlight, p
<1>15. ASSUME NEW d \in InFlight(e)' PROVE Travels(d, low, n + 1, t, A \cap R)
  <2>1. CASE d \in InFlight(e)
    <3>1. Travels(d, low, n, t, A \cap R)
      BY <1>3, <2>1 DEF Link
    <3>2. (n + 1) - d.id < Half + ReceivedSize /\ d.id < n + 1
      <4>1. d.id \in Nat /\ d.id < n
        BY <3>1 DEF Travels, Packets, Fragments
      <4>2. n + 1 - d.id < Half + ReceivedSize
        BY <1>5, <2>1
      <4> QED BY <1>4, <4>1, <4>2, Sizes
    <3> HIDE DEF n, low, t, A, R
    <3> QED BY ONLY <3>1, <3>2, Zenon DEF Travels
  <2>2. CASE \E j \in 1 .. Len(q) : d = q[j]
    BY <1>8, <2>2
  <2>3. d \in net[p] \cup ToSet(c1.outgoing)
    BY <1>14, <1>15
  <2>4. d \in net[p] \cup ToSet(c.outgoing) => d \in InFlight(e)
    BY <1>14
  <2> QED BY <1>9, <2>1, <2>2, <2>3, <2>4
<1>16. Remembers(ep[p].received, t, accepted[p], Recent(low, n + 1))
  <2>1. /\ ep[p].received \in Received!Buffers(ReceivedData)
        /\ Remembers(ep[p].received, t, accepted[p], Recent(low, n))
    BY <1>3 DEF Link, Sound
  <2>2. ASSUME NEW m \in IdsIn(ep[p].received) PROVE m \in Recent(low, n + 1)
    <3>1. m \in Recent(low, n)
      BY <2>1 DEF Remembers
    <3>2. m >= low
      BY <3>1 DEF Recent
    <3>3. m \in Acknowledgeable(e)
      <4> DEFINE b == ep[p].received
      <4>1. PICK i \in Received!Slots : b.entries[i] # NoEntry /\ b.entries[i].data.id = m
        BY <2>1, IdsInSlots
      <4>2. m \in {b.entries[j].data.id : j \in {j \in Received!Slots : b.entries[j] # NoEntry}}
        BY <4>1
      <4> QED BY <4>2 DEF Acknowledgeable, p
    <3> HIDE DEF low, n
    <3> QED BY <1>4, <1>5, <3>1, <3>2, <3>3, RecentGrows
  <2> QED BY <2>1, <2>2 DEF Remembers
<1>17. NoStalePartials => Collects(ep[p].reassembly, Recent(low, n + 1))
  <2> SUFFICES ASSUME NoStalePartials PROVE Collects(ep[p].reassembly, Recent(low, n + 1))
    OBVIOUS
  <2> DEFINE r == ep[p].reassembly
  <2>1. r \in Reassemblies /\ Synced(r) /\ Collects(r, Recent(low, n))
    BY <1>3 DEF Link, Sound
  <2>2. ASSUME NEW i \in Tracker!Slots, r.tracker.entries[i] # NoEntry,
               NEW k \in r.slots[i].fragment_received
        PROVE  r.slots[i].chunks[k] \in Partial(p)
    BY <2>2 DEF Partial
  <2> HIDE DEF r, low, n
  <2> QED BY <1>4, <1>5, <2>1, <2>2, CollectsGrows, SMTT(30) DEF r
<1>18. Link(e, p)'
  <2>1. /\ base'[e] = low /\ base'[p] = base[p] /\ accepted'[p] = accepted[p]
        /\ accepted'[e] = A /\ next'[e] = n + 1
    BY <1>2, <1>11
  <2>2. Top(low, accepted[p], t) /\ t <= n + 1
    <3>1. Top(low, accepted[p], t) /\ t <= n
      BY <1>3 DEF Link
    <3> QED BY <3>1, <1>4
  <2>3. NoStalePartials => \A i \in DOMAIN ep[p].incoming : Intact(ep[p].incoming[i])
    BY <1>3 DEF Link
  <2>4. ep'[e].sequence = (n + 1) % SeqSpace /\ ep'[e].sent = c1.sent
    BY <1>10, <1>11
  <2> HIDE DEF low, n, t, A
  <2>5. \A d \in InFlight(e)' :
            Travels(d, base'[e], next'[e], t, accepted'[e] \cap Recent(base'[p], next'[p]))
    BY <1>11, <1>15, <2>1
  <2> QED BY <1>7, <1>11, <1>13, <1>16, <1>17, <2>1, <2>2, <2>3, <2>4, <2>5 DEF Link
<1>19. ASSUME NEW d \in InFlight(p)
       PROVE  Travels(d, base[p], next[p], Newest(e), accepted[p] \cap Recent(low, n + 1))
  <2>1. Travels(d, base[p], next[p], Newest(e), accepted[p] \cap Recent(low, n))
    BY <1>3 DEF Link
  <2>2. ASSUME d.header # NoHeader, NEW m \in d.header.ids PROVE m \in Recent(low, n + 1)
    <3>1. m \in Recent(low, n)
      BY <2>1, <2>2 DEF Travels, Vouches
    <3>2. m >= low
      BY <3>1 DEF Recent
    <3>3. m \in Acknowledgeable(e)
      BY <2>2 DEF Acknowledgeable, p
    <3> HIDE DEF low, n
    <3> QED BY <1>4, <1>5, <3>1, <3>2, <3>3, RecentGrows
  <2> QED BY <2>1, <2>2 DEF Travels, Vouches
<1>20. Link(p, e)'
  <2>1. Recent(low, n + 1) = Recent(base[e], next[e])'
    BY <1>2, <1>11 DEF Recent
  <2> QED BY <1>2, <1>3, <1>10, <1>11, <1>13, <1>14, <1>19 DEF Link
<1>21. \A x \in Endpoints : (Sound(ep[x]) /\ Link(x, Peer(x)))'
  BY <1>1, <1>3, <1>9, <1>11, <1>18, <1>20 DEF p
<1> QED BY <1>12, <1>21 DEF Inv

\* Fragment d goes to its own packet, and completes it whole.
Reassembles(r, d, P) ==
    LET p == ProcessFragment(r, d)
    IN  /\ Collects(p.reassembly, P)
        /\ p.complete =>
               /\ CopyTo(p.reassembly.slots[Tracker!Index(d.sequence)]) =
                      Payload(d.id, d.num_fragments)
               /\ d.num_fragments # 0

\* The length of the packet that datagram d is part of.
LenOf(d) == IF IsFragment(d) THEN d.num_fragments ELSE Len(d.payload)

\* A fragment in flight meets no partial packet but its own.
LEMMA FragmentReassembles ==
    ASSUME NEW c, Sound(c), NEW d \in Fragments, NEW low \in Nat, NEW n \in Nat, NEW t,
           NEW V, Travels(d, low, n, t, V), Collects(c.reassembly, Recent(low, n))
    PROVE  Reassembles(c.reassembly, d, Recent(low, n))
<1> DEFINE P == Recent(low, n)
           r == c.reassembly
<1>1. Genuine(d) /\ d.id \in Nat
  BY DEF Travels, Fragments
<1>2. d.id \in P
  <2>1. low <= d.id /\ d.id < n /\ n - d.id < Half + ReceivedSize
    BY DEF Travels
  <2> QED BY <1>1, <2>1, Sizes DEF Recent
<1>3. r \in Reassemblies /\ Synced(r) /\ FragmentShape(d) /\ Collects(r, P)
  BY FragmentsShape DEF Sound
<1>4. /\ d.sequence = d.id % SeqSpace
      /\ d.chunk = Chunk(d.id, d.fragment_id, d.num_fragments)
  BY <1>1 DEF Genuine
<1>5. \A m \in P : m % SeqSpace = d.id % SeqSpace => m = d.id
  BY <1>2, RecentUnique
<1> HIDE DEF P, r
<1>6. Reassembles(r, d, P)
  BY <1>2, <1>3, <1>4, <1>5, ProcessFragmentCollects DEF Reassembles
<1> QED BY <1>6 DEF P, r

\* What a datagram delivers is the whole packet it is part of.
LEMMA ItemMade ==
    ASSUME NEW c, Sound(c), NEW d, NEW low \in Nat, NEW n \in Nat, NEW t, NEW V,
           Travels(d, low, n, t, V), Collects(c.reassembly, Recent(low, n)), Delivers(c, d)
    PROVE  /\ Item(c, d).payload = Payload(d.id, LenOf(d))
           /\ Item(c, d).sequence = d.id % SeqSpace
           /\ LenOf(d) \in Nat \ {0}
<1>1. d \in Packets \cup Fragments /\ Genuine(d)
  BY DEF Travels
<1>2. Item(c, d).payload = PayloadMade(c, d) /\ Item(c, d).sequence = d.id % SeqSpace
  BY <1>1 DEF Item, Genuine
<1>3. CASE d \in Packets
  <2>1. /\ PayloadMade(c, d) = d.payload /\ d.payload # << >> /\ d.payload \in Seq(Chunks)
        /\ LenOf(d) = Len(d.payload)
    BY <1>3, Kinds DEF PayloadMade, Delivers, Packets, LenOf
  <2>2. d.payload = Payload(d.id, Len(d.payload))
    BY <1>1, <1>3 DEF Genuine
  <2>3. Len(d.payload) \in Nat \ {0}
    BY <2>1
  <2> QED BY <1>2, <2>1, <2>2, <2>3
<1>4. CASE d \in Fragments
  <2>1. IsFragment(d) /\ ProcessFragment(c.reassembly, d).complete
    BY <1>4, Kinds DEF Delivers, Records
  <2>2. Reassembles(c.reassembly, d, Recent(low, n))
    BY <1>4, FragmentReassembles
  <2>3. PayloadMade(c, d) = Payload(d.id, d.num_fragments) /\ d.num_fragments # 0
    BY <2>1, <2>2 DEF PayloadMade, Reassembles
  <2>4. d.num_fragments \in Nat /\ LenOf(d) = d.num_fragments
    BY <1>4, <2>1 DEF Fragments, LenOf
  <2> QED BY <1>2, <2>3, <2>4
<1> QED BY <1>1, <1>3, <1>4

\* The partial packets and the items delivered after a datagram came in.
LEMMA ReceiveCollects ==
    ASSUME NEW c, Sound(c), NEW d, NEW c1, Receives(c, d, c1),
           NEW low \in Nat, NEW n \in Nat, NEW t, NEW V, Travels(d, low, n, t, V),
           Collects(c.reassembly, Recent(low, n)),
           \A i \in DOMAIN c.incoming : Intact(c.incoming[i])
    PROVE  /\ Collects(c1.reassembly, Recent(low, n))
           /\ \A i \in DOMAIN c1.incoming : Intact(c1.incoming[i])
<1> DEFINE P == Recent(low, n)
           r == c.reassembly
<1>1. d \in Packets \cup Fragments /\ Genuine(d) /\ d.id \in Nat
  BY DEF Travels, Packets, Fragments
<1>2. ASSUME d \in Fragments PROVE Reassembles(r, d, P)
  BY <1>2, FragmentReassembles
<1>3. Collects(c1.reassembly, P)
  <2>1. CASE d \in Packets
    BY <2>1, Kinds DEF Receives
  <2>2. CASE d \in Fragments
    BY <1>2, <2>2, Kinds DEF Receives, Reassembles
  <2> QED BY <1>1, <2>1, <2>2
<1>4. ASSUME Delivers(c, d) PROVE Intact(Item(c, d))
  BY <1>1, <1>4, ItemMade DEF Intact
<1>5. ASSUME NEW i \in DOMAIN c1.incoming PROVE Intact(c1.incoming[i])
  <2>1. CASE Delivers(c, d)
    <3> DEFINE x == Item(c, d)
    <3>1. c1.incoming = Append(c.incoming, x) /\ c.incoming \in Seq(Items) /\ Intact(x)
      BY <1>4, <2>1 DEF Receives, Sound
    <3> HIDE DEF x
    <3>2. \/ i \in DOMAIN c.incoming /\ c1.incoming[i] = c.incoming[i]
          \/ c1.incoming[i] = x
      BY <1>5, <3>1
    <3> QED BY <3>1, <3>2
  <2>2. CASE ~Delivers(c, d)
    BY <1>5, <2>2 DEF Receives
  <2> QED BY <2>1, <2>2
<1> QED BY <1>3, <1>5

\* receive_packet() of any datagram in flight keeps the invariant.
LEMMA ReceiveStep ==
    ASSUME Inv, NEW e \in Endpoints, NEW d \in net[e], Receive(e, d)
    PROVE  Inv'
<1> DEFINE p == Peer(e)
           c == ep[e]
           n == next[p]
           low == base[p]
           t == Newest(e)
           A == accepted[e]
           B == accepted'[e]
           V == accepted[p] \cap Recent(base[e], next[e])
           c1 == ReceivePacket(c, d)
<1>1. p \in Endpoints /\ p # e /\ Peer(p) = e /\ \A x \in Endpoints : x = e \/ x = p
  BY PeerFacts
<1>2. Sound(c) /\ Sound(ep[p]) /\ Link(e, p) /\ Link(p, e) /\ Shapes
  BY <1>1 DEF Inv
<1>3. /\ ep' = [ep EXCEPT ![e] = c1]
      /\ accepted' = [accepted EXCEPT ![e] =
             IF ep'[e].counters.packets_received > ep[e].counters.packets_received
             THEN @ \cup {d.id} ELSE @]
      /\ net' = [net EXCEPT ![e] = @ \ {d}] \/ net' = net
      /\ UNCHANGED <<next, base>>
  BY DEF Receive
<1>4. /\ ep'[e] = c1 /\ ep'[p] = ep[p] /\ ep' = [x \in Endpoints |-> ep'[x]]
      /\ accepted'[p] = accepted[p]
      /\ B = IF c1.counters.packets_received > c.counters.packets_received
             THEN A \cup {d.id} ELSE A
  <2>1. ep = [x \in Endpoints |-> ep[x]] /\ accepted \in [Endpoints -> SUBSET Nat]
    BY <1>2 DEF Shapes
  <2>2. ep'[e] = c1 /\ ep'[p] = ep[p] /\ ep' = [x \in Endpoints |-> ep'[x]]
    <3> HIDE DEF p, c1
    <3> QED BY <1>1, <1>3, <2>1
  <2> HIDE DEF p, c1
  <2> QED BY <1>1, <1>3, <2>1, <2>2
<1>5. /\ n \in Nat /\ low \in Nat /\ A \subseteq Nat /\ next[e] \in Nat /\ base[e] \in Nat
  BY <1>1, <1>2 DEF Shapes
<1>6. Travels(d, low, n, t, V)
  <2>1. d \in InFlight(p)
    BY <1>1 DEF InFlight
  <2> QED BY <1>2, <2>1 DEF Link
<1>7. d \in Packets \cup Fragments /\ Genuine(d) /\ (d.header # NoHeader => Vouches(d.header, V))
  BY <1>6 DEF Travels
<1>8. Receives(c, d, c1)
  <2>1. /\ EndpointRecord(c) /\ c.counters \in Counters
        /\ c.incoming \in Seq(Items) /\ Len(c.incoming) <= IncomingSize
    BY <1>2 DEF Sound
  <2> HIDE DEF Items
  <2> QED BY <2>1, ReceiveFields
<1> HIDE DEF c1
<1>9. c1.sent \in Sent!Buffers(SentData) /\ Tracks(c1.sent, base[e], next[e], accepted[p])
  <2>1. Tracks(c.sent, base[e], next[e], accepted[p])
    BY <1>2 DEF Link
  <2> HIDE DEF c, p
  <2> QED BY <1>2, <1>5, <1>7, <1>8, <2>1, ReceiveTracks
<1>10. /\ c1.received \in Received!Buffers(ReceivedData)
       /\ A \subseteq B /\ B \subseteq Nat
       /\ Advances(c1.received, low, n, t, B)
  <2>1. Top(low, A, t) /\ t <= n /\ Remembers(c.received, t, A, Recent(low, n))
    BY <1>2 DEF Link
  <2>2. B = IF c1.counters.packets_received > c.counters.packets_received
            THEN A \cup {d.id} ELSE A
    BY <1>4
  <2>3. Sound(c) /\ low \in Nat /\ n \in Nat /\ A \subseteq Nat
    BY <1>2, <1>5
  <2> HIDE DEF c, low, n, t, A, B, V
  <2>4. Admitted(c, d, A, B)
    BY <1>8, <2>2, <2>3, ReceiveAdmits
  <2> QED BY ONLY <1>6, <1>8, <2>1, <2>3, <2>4, ReceiveRemembers, Zenon
<1>11. PICK u \in Nat : /\ t <= u /\ u <= n
                        /\ Top(low, B, u)
                        /\ Remembers(c1.received, u, B, Recent(low, n))
  BY <1>10 DEF Advances
<1>12. Sound(c1)
  <2> HIDE DEF c
  <2> QED BY <1>2, <1>7, <1>8, <1>9, <1>10, ReceiveSound
<1>13. NoStalePartials => /\ Collects(c1.reassembly, Recent(low, n))
                          /\ \A i \in DOMAIN c1.incoming : Intact(c1.incoming[i])
  <2> SUFFICES ASSUME NoStalePartials
               PROVE  /\ Collects(c1.reassembly, Recent(low, n))
                      /\ \A i \in DOMAIN c1.incoming : Intact(c1.incoming[i])
    OBVIOUS
  <2>1. /\ Collects(c.reassembly, Recent(low, n))
        /\ \A i \in DOMAIN c.incoming : Intact(c.incoming[i])
    BY <1>2 DEF Link
  <2> HIDE DEF c, low, n, t, V
  <2> QED BY <1>2, <1>5, <1>6, <1>8, <2>1, ReceiveCollects
<1>14. Newest(e)' = u /\ Newest(p)' = Newest(p)
  <2>1. Max({low} \cup {m + 1 : m \in B}) = u
    <3> HIDE DEF low, B
    <3> QED BY <1>5, <1>10, <1>11, NewestIs
  <2>2. Newest(e)' = Max({low} \cup {m + 1 : m \in B})
    BY <1>3 DEF Newest
  <2>3. Newest(p)' = Newest(p)
    <3> HIDE DEF p
    <3> QED BY <1>3, <1>4 DEF Newest
  <2> QED BY <2>1, <2>2, <2>3
<1>15. Shapes'
  <2>1. /\ net \in [Endpoints -> SUBSET (Packets \cup Fragments)]
        /\ accepted \in [Endpoints -> SUBSET Nat]
    BY <1>2 DEF Shapes
  <2>2. net' \in [Endpoints -> SUBSET (Packets \cup Fragments)]
    BY <1>3, <2>1
  <2>3. accepted' \in [Endpoints -> SUBSET Nat]
    <3>1. accepted' = [accepted EXCEPT ![e] = B]
      <4> HIDE DEF c1
      <4> QED BY <1>3, <2>1
    <3> HIDE DEF B
    <3> QED BY <1>10, <2>1, <3>1
  <2> QED BY <1>2, <1>3, <1>4, <2>2, <2>3 DEF Shapes
<1>16. InFlight(e)' = InFlight(e) /\ InFlight(p)' \subseteq InFlight(p)
  <2>1. net'[p] = net[p] /\ net'[e] \subseteq net[e]
    <3>1. net \in [Endpoints -> SUBSET (Packets \cup Fragments)]
      BY <1>2 DEF Shapes
    <3> HIDE DEF p
    <3> QED BY <1>1, <1>3, <3>1
  <2>2. c1.outgoing = c.outgoing
    BY <1>8 DEF Receives
  <2>3. InFlight(e)' = InFlight(e)
    BY <1>4, <2>1, <2>2 DEF InFlight
  <2>4. InFlight(p)' \subseteq InFlight(p)
    <3> HIDE DEF p
    <3> QED BY <1>1, <1>4, <2>1 DEF InFlight
  <2> QED BY <2>3, <2>4
<1>17. c1.sequence = c.sequence
  BY <1>8 DEF Receives
<1>18. /\ next'[e] = next[e] /\ next'[p] = n /\ base'[e] = base[e] /\ base'[p] = low
  BY <1>3
<1> HIDE DEF p, c, n, low, t, A, B, V
<1>19. Link(e, p)'
  <2>1. \A x \in InFlight(e) :
            Travels(x, base[e], next[e], Newest(p), B \cap Recent(low, n))
    <3>1. \A x \in InFlight(e) :
              Travels(x, base[e], next[e], Newest(p), A \cap Recent(low, n))
      BY <1>2 DEF Link, A, low, n
    <3>2. \A x, v, R : Travels(x, base[e], next[e], v, A \cap R) =>
                           Travels(x, base[e], next[e], v, B \cap R)
      BY <1>10, MoreAccepted
    <3> QED BY <3>1, <3>2
  <2> QED BY <1>2, <1>4, <1>9, <1>14, <1>16, <1>17, <1>18, <2>1 DEF Link, B, c
<1>20. Link(p, e)'
  <2>1. Tracks(ep[p].sent, low, n, B)
    <3>1. Tracks(ep[p].sent, low, n, A)
      BY <1>2 DEF Link, A, low, n
    <3> QED BY <1>10, <3>1, MoreAccepted
  <2>2. \A x \in InFlight(p)' : Travels(x, low, n, u, V)
    <3> TAKE x \in InFlight(p)'
    <3>1. Travels(x, low, n, t, V)
      BY <1>2, <1>16 DEF Link, low, n, t, V
    <3>2. x.id \in Nat /\ x.id - t < Half - ReceivedSize /\ t \in Nat
      <4>1. Top(low, A, t)
        BY <1>2 DEF Link, low, A, t
      <4> QED BY <3>1, <4>1 DEF Travels, Packets, Fragments, Top
    <3>3. x.id - u < Half - ReceivedSize
      BY <1>11, <3>2, Sizes
    <3> QED BY <3>1, <3>3 DEF Travels
  <2>3. ep[p].sequence = n % SeqSpace
    BY <1>2 DEF Link, n
  <2> QED BY <1>4, <1>11, <1>13, <1>14, <1>18, <2>1, <2>2, <2>3 DEF Link, B, V
<1>21. \A x \in Endpoints : (Sound(ep[x]) /\ Link(x, Peer(x)))'
  BY <1>1, <1>2, <1>4, <1>12, <1>19, <1>20 DEF p
<1> QED BY <1>15, <1>21 DEF Inv

\* A reset endpoint is fresh.
LEMMA ResetIsFresh ==
    ASSUME NEW c, Sound(c)
    PROVE  Fresh(ResetEndpoint(c))
<1> DEFINE n == NewEndpoint
           r == ResetReassembly(c.reassembly)
           c1 == ResetEndpoint(c)
<1>1. Fresh(n)
  BY NewIsFresh
<1>2. c1 = [n EXCEPT !.time = c.time, !.reassembly = r]
  BY DEF ResetEndpoint
<1>3. r = [tracker |-> Tracker!NewBuffer, slots |-> c.reassembly.slots]
      /\ c.reassembly.slots \in [Tracker!Slots -> SlotStates]
  BY DEF Sound, Reassemblies, ResetReassembly
<1> HIDE DEF n, r, c1
<1>4. /\ EndpointRecord(c1) /\ c1.time = c.time /\ c1.sequence = n.sequence
      /\ c1.sent = n.sent /\ c1.received = n.received /\ c1.reassembly = r
      /\ c1.outgoing = n.outgoing /\ c1.incoming = n.incoming
      /\ c1.ack_buf = n.ack_buf /\ c1.counters = n.counters
  BY <1>1, <1>2 DEF Fresh, EndpointRecord, Endpoint
<1> QED BY <1>1, <1>3, <1>4 DEF Fresh, Sound, c1

\* The next id whose sequence number is 0.
LEMMA RoundUp ==
    ASSUME NEW n \in Nat
    PROVE  LET m == SeqSpace * ((n + SeqSpace - 1) \div SeqSpace)
           IN  m \in Nat /\ n <= m /\ m < n + SeqSpace /\ m % SeqSpace = 0
<1> DEFINE x == n + SeqSpace - 1
           k == x \div SeqSpace
           r == x % SeqSpace
<1>1. x \in Int /\ SeqSpace \in Nat \ {0}
  BY Sizes
<1>2. x = n + SeqSpace - 1
  OBVIOUS
<1> HIDE DEF x
<1>3. k \in Int /\ r \in Int /\ 0 <= r /\ r < SeqSpace /\ x = SeqSpace * k + r
  BY <1>1, DivMod
<1> HIDE DEF k, r
<1> DEFINE m == SeqSpace * k
<1>4. m \in Int
  BY <1>1, <1>3
<1>5. m = k * SeqSpace + 0
  BY <1>1, <1>3
<1>6. (k * SeqSpace + 0) % SeqSpace = 0
  <2>1. 0 \in Int /\ 0 < SeqSpace
    BY <1>1
  <2> QED BY ONLY <1>1, <1>3, <2>1, ModUnique
<1>7. x = m + r
  BY <1>3
<1>8. m % SeqSpace = 0
  BY ONLY <1>5, <1>6, Zenon
<1> HIDE DEF m
<1>9. n <= m /\ m < n + SeqSpace
  BY <1>1, <1>2, <1>3, <1>4, <1>7
<1> QED BY <1>4, <1>8, <1>9 DEF m, k, x

\* reset() of both endpoints keeps the invariant.
LEMMA RestartStep ==
    ASSUME Inv, Restart
    PROVE  Inv'
<1>1. /\ \A e \in Endpoints : net[e] = {}
      /\ ep' = [e \in Endpoints |-> ResetEndpoint(ep[e])]
      /\ next' = [e \in Endpoints |-> SeqSpace * ((next[e] + SeqSpace - 1) \div SeqSpace)]
      /\ base' = next' /\ UNCHANGED <<net, accepted>>
  BY DEF Restart, history
<1>2. Shapes
  BY DEF Inv
<1>3. ASSUME NEW e \in Endpoints
      PROVE  next'[e] \in Nat /\ next[e] <= next'[e] /\ next'[e] % SeqSpace = 0
  <2>1. next[e] \in Nat
    BY <1>2 DEF Shapes
  <2> QED BY <1>1, <2>1, RoundUp
<1>4. Shapes'
  BY <1>1, <1>2, <1>3 DEF Shapes
<1>5. ASSUME NEW e \in Endpoints
      PROVE  Fresh(ep'[e])
  <2>1. Sound(ep[e])
    BY DEF Inv
  <2> QED BY <1>1, <2>1, ResetIsFresh
<1>6. ASSUME NEW e \in Endpoints
      PROVE  (Sound(ep[e]) /\ Link(e, Peer(e)))'
  <2> DEFINE p == Peer(e)
             m == next'[e]
             A == accepted[p]
             R == Recent(m, m)
  <2>1. p \in Endpoints /\ Peer(p) = e
    BY PeerFacts
  <2>2. Fresh(ep'[e]) /\ Fresh(ep'[p]) /\ m \in Nat /\ m % SeqSpace = 0 /\ base'[e] = m
    BY <1>1, <1>3, <1>5, <2>1
  <2>3. Top(m, A, m)
    <3>1. Top(base[e], A, Newest(p)) /\ Newest(p) <= next[e]
      BY DEF Inv, Link
    <3>2. next[e] \in Nat /\ next[e] <= m /\ A \subseteq Nat
      BY <1>2, <1>3, <2>1 DEF Shapes
    <3> HIDE DEF m, A
    <3>3. \A x \in A : x < m
      <4> TAKE x \in A
      <4>1. x \in Nat /\ x < Newest(p) /\ Newest(p) \in Nat
        BY <3>1, <3>2 DEF Top
      <4> QED BY <2>2, <3>1, <3>2, <4>1
    <3> QED BY <2>2, <3>3 DEF Top
  <2>4. Newest(p)' = m
    <3>1. Newest(p)' = Max({m} \cup {n + 1 : n \in A})
      <4> HIDE DEF p, m
      <4> QED BY <1>1, <2>1, <2>2 DEF Newest
    <3>2. A \subseteq Nat
      BY <1>2, <2>1 DEF Shapes
    <3> HIDE DEF m, A
    <3> QED BY <2>2, <2>3, <3>1, <3>2, NewestIs
  <2>5. InFlight(e)' = {}
    <3>1. net'[p] = {}
      BY <1>1, <2>1
    <3>2. ToSet(<< >>) = {}
      BY DEF ToSet
    <3> QED BY <2>2, <3>1, <3>2 DEF InFlight, Fresh
  <2>6. /\ Sound(ep'[e]) /\ Tracks(ep'[e].sent, m, m, A)
        /\ Remembers(ep'[p].received, m, A, R) /\ Collects(ep'[p].reassembly, R)
    <3> HIDE DEF m, A, R, p
    <3> QED BY <2>2, FreshFacts
  <2>7. ep'[e].sequence = m % SeqSpace /\ ep'[p].incoming = << >> /\ m <= m
    BY <2>2 DEF Fresh
  <2>8. \A i \in DOMAIN << >> : FALSE
    OBVIOUS
  <2>9. accepted'[p] = A
    BY <1>1
  <2> HIDE DEF p
  <2>10. Link(e, p)'
    BY <2>2, <2>3, <2>4, <2>5, <2>6, <2>7, <2>8, <2>9 DEF Link
  <2> QED BY <2>6, <2>10 DEF p
<1> QED BY <1>4, <1>6 DEF Inv

\* With no packets sent before, the connection starts as the program does: two new
\* endpoints and nothing in flight.
LEMMA InitState ==
    ASSUME Start = 0, Init
    PROVE  /\ ep = [e \in Endpoints |-> NewEndpoint] /\ net = [e \in Endpoints |-> {}]
           /\ next = [e \in Endpoints |-> 0] /\ base = [e \in Endpoints |-> 0]
           /\ accepted = [e \in Endpoints |-> {}]
<1>1. WarmUp[Start] = [e \in Endpoints |-> NewEndpoint]
  <2> DEFINE first == CHOOSE e \in Endpoints : TRUE
             step(f, k) == IF k = 0
                           THEN [e \in Endpoints |-> NewEndpoint]
                           ELSE Exchange(Exchange(f[k - 1], first, k - 1, StartLen),
                                         Peer(first), k - 1, StartLen)
             g == [k \in 0 .. Start |-> [e \in Endpoints |-> NewEndpoint]]
  <2>1. g = [k \in 0 .. Start |-> step(g, k)]
    <3>1. \A k \in 0 .. Start : k = 0
      OBVIOUS
    <3> QED BY <3>1
  <2>2. WarmUp = [k \in 0 .. Start |-> step(WarmUp, k)]
    <3> HIDE DEF g
    <3> QED BY <2>1 DEF WarmUp
  <2>3. Start \in 0 .. Start
    OBVIOUS
  <2> QED BY <2>2, <2>3
<1>2. 0 .. (Start - 1) = {}
  OBVIOUS
<1> QED BY <1>1, <1>2 DEF Init

\* The invariant holds in the program's initial state.
LEMMA InitInv ==
    ASSUME Start = 0, Init
    PROVE  Inv
<1>2. /\ ep = [e \in Endpoints |-> NewEndpoint] /\ net = [e \in Endpoints |-> {}]
      /\ next = [e \in Endpoints |-> 0] /\ base = [e \in Endpoints |-> 0]
      /\ accepted = [e \in Endpoints |-> {}]
  BY InitState
<1>3. Shapes
  BY <1>2 DEF Shapes
<1>4. Fresh(NewEndpoint)
  BY NewIsFresh
<1>5. ASSUME NEW e \in Endpoints
      PROVE  Sound(ep[e]) /\ Link(e, Peer(e))
  <2> DEFINE p == Peer(e)
             A == accepted[p]
             R == Recent(0, 0)
  <2>1. p \in Endpoints /\ Peer(p) = e
    BY PeerFacts
  <2>2. Fresh(ep[e]) /\ Fresh(ep[p]) /\ base[e] = 0 /\ next[e] = 0 /\ A = {}
    BY <1>2, <1>4, <2>1
  <2>3. 0 % SeqSpace = 0 /\ 0 \in Nat
    BY Sizes
  <2>4. Top(0, A, 0)
    BY <2>2 DEF Top
  <2>5. Newest(p) = 0
    <3>1. Newest(p) = Max({0} \cup {n + 1 : n \in A})
      <4> HIDE DEF p
      <4> QED BY <2>1, <2>2 DEF Newest
    <3> HIDE DEF A
    <3>2. A \subseteq Nat
      BY <2>2
    <3> QED BY <2>3, <2>4, <3>1, <3>2, NewestIs
  <2>6. InFlight(e) = {}
    <3>1. net[p] = {}
      BY <1>2, <2>1
    <3>2. ToSet(<< >>) = {}
      BY DEF ToSet
    <3> QED BY <2>2, <3>1, <3>2 DEF InFlight, Fresh
  <2>7. /\ Sound(ep[e]) /\ Tracks(ep[e].sent, 0, 0, A)
        /\ Remembers(ep[p].received, 0, A, R) /\ Collects(ep[p].reassembly, R)
    <3> HIDE DEF A, R, p
    <3> QED BY <2>2, <2>3, FreshFacts
  <2>8. ep[e].sequence = 0 /\ ep[p].incoming = << >>
    BY <2>2 DEF Fresh
  <2>9. \A i \in DOMAIN << >> : FALSE
    OBVIOUS
  <2> HIDE DEF p
  <2>10. Link(e, p)
    BY <2>2, <2>3, <2>4, <2>5, <2>6, <2>7, <2>8, <2>9 DEF Link
  <2> QED BY <2>7, <2>10 DEF p
<1> QED BY <1>3, <1>5 DEF Inv

\* Every step keeps the invariant.
LEMMA NextInv ==
    ASSUME Inv, [Next]_vars
    PROVE  Inv'
<1>1. CASE Restart
  BY <1>1, RestartStep
<1>2. ASSUME NEW e \in Endpoints, NEW len \in Lens, Send(e, len) PROVE Inv'
  BY <1>2, SendStep
<1>3. ASSUME NEW e \in Endpoints, SendTooLarge(e) PROVE Inv'
  BY <1>3, SendTooLargeStep
<1>4. ASSUME NEW e \in Endpoints, NEW through \in SUBSET ToSet(ep[e].outgoing),
             Flush(e, through)
      PROVE  Inv'
  BY <1>4, FlushStep
<1>5. ASSUME NEW e \in Endpoints, NEW d \in net[e], Receive(e, d) PROVE Inv'
  BY <1>5, ReceiveStep
<1>6. ASSUME NEW e \in Endpoints, ReceiveForeign(e) PROVE Inv'
  BY <1>6, ReceiveForeignStep
<1>7. ASSUME NEW e \in Endpoints, ReadIncoming(e) PROVE Inv'
  BY <1>7, ReadIncomingStep
<1>8. ASSUME NEW e \in Endpoints, ReadAcks(e) PROVE Inv'
  BY <1>8, ReadAcksStep
<1>9. CASE UNCHANGED vars
  BY <1>9 DEF vars, history, Inv, Shapes, Link, Newest, InFlight
<1> QED BY <1>1, <1>2, <1>3, <1>4, <1>5, <1>6, <1>7, <1>8, <1>9 DEF Next

--------------------------------------------------------------------------------
(* The theorems.  They are about the connection from its creation on; WarmUp only *)
(* shortens TLC's way to the wrap of the sequence numbers.                        *)

\* The invariant is inductive.
LEMMA Invariance ==
    ASSUME Start = 0
    PROVE  Spec => []Inv
<1>1. Init => Inv
  BY InitInv
<1>2. Inv /\ [Next]_vars => Inv'
  BY NextInv
<1> QED BY <1>1, <1>2, PTL DEF Spec

\* The sequence number an endpoint sends next is its packet count modulo 2^16, its
\* buffers hold what they are for, and no queue outgrows its configured size.
THEOREM ConnectionTypes ==
    ASSUME Start = 0
    PROVE  Spec => []TypeOK
<1>1. Inv => TypeOK
  <2> SUFFICES ASSUME Inv, NEW e \in Endpoints
               PROVE  /\ ep[e].sequence \in SeqNums
                      /\ ep[e].sequence = next[e] % SeqSpace
                      /\ ep[e].sent \in Sent!Buffers(SentData)
                      /\ ep[e].received \in Received!Buffers(ReceivedData)
                      /\ ep[e].reassembly.tracker \in Tracker!Buffers({{}})
                      /\ Len(ep[e].outgoing) <= OutgoingSize
                      /\ Len(ep[e].incoming) <= IncomingSize
                      /\ Len(ep[e].ack_buf) <= AckBufSize
                      /\ ep[e].counters \in [DOMAIN ZeroCounters -> Nat]
    BY DEF TypeOK
  <2>1. Sound(ep[e]) /\ ep[e].sequence = next[e] % SeqSpace /\ next[e] \in Nat
    BY DEF Inv, Link, Shapes
  <2>2. ep[e].sequence \in SeqNums
    <3>1. next[e] \in Int /\ SeqSpace \in Nat \ {0}
      BY <2>1, Sizes
    <3>2. next[e] % SeqSpace \in 0 .. (SeqSpace - 1)
      BY <3>1, DivMod
    <3> QED BY <2>1, <3>2 DEF SeqNums
  <2>3. ep[e].reassembly.tracker \in Tracker!Buffers({{}})
    BY <2>1 DEF Sound, Reassemblies
  <2> QED BY <2>1, <2>2, <2>3 DEF Sound, Counters
<1> QED BY <1>1, Invariance, PTL

\* The received window stands where the newest packet recorded put it: a late, a
\* duplicated or a wrapped sequence number never moves it.
THEOREM HeadFollowsNewest ==
    ASSUME Start = 0
    PROVE  Spec => []HeadIsNewest
<1>1. Inv => HeadIsNewest
  <2> SUFFICES ASSUME Inv, NEW e \in Endpoints
               PROVE  ep[e].received.sequence = Newest(e) % SeqSpace
    BY DEF HeadIsNewest
  <2> DEFINE p == Peer(e)
  <2>1. p \in Endpoints /\ Peer(p) = e
    BY PeerFacts
  <2>2. Link(p, e)
    BY <2>1 DEF Inv
  <2>3. ReceivedL!InOrder(ep[e].received, Newest(e))
    BY <2>2 DEF Link, Remembers
  <2> QED BY <2>3 DEF ReceivedL!InOrder, ReceivedL!Numbered
<1> QED BY <1>1, Invariance, PTL

\* process_acks() marks a packet acknowledged only if the peer recorded that very
\* packet, for any loss, duplication and reordering that Timely admits.
THEOREM AcksAreSound ==
    ASSUME Start = 0
    PROVE  Spec => []AckSound
<1>1. Inv => AckSound
  <2> SUFFICES ASSUME Inv, NEW e \in Endpoints, NEW f \in Acked(e)
               PROVE  f.id \in accepted[Peer(e)]
    BY DEF AckSound
  <2>1. Tracks(ep[e].sent, base[e], next[e], accepted[Peer(e)])
    BY DEF Inv, Link
  <2>2. PICK i \in Sent!Slots : /\ ep[e].sent.entries[i] # NoEntry
                                /\ ep[e].sent.entries[i].data.acked
                                /\ f = ep[e].sent.entries[i].data
    BY DEF Acked
  <2> QED BY <2>1, <2>2 DEF Tracks
<1> QED BY <1>1, Invariance, PTL

\* process_fragment() and reset() keep the tracker and the slots in step: a tracked
\* sequence has its own slot, with some but not all of its fragments.
THEOREM ReassemblyStaysInSync ==
    ASSUME Start = 0
    PROVE  Spec => []ReassemblySync
<1>1. Inv => ReassemblySync
  <2> SUFFICES ASSUME Inv PROVE ReassemblySync
    OBVIOUS
  <2>1. \A e \in Endpoints : Synced(ep[e].reassembly)
    BY DEF Inv, Sound
  <2> QED BY <2>1 DEF ReassemblySync, Synced, Consistent
<1> QED BY <1>1, Invariance, PTL

\* Whatever is delivered is one packet of the peer, whole, in order and under its
\* sequence number, provided no partial packet outlives its sequence number.
THEOREM DeliveriesAreIntact ==
    ASSUME Start = 0, NoStalePartials
    PROVE  Spec => []Integrity
<1>1. Inv => Integrity
  <2> SUFFICES ASSUME Inv, NEW e \in Endpoints, NEW i \in DOMAIN ep[e].incoming
               PROVE  LET item == ep[e].incoming[i]
                          c    == item.payload[1]
                      IN  /\ item.payload = Payload(c.id, c.len)
                          /\ item.sequence = c.id % SeqSpace
    BY DEF Integrity
  <2> DEFINE p == Peer(e)
             item == ep[e].incoming[i]
  <2>1. p \in Endpoints /\ Peer(p) = e
    BY PeerFacts
  <2>2. Link(p, e)
    BY <2>1 DEF Inv
  <2>3. Intact(item)
    BY <2>2 DEF Link
  <2> HIDE DEF item
  <2>4. PICK id \in Nat, len \in Nat \ {0} :
            item.payload = Payload(id, len) /\ item.sequence = id % SeqSpace
    BY <2>3 DEF Intact
  <2>5. item.payload[1] = Chunk(id, 0, len)
    <3>1. 1 \in 1 .. len /\ 1 - 1 = 0
      OBVIOUS
    <3>2. Payload(id, len)[1] = Chunk(id, 1 - 1, len)
      BY <3>1, PayloadFacts
    <3> QED BY <2>4, <3>1, <3>2
  <2>6. item.payload[1].id = id /\ item.payload[1].len = len
    BY <2>5 DEF Chunk
  <2> QED BY <2>4, <2>6 DEF item
<1> QED BY <1>1, Invariance, PTL

--------------------------------------------------------------------------------
(* Acks are reported once *)

\* The packets of id m that b tracks are acknowledged.
Closed(b, m) ==
    \A i \in Sent!Slots :
        b.entries[i] # NoEntry /\ b.entries[i].data.id = m => b.entries[i].data.acked

\* Packet m was reported k times before, and is in the ack buffer of c or not: at
\* most once in all, and not if its ack may still come.  n is the next id.
Counted(k, c, n, m) ==
    /\ k + Reports(c.ack_buf, m) <= 1
    /\ k + Reports(c.ack_buf, m) = 1 => m < n /\ Closed(c.sent, m)

\* Every ack of endpoint e, in state c with next id n, is counted right by r.
ReportedOnce(r, c, n, e) ==
    /\ r \in [IdsOf(e) -> Nat]
    /\ \A m \in IdsOf(e) : Counted(r[m], c, n, m)

\* What Inv is strengthened by: it relates the acks reported to the flags.
Reporting ==
    /\ reported = [e \in Endpoints |-> reported[e]]
    /\ \A e \in Endpoints : ReportedOnce(reported[e], ep[e], next[e], e)

\* A set of at most one element.
LEMMA AtMostOne ==
    ASSUME NEW X, \A x, y \in X : x = y
    PROVE  Cardinality(X) \in {0, 1} /\ (X # {} => Cardinality(X) = 1)
<1>1. CASE X = {}
  <2>1. Cardinality({}) = 0
    BY FS_EmptySet
  <2> QED BY ONLY <1>1, <2>1, Zenon
<1>2. CASE X # {}
  <2>1. PICK x \in X : TRUE
    BY <1>2
  <2>2. X = {x}
    BY <2>1
  <2>3. Cardinality({x}) = 1
    BY FS_Singleton
  <2>4. Cardinality(X) = 1
    BY ONLY <2>2, <2>3, Zenon
  <2> QED BY <2>4
<1> QED BY <1>1, <1>2

\* How often an ack is in a queue.
LEMMA ReportsType ==
    ASSUME NEW q \in Seq(AckItems), NEW m
    PROVE  /\ Reports(q, m) \in Nat
           /\ Reports(q, m) = 0 => \A i \in 1 .. Len(q) : q[i].id # m
           /\ Reports(<< >>, m) = 0
<1> DEFINE X == {i \in DOMAIN q : q[i].id = m}
<1>1. DOMAIN q = 1 .. Len(q) /\ Len(q) \in Nat
  OBVIOUS
<1>2. IsFiniteSet(X)
  <2>1. IsFiniteSet(1 .. Len(q)) /\ X \in SUBSET (1 .. Len(q))
    BY <1>1, FS_Interval
  <2> HIDE DEF X
  <2> QED BY <2>1, FS_Subset
<1>3. Reports(q, m) = Cardinality(X)
  BY DEF Reports
<1>4. \A i \in 1 .. Len(q) : q[i].id = m => i \in X
  BY <1>1
<1>5. Reports(<< >>, m) = 0
  <2>1. {i \in DOMAIN << >> : << >>[i].id = m} = {}
    OBVIOUS
  <2>2. Cardinality({}) = 0
    BY FS_EmptySet
  <2>3. Reports(<< >>, m) = Cardinality({i \in DOMAIN << >> : << >>[i].id = m})
    BY DEF Reports
  <2> QED BY ONLY <2>1, <2>2, <2>3, Zenon
<1> HIDE DEF X
<1>6. Cardinality(X) \in Nat /\ (Cardinality(X) = 0 <=> X = {})
  BY <1>2, FS_CardinalityType, FS_EmptySet
<1> QED BY <1>3, <1>4, <1>5, <1>6

\* Acks written into the ack buffer, each packet's at most once.
LEMMA ReportsWrite ==
    ASSUME NEW q \in Seq(AckItems), NEW items \in Seq(AckItems), Len(q) <= AckBufSize, NEW m,
           \A i, j \in 1 .. Len(items) : items[i].id = m /\ items[j].id = m => i = j
    PROVE  LET w == WriteAll(q, AckBufSize, items)
           IN  /\ (\A j \in 1 .. Len(items) : items[j].id # m) =>
                      Reports(w, m) = Reports(q, m)
               /\ Reports(q, m) = 0 => Reports(w, m) <= 1
<1> DEFINE w == WriteAll(q, AckBufSize, items)
           X == {i \in DOMAIN w : w[i].id = m}
           Y == {i \in DOMAIN q : q[i].id = m}
<1>1. AckBufSize \in Nat
  BY LimitAssumption
<1>2. /\ w \in Seq(AckItems) /\ Len(q) <= Len(w)
      /\ \A i \in 1 .. Len(q) : w[i] = q[i]
      /\ \A i \in 1 .. Len(w) : i > Len(q) =>
             i - Len(q) \in 1 .. Len(items) /\ w[i] = items[i - Len(q)]
  <2> HIDE DEF AckItems
  <2> QED BY <1>1, WriteAllFacts
<1>3. /\ DOMAIN w = 1 .. Len(w) /\ DOMAIN q = 1 .. Len(q) /\ Len(w) \in Nat /\ Len(q) \in Nat
      /\ Len(items) \in Nat
  BY <1>2
<1>4. Reports(w, m) = Cardinality(X) /\ Reports(q, m) = Cardinality(Y)
  BY DEF Reports
<1>5. ASSUME \A j \in 1 .. Len(items) : items[j].id # m PROVE Reports(w, m) = Reports(q, m)
  <2>1. X = Y
    <3> HIDE DEF w
    <3>1. ASSUME NEW i \in X PROVE i \in Y
      BY <1>2, <1>3, <1>5
    <3>2. ASSUME NEW i \in Y PROVE i \in X
      BY <1>2, <1>3
    <3> QED BY <3>1, <3>2
  <2> QED BY <1>4, <2>1
<1>6. ASSUME Reports(q, m) = 0 PROVE Reports(w, m) <= 1
  <2>1. \A i \in 1 .. Len(q) : q[i].id # m
    BY <1>6, ReportsType
  <2> HIDE DEF w
  <2>2. ASSUME NEW i \in X PROVE /\ i \in Nat /\ i > Len(q) /\ i - Len(q) \in 1 .. Len(items)
                                 /\ items[i - Len(q)].id = m
    BY <1>2, <1>3, <2>1
  <2>3. \A i, j \in X : i = j
    <3> TAKE i, j \in X
    <3>1. /\ i \in Nat /\ i - Len(q) \in 1 .. Len(items) /\ items[i - Len(q)].id = m
          /\ j \in Nat /\ j - Len(q) \in 1 .. Len(items) /\ items[j - Len(q)].id = m
      BY <2>2
    <3>2. i - Len(q) = j - Len(q)
      BY <3>1
    <3> QED BY <1>3, <3>1, <3>2
  <2> HIDE DEF X
  <2>4. Cardinality(X) \in {0, 1}
    BY <2>3, AtMostOne
  <2> QED BY <1>4, <2>4
<1> QED BY <1>5, <1>6

\* Each ack announced is of a packet tracked and not yet acknowledged.
LEMMA AnnouncedTracked ==
    ASSUME NEW c, c.sent \in Sent!Buffers(SentData), NEW a \in Headers, NEW n \in Nat,
           SentL!InOrder(c.sent, n), NEW q, Announces(c, a, q), NEW j \in 1 .. Len(q)
    PROVE  /\ q[j].sequence = q[j].id % SeqSpace
           /\ q[j].id < n
           /\ ~Closed(c.sent, q[j].id)
           /\ Hit(a, NewlyAcked(c, a), q[j].sequence)
<1>1. PICK k \in NewlyAcked(c, a) : q[j] = AckFor(c, a, k)
  BY DEF Announces
<1> DEFINE s == AckSequence(a, k)
           i == Sent!Index(s)
<1>2. /\ i \in Sent!Slots /\ Sent!Exists(c.sent, s) /\ ~Sent!Find(c.sent, s).acked
  BY NewlyAckedBits
<1>3. q[j].sequence = s /\ q[j].id = Sent!Find(c.sent, s).id
  BY <1>1 DEF AckFor
<1> HIDE DEF s
<1>4. /\ c.sent.entries[i] # NoEntry /\ c.sent.entries[i].sequence = s
      /\ Sent!Find(c.sent, s) = c.sent.entries[i].data
  BY <1>2 DEF Sent!Exists, Sent!Find
<1> HIDE DEF i
<1>5. /\ c.sent.entries[i].data.id < n
      /\ c.sent.entries[i].sequence = c.sent.entries[i].data.id % SeqSpace
  BY <1>2, <1>4, SentSlot
<1>6. ~Closed(c.sent, q[j].id)
  BY <1>2, <1>3, <1>4 DEF Closed
<1>7. Hit(a, NewlyAcked(c, a), q[j].sequence)
  BY <1>3 DEF Hit, s
<1> QED BY <1>3, <1>4, <1>5, <1>6, <1>7

\* No packet is announced twice.
LEMMA AnnouncedOnce ==
    ASSUME NEW c, c.sent \in Sent!Buffers(SentData), NEW a \in Headers, NEW n \in Nat,
           SentL!InOrder(c.sent, n), NEW q, Announces(c, a, q), NEW m
    PROVE  \A i, j \in 1 .. Len(q) : q[i].id = m /\ q[j].id = m => i = j
<1> TAKE i, j \in 1 .. Len(q)
<1> HAVE q[i].id = m /\ q[j].id = m
<1>1. q[i].sequence = q[i].id % SeqSpace /\ q[j].sequence = q[j].id % SeqSpace
  BY AnnouncedTracked
<1>2. q[i].sequence = q[j].sequence
  BY <1>1
<1> QED BY <1>2 DEF Announces

\* Flagging an announced packet closes it, and opens none.
LEMMA FlagCloses ==
    ASSUME NEW b \in Sent!Buffers(SentData), NEW n \in Nat, SentL!InOrder(b, n), NEW a, NEW S, NEW m
    PROVE  /\ Closed(b, m) => Closed(FlagAcked(b, a, S), m)
           /\ Hit(a, S, m % SeqSpace) => Closed(FlagAcked(b, a, S), m)
<1> DEFINE c == FlagAcked(b, a, S)
<1>1. \A i \in Sent!Slots :
          FlaggedAs(b.entries[i], c.entries[i], Hit(a, S, b.entries[i].sequence))
  BY FlagAckedFacts
<1> HIDE DEF c
<1>2. ASSUME NEW i \in Sent!Slots, c.entries[i] # NoEntry, c.entries[i].data.id = m
      PROVE  /\ b.entries[i] # NoEntry
             /\ b.entries[i].data.id = m
             /\ b.entries[i].sequence = m % SeqSpace
             /\ c.entries[i].data.acked <=>
                    b.entries[i].data.acked \/ Hit(a, S, b.entries[i].sequence)
  <2>1. /\ b.entries[i] # NoEntry
        /\ b.entries[i].data.id = m
        /\ c.entries[i].data.acked <=>
               b.entries[i].data.acked \/ Hit(a, S, b.entries[i].sequence)
    BY <1>1, <1>2 DEF FlaggedAs
  <2> QED BY <2>1, SentSlot
<1> QED BY <1>2 DEF Closed, c

\* A datagram that comes in is counted right.
LEMMA ReceiveCounted ==
    ASSUME NEW c, Sound(c), NEW d \in Packets \cup Fragments, Genuine(d), NEW c1,
           Receives(c, d, c1), NEW n \in Nat, SentL!InOrder(c.sent, n),
           NEW m \in Nat, NEW k \in Nat, Counted(k, c, n, m)
    PROVE  Counted(k, c1, n, m)
<1>1. c.ack_buf \in Seq(AckItems) /\ Len(c.ack_buf) <= AckBufSize
      /\ c.sent \in Sent!Buffers(SentData)
  BY DEF Sound
<1>2. CASE TakesAcks(c, d)
  <2> DEFINE a == d.header
             S == NewlyAcked(c, a)
             q == NewAcks(c, a)
             w == WriteAll(c.ack_buf, AckBufSize, q)
  <2>1. a \in Headers
    BY <1>2, TakesHeader
  <2>2. c1.sent = FlagAcked(c.sent, a, S) /\ c1.ack_buf = w
    BY <1>2 DEF Receives, AckBufRoom
  <2>3. Announces(c, a, q)
    BY <1>1, <2>1, NewAcksFacts
  <2> HIDE DEF a, q
  <2>4. q \in Seq(AckItems)
    BY <2>3 DEF Announces
  <2>5. \A i, j \in 1 .. Len(q) : q[i].id = m /\ q[j].id = m => i = j
    BY <1>1, <2>1, <2>3, AnnouncedOnce
  <2>6. /\ (\A j \in 1 .. Len(q) : q[j].id # m) => Reports(w, m) = Reports(c.ack_buf, m)
        /\ Reports(c.ack_buf, m) = 0 => Reports(w, m) <= 1
    BY <1>1, <2>4, <2>5, ReportsWrite
  <2>7. Reports(c.ack_buf, m) \in Nat /\ Reports(w, m) \in Nat
    <3>1. w \in Seq(AckItems)
      <4>1. AckBufSize \in Nat
        BY LimitAssumption
      <4> HIDE DEF AckItems
      <4> QED BY <1>1, <2>4, <4>1, WriteAllFacts
    <3> HIDE DEF w
    <3> QED BY <1>1, <3>1, ReportsType
  <2> HIDE DEF w, S
  <2>8. CASE \A j \in 1 .. Len(q) : q[j].id # m
    <3>1. Reports(w, m) = Reports(c.ack_buf, m)
      BY <2>6, <2>8
    <3>2. Closed(c.sent, m) => Closed(c1.sent, m)
      BY <1>1, <2>2, FlagCloses
    <3> QED BY <2>2, <3>1, <3>2 DEF Counted
  <2>9. CASE \E j \in 1 .. Len(q) : q[j].id = m
    <3>1. PICK j \in 1 .. Len(q) : q[j].id = m
      BY <2>9
    <3>2. /\ q[j].sequence = m % SeqSpace /\ m < n /\ ~Closed(c.sent, m)
          /\ Hit(a, S, q[j].sequence)
      <4>1. /\ q[j].sequence = q[j].id % SeqSpace /\ q[j].id < n
            /\ ~Closed(c.sent, q[j].id) /\ Hit(a, NewlyAcked(c, a), q[j].sequence)
        BY <1>1, <2>1, <2>3, AnnouncedTracked
      <4> QED BY ONLY <3>1, <4>1, Zenon DEF S
    <3>3. Closed(c1.sent, m)
      BY <1>1, <2>2, <3>2, FlagCloses
    <3>4. k + Reports(c.ack_buf, m) = 0
      BY <2>7, <3>2 DEF Counted
    <3>5. k = 0 /\ Reports(c.ack_buf, m) = 0
      BY <2>7, <3>4
    <3>6. k + Reports(w, m) <= 1
      BY <2>6, <2>7, <3>5
    <3> QED BY <2>2, <3>2, <3>3, <3>6 DEF Counted
  <2> QED BY <2>8, <2>9
<1>3. CASE ~TakesAcks(c, d)
  BY <1>3 DEF Receives, Counted
<1> QED BY <1>2, <1>3

\* A packet sent is counted right.
LEMMA SendCounted ==
    ASSUME NEW b \in Sent!Buffers(SentData), NEW n \in Nat, SentL!InOrder(b, n),
           NEW d \in SentData, d.id = n, NEW m \in Nat, m < n, Closed(b, m)
    PROVE  Closed(Sent!Insert(b, n % SeqSpace, d), m)
<1> DEFINE c == Sent!Insert(b, n % SeqSpace, d)
           j == n % SentSize
<1>1. c \in Sent!Buffers(SentData) /\ SentL!TookIn(b, n, n, d, c)
  BY SentInsert
<1> HIDE DEF c
<1>2. c.entries[j].data = d
  BY <1>1 DEF SentL!TookIn
<1>3. \A i \in Sent!Slots : i # j => (c.entries[i] # NoEntry => c.entries[i] = b.entries[i])
  BY <1>1, SentBridge DEF SentL!TookIn, SentL!KeptExcept
<1>4. ASSUME NEW i \in Sent!Slots, c.entries[i] # NoEntry, c.entries[i].data.id = m
      PROVE  c.entries[i].data.acked
  <2>1. i # j
    BY <1>2, <1>4
  <2> QED BY <1>3, <1>4, <2>1 DEF Closed
<1> QED BY <1>4 DEF Closed, c

\* The ids are natural numbers.
LEMMA IdsAreNat ==
    ASSUME NEW e \in Endpoints
    PROVE  IdsOf(e) \subseteq Nat
  BY DEF IdsOf

\* A step of e alone keeps the acks of its peer counted.
LEMMA ReportingOf ==
    ASSUME Inv, Reporting, NEW e \in Endpoints, NEW c1, ep' = [ep EXCEPT ![e] = c1],
           NEW r1, reported' = [reported EXCEPT ![e] = r1],
           next'[Peer(e)] = next[Peer(e)],
           ReportedOnce(r1, c1, next'[e], e)
    PROVE  Reporting'
<1> DEFINE p == Peer(e)
<1>1. p \in Endpoints /\ p # e /\ \A x \in Endpoints : x = e \/ x = p
  BY PeerFacts
<1>2. ep = [x \in Endpoints |-> ep[x]] /\ reported = [x \in Endpoints |-> reported[x]]
  BY DEF Inv, Shapes, Reporting
<1>3. next'[p] = next[p] /\ ReportedOnce(reported[p], ep[p], next[p], p)
  BY <1>1 DEF Reporting
<1> HIDE DEF p
<1>4. /\ ep'[e] = c1 /\ ep'[p] = ep[p] /\ reported'[e] = r1 /\ reported'[p] = reported[p]
      /\ reported' = [x \in Endpoints |-> reported'[x]]
  BY <1>1, <1>2
<1>5. ReportedOnce(reported'[e], ep'[e], next'[e], e)
  BY <1>4
<1>6. ReportedOnce(reported'[p], ep'[p], next'[p], p)
  BY <1>3, <1>4
<1>7. \A x \in Endpoints : ReportedOnce(reported'[x], ep'[x], next'[x], x)
  BY <1>1, <1>5, <1>6
<1> QED BY <1>4, <1>7 DEF Reporting

\* A step that leaves the ack buffer and the tracked packets of e alone.
LEMMA ReportingQuiet ==
    ASSUME Inv, Reporting, NEW e \in Endpoints, NEW c1, ep' = [ep EXCEPT ![e] = c1],
           c1.sent = ep[e].sent, c1.ack_buf = ep[e].ack_buf, UNCHANGED <<next, reported>>
    PROVE  Reporting'
<1>1. ReportedOnce(reported[e], ep[e], next[e], e)
  BY DEF Reporting
<1>2. ReportedOnce(reported[e], c1, next[e], e)
  BY <1>1 DEF ReportedOnce, Counted
<1>3. reported' = [reported EXCEPT ![e] = reported[e]]
  BY DEF Reporting
<1>4. next' = next
  OBVIOUS
<1> QED BY <1>2, <1>3, <1>4, ReportingOf

\* drain_outgoing() keeps the acks counted.
LEMMA ReportingFlush ==
    ASSUME Inv, Reporting, NEW e \in Endpoints, NEW through, Flush(e, through)
    PROVE  Reporting'
<1> DEFINE c == ep[e]
           c1 == DrainOutgoing(c)
<1>1. c1 = Endpoint(c, c.sequence, c.sent, c.received, c.reassembly, << >>,
                    c.incoming, c.ack_buf, c.counters, c.rtt)
  BY SoundEndpoint, DrainOutgoingFields
<1>2. ep' = [ep EXCEPT ![e] = c1] /\ UNCHANGED <<next, reported>>
  BY DEF Flush, history
<1> HIDE DEF c1
<1>3. c1.sent = c.sent /\ c1.ack_buf = c.ack_buf
  BY <1>1, EndpointFields
<1> QED BY <1>2, <1>3, ReportingQuiet

\* drain_incoming() keeps the acks counted.
LEMMA ReportingReadIncoming ==
    ASSUME Inv, Reporting, NEW e \in Endpoints, ReadIncoming(e)
    PROVE  Reporting'
<1> DEFINE c == ep[e]
           c1 == DrainIncoming(c)
<1>1. c1 = Endpoint(c, c.sequence, c.sent, c.received, c.reassembly, c.outgoing,
                    << >>, c.ack_buf, c.counters, c.rtt)
  BY SoundEndpoint, DrainIncomingFields
<1>2. ep' = [ep EXCEPT ![e] = c1] /\ UNCHANGED <<next, reported>>
  BY DEF ReadIncoming
<1> HIDE DEF c1
<1>3. c1.sent = c.sent /\ c1.ack_buf = c.ack_buf
  BY <1>1, EndpointFields
<1> QED BY <1>2, <1>3, ReportingQuiet

\* A refused send_packet() keeps the acks counted.
LEMMA ReportingSendTooLarge ==
    ASSUME Inv, Reporting, NEW e \in Endpoints, SendTooLarge(e)
    PROVE  Reporting'
<1> DEFINE c == ep[e]
           c1 == SendPacket(c, next[e], MaxPacketSize + 1)
           k == [c.counters EXCEPT !.packets_too_large_to_send = @ + 1]
<1>1. c1 = Endpoint(c, c.sequence, c.sent, c.received, c.reassembly, c.outgoing,
                    c.incoming, c.ack_buf, k, c.rtt)
  BY SoundEndpoint, SendTooLargeFields
<1>2. ep' = [ep EXCEPT ![e] = c1] /\ UNCHANGED <<next, reported>>
  BY DEF SendTooLarge, history
<1> HIDE DEF c1, k
<1>3. c1.sent = c.sent /\ c1.ack_buf = c.ack_buf
  BY <1>1, EndpointFields
<1> QED BY <1>2, <1>3, ReportingQuiet

\* A foreign datagram keeps the acks counted.
LEMMA ReportingForeign ==
    ASSUME Inv, Reporting, NEW e \in Endpoints, ReceiveForeign(e)
    PROVE  Reporting'
<1> DEFINE c == ep[e]
<1>1. Sound(c) /\ EndpointRecord(c) /\ c.counters \in Counters
  BY SoundEndpoint
<1>2. UNCHANGED <<next, reported>>
  BY DEF ReceiveForeign, history
<1>3. ASSUME NEW kind \in StrayKinds, ep' = [ep EXCEPT ![e] = ReceiveStray(@, kind)]
      PROVE  Reporting'
  <2> DEFINE c1 == ReceiveStray(c, kind)
  <2>1. PICK k \in Counters : c1 =
            Endpoint(c, c.sequence, c.sent, c.received, c.reassembly, c.outgoing,
                     c.incoming, c.ack_buf, k, c.rtt)
    BY <1>1, StrayFields
  <2>2. ep' = [ep EXCEPT ![e] = c1]
    BY <1>3
  <2> HIDE DEF c1
  <2>3. c1.sent = c.sent /\ c1.ack_buf = c.ack_buf
    BY <2>1, EndpointFields
  <2> QED BY <1>2, <2>2, <2>3, ReportingQuiet
<1>4. ASSUME NEW d \in ForeignFragments, ep' = [ep EXCEPT ![e] = ReceivePacket(@, d)]
      PROVE  Reporting'
  <2> DEFINE c1 == ReceivePacket(c, d)
  <2>1. c1.sent = c.sent /\ c1.ack_buf = c.ack_buf
    BY <1>1, ForeignFields
  <2>2. ep' = [ep EXCEPT ![e] = c1]
    BY <1>4
  <2> HIDE DEF c1
  <2> QED BY <1>2, <2>1, <2>2, ReportingQuiet
<1> QED BY <1>3, <1>4 DEF ReceiveForeign

\* send_packet() keeps the acks counted: the new packet has a new id.
LEMMA ReportingSend ==
    ASSUME Inv, Reporting, NEW e \in Endpoints, NEW len \in Lens, Send(e, len)
    PROVE  Reporting'
<1> DEFINE p == Peer(e)
           c == ep[e]
           n == next[e]
           d == Tracked(c, n, len)
           c1 == SendPacket(c, n, len)
           r == reported[e]
<1>1. p \in Endpoints /\ p # e
  BY PeerFacts
<1>2. /\ len <= MaxPacketSize /\ ep' = [ep EXCEPT ![e] = c1]
      /\ next' = [next EXCEPT ![e] = @ + 1] /\ reported' = reported
  BY DEF Send, history
<1>3. Sound(c) /\ Link(e, p) /\ Shapes
  BY <1>1 DEF Inv
<1>4. len \in Nat /\ n \in Nat
  BY ConnectionAssumption, <1>3 DEF Shapes
<1>5. Sends(c, n, len, c1)
  BY <1>2, <1>3, <1>4, SendFields DEF Sound
<1>6. d \in SentData /\ d.id = n
  BY <1>3, <1>4 DEF Tracked, SentData, Sound
<1>7. c.sent \in Sent!Buffers(SentData) /\ SentL!InOrder(c.sent, n)
  BY <1>3 DEF Link, Sound, Tracks
<1>8. c1.sent = Sent!Insert(c.sent, n % SeqSpace, d) /\ c1.ack_buf = c.ack_buf
  BY <1>3, <1>5 DEF Sends, Link
<1> HIDE DEF c1, d
<1>9. next'[e] = n + 1 /\ next'[p] = next[p]
  <2>1. next \in [Endpoints -> Nat]
    BY <1>3 DEF Shapes
  <2> HIDE DEF p
  <2> QED BY <1>1, <1>2, <2>1
<1>10. ReportedOnce(r, c, n, e)
  BY DEF Reporting
<1> HIDE DEF c, n, r
<1>11. ReportedOnce(r, c1, n + 1, e)
  <2>1. ASSUME NEW m \in IdsOf(e) PROVE Counted(r[m], c1, n + 1, m)
    <3>1. m \in Nat
      BY <2>1, IdsAreNat
    <3>2. Counted(r[m], c, n, m)
      BY <1>10 DEF ReportedOnce
    <3>3. m < n /\ Closed(c.sent, m) => Closed(c1.sent, m)
      BY <1>4, <1>6, <1>7, <1>8, <3>1, SendCounted
    <3>4. m < n => m < n + 1
      BY <1>4, <3>1
    <3> QED BY <1>8, <3>2, <3>3, <3>4 DEF Counted
  <2> QED BY <1>10, <2>1 DEF ReportedOnce
<1>12. reported' = [reported EXCEPT ![e] = r]
  BY <1>2 DEF Reporting, r
<1>13. next'[Peer(e)] = next[Peer(e)]
  BY <1>9 DEF p
<1>14. ReportedOnce(r, c1, next'[e], e)
  BY <1>9, <1>11
<1>15. ep' = [ep EXCEPT ![e] = c1]
  BY <1>2
<1> HIDE DEF p
<1> QED BY <1>12, <1>13, <1>14, <1>15, ReportingOf

\* receive_packet() keeps the acks counted: it announces only open packets, and
\* closes them.
LEMMA ReportingReceive ==
    ASSUME Inv, Reporting, NEW e \in Endpoints, NEW d \in net[e], Receive(e, d)
    PROVE  Reporting'
<1> DEFINE p == Peer(e)
           c == ep[e]
           n == next[e]
           c1 == ReceivePacket(c, d)
           r == reported[e]
<1>1. p \in Endpoints /\ Peer(p) = e
  BY PeerFacts
<1>2. Sound(c) /\ Link(e, p) /\ Link(p, e) /\ Shapes
  BY <1>1 DEF Inv
<1>3. ep' = [ep EXCEPT ![e] = c1] /\ UNCHANGED <<next, reported>>
  BY DEF Receive
<1>4. d \in Packets \cup Fragments /\ Genuine(d)
  <2>1. d \in InFlight(p)
    BY <1>1 DEF InFlight
  <2> QED BY <1>2, <2>1 DEF Link, Travels
<1>5. Receives(c, d, c1)
  <2>1. /\ EndpointRecord(c) /\ c.counters \in Counters
        /\ c.incoming \in Seq(Items) /\ Len(c.incoming) <= IncomingSize
    BY <1>2 DEF Sound
  <2> HIDE DEF Items
  <2> QED BY <2>1, ReceiveFields
<1>6. n \in Nat /\ SentL!InOrder(c.sent, n)
  BY <1>2 DEF Shapes, Link, Tracks
<1>7. ReportedOnce(r, c, n, e)
  BY DEF Reporting
<1> HIDE DEF c, c1, n, r
<1>8. ReportedOnce(r, c1, n, e)
  <2>1. ASSUME NEW m \in IdsOf(e) PROVE Counted(r[m], c1, n, m)
    <3>1. m \in Nat
      BY <2>1, IdsAreNat
    <3>2. Counted(r[m], c, n, m) /\ r[m] \in Nat
      BY <1>7 DEF ReportedOnce
    <3> DEFINE k == r[m]
    <3> HIDE DEF k
    <3>3. k \in Nat /\ Counted(k, c, n, m)
      BY <3>2 DEF k
    <3>4. Counted(k, c1, n, m)
      BY <1>2, <1>4, <1>5, <1>6, <3>1, <3>3, ReceiveCounted
    <3> QED BY <3>4 DEF k
  <2> QED BY <1>7, <2>1 DEF ReportedOnce
<1>9. reported' = [reported EXCEPT ![e] = r]
  BY <1>3 DEF Reporting, r
<1>10. next'[e] = n /\ next'[Peer(e)] = next[Peer(e)]
  BY <1>3 DEF n
<1> QED BY <1>3, <1>8, <1>9, <1>10, ReportingOf

\* clear_acks() keeps the acks counted: they move from the buffer to the history.
LEMMA ReportingReadAcks ==
    ASSUME Inv, Reporting, NEW e \in Endpoints, ReadAcks(e)
    PROVE  Reporting'
<1> DEFINE c == ep[e]
           n == next[e]
           c1 == ClearAcks(c)
           r == reported[e]
           r1 == [m \in DOMAIN r |-> r[m] + Reports(c.ack_buf, m)]
<1>1. c1 = Endpoint(c, c.sequence, c.sent, c.received, c.reassembly, c.outgoing,
                    c.incoming, << >>, c.counters, c.rtt)
  BY SoundEndpoint, ClearAcksFields
<1>2. /\ ep' = [ep EXCEPT ![e] = c1] /\ next' = next
      /\ reported' = [reported EXCEPT ![e] = r1]
  <2>1. reported = [x \in Endpoints |-> reported[x]]
    BY DEF Reporting
  <2> QED BY <2>1 DEF ReadAcks
<1> HIDE DEF c1
<1>3. c1.sent = c.sent /\ c1.ack_buf = << >>
  BY <1>1, EndpointFields
<1>4. ReportedOnce(r, c, n, e) /\ c.ack_buf \in Seq(AckItems)
  BY SoundEndpoint DEF Reporting, Sound
<1> HIDE DEF c, n, r
<1>5. DOMAIN r = IdsOf(e) /\ \A m \in IdsOf(e) : r[m] \in Nat
  BY <1>4 DEF ReportedOnce
<1>6. ASSUME NEW m \in IdsOf(e)
      PROVE  r1[m] \in Nat /\ Counted(r1[m], c1, n, m)
  <2>1. /\ Reports(c.ack_buf, m) \in Nat /\ Reports(<< >>, m) = 0
    BY <1>4, ReportsType
  <2>2. r1[m] = r[m] + Reports(c.ack_buf, m) /\ r[m] \in Nat
    BY <1>5
  <2>3. r1[m] \in Nat /\ r1[m] + 0 = r1[m]
    BY <2>1, <2>2
  <2>4. Counted(r[m], c, n, m)
    BY <1>4 DEF ReportedOnce
  <2> HIDE DEF r1
  <2>5. Counted(r1[m], c1, n, m)
    BY <1>3, <2>1, <2>2, <2>3, <2>4 DEF Counted
  <2> QED BY <2>3, <2>5
<1>7. ReportedOnce(r1, c1, n, e)
  <2>1. r1 \in [IdsOf(e) -> Nat]
    BY <1>5, <1>6
  <2> HIDE DEF r1
  <2> QED BY <1>6, <2>1 DEF ReportedOnce
<1> HIDE DEF r1
<1>8. next'[e] = n /\ next'[Peer(e)] = next[Peer(e)]
  BY <1>2 DEF n
<1> QED BY <1>2, <1>7, <1>8, ReportingOf

\* reset() keeps the acks counted: unread ones are dropped, and no packet is open.
LEMMA ReportingRestart ==
    ASSUME Inv, Reporting, Restart
    PROVE  Reporting'
<1>1. /\ ep' = [e \in Endpoints |-> ResetEndpoint(ep[e])]
      /\ next' = [e \in Endpoints |-> SeqSpace * ((next[e] + SeqSpace - 1) \div SeqSpace)]
      /\ reported' = reported
  BY DEF Restart, history
<1>2. ASSUME NEW e \in Endpoints
      PROVE  ReportedOnce(reported[e], ep'[e], next'[e], e)
  <2> DEFINE c == ep[e]
             c1 == ep'[e]
             n == next[e]
             n1 == next'[e]
             r == reported[e]
  <2>1. Sound(c) /\ n \in Nat /\ ReportedOnce(r, c, n, e)
    BY DEF Inv, Shapes, Reporting
  <2>2. Fresh(c1)
    BY <1>1, <2>1, ResetIsFresh
  <2>3. n1 \in Nat /\ n <= n1
    BY <1>1, <2>1, RoundUp
  <2> HIDE DEF c, c1, n, n1, r
  <2>4. \A i \in Sent!Slots : c1.sent.entries[i] = NoEntry
    BY <2>2 DEF Fresh, Sent!NewBuffer
  <2>5. ASSUME NEW m \in IdsOf(e) PROVE Counted(r[m], c1, n1, m)
    <3>1. m \in Nat
      BY <2>5, IdsAreNat
    <3>2. Closed(c1.sent, m)
      BY <2>4 DEF Closed
    <3>3. /\ Reports(c.ack_buf, m) \in Nat /\ Reports(c1.ack_buf, m) = 0
      BY <2>1, <2>2, ReportsType DEF Sound, Fresh
    <3>4. Counted(r[m], c, n, m) /\ r[m] \in Nat
      BY <2>1 DEF ReportedOnce
    <3> DEFINE x == Reports(c.ack_buf, m)
               k == r[m]
    <3> HIDE DEF x, k
    <3>5. x \in Nat /\ k \in Nat /\ k + x <= 1 /\ (k + x = 1 => m < n)
      BY <3>3, <3>4 DEF Counted, x, k
    <3>6. k + 0 <= 1 /\ (k + 0 = 1 => m < n1)
      BY <2>1, <2>3, <3>1, <3>5
    <3> QED BY <3>2, <3>3, <3>6 DEF Counted, k
  <2> QED BY <2>1, <2>5 DEF ReportedOnce, c1, n1, r
<1> QED BY <1>1, <1>2 DEF Reporting

\* No ack is reported in the initial state.
LEMMA ReportingInit ==
    ASSUME Start = 0, Init
    PROVE  Reporting
<1>1. ep = [e \in Endpoints |-> NewEndpoint]
  BY InitState
<1>2. reported = [e \in Endpoints |-> [n \in IdsOf(e) |-> 0]]
  <2>1. \A e \in Endpoints : \A n \in IdsOf(e) : n \in Nat /\ ~(n < Start)
    BY IdsAreNat
  <2> QED BY <2>1 DEF Init
<1>3. \A m : Reports(NewEndpoint.ack_buf, m) = 0
  <2>1. NewEndpoint.ack_buf = << >>
    BY NewIsFresh DEF Fresh
  <2>2. << >> \in Seq(AckItems)
    OBVIOUS
  <2>3. \A m : Reports(<< >>, m) = 0
    BY <2>2, ReportsType
  <2> QED BY <2>1, <2>3
<1>4. ASSUME NEW e \in Endpoints PROVE ReportedOnce(reported[e], ep[e], next[e], e)
  <2>1. reported[e] \in [IdsOf(e) -> Nat] /\ \A m \in IdsOf(e) : reported[e][m] = 0
    BY <1>2
  <2>2. \A m : Reports(ep[e].ack_buf, m) = 0
    BY <1>1, <1>3
  <2> QED BY <2>1, <2>2 DEF ReportedOnce, Counted
<1> QED BY <1>2, <1>4 DEF Reporting

\* Every step keeps the acks counted.
LEMMA ReportingNext ==
    ASSUME Inv, Reporting, [Next]_vars
    PROVE  Reporting'
<1>1. CASE Restart
  BY <1>1, ReportingRestart
<1>2. ASSUME NEW e \in Endpoints, NEW len \in Lens, Send(e, len) PROVE Reporting'
  BY <1>2, ReportingSend
<1>3. ASSUME NEW e \in Endpoints, SendTooLarge(e) PROVE Reporting'
  BY <1>3, ReportingSendTooLarge
<1>4. ASSUME NEW e \in Endpoints, NEW through \in SUBSET ToSet(ep[e].outgoing),
             Flush(e, through)
      PROVE  Reporting'
  BY <1>4, ReportingFlush
<1>5. ASSUME NEW e \in Endpoints, NEW d \in net[e], Receive(e, d) PROVE Reporting'
  BY <1>5, ReportingReceive
<1>6. ASSUME NEW e \in Endpoints, ReceiveForeign(e) PROVE Reporting'
  BY <1>6, ReportingForeign
<1>7. ASSUME NEW e \in Endpoints, ReadIncoming(e) PROVE Reporting'
  BY <1>7, ReportingReadIncoming
<1>8. ASSUME NEW e \in Endpoints, ReadAcks(e) PROVE Reporting'
  BY <1>8, ReportingReadAcks
<1>9. CASE UNCHANGED vars
  BY <1>9 DEF vars, history, Reporting
<1> QED BY <1>1, <1>2, <1>3, <1>4, <1>5, <1>6, <1>7, <1>8, <1>9 DEF Next

\* An ack reaches the application at most once, however often and in however many
\* headers the peer repeats it: sent entries are flagged, and never tracked again.
THEOREM AcksReportedOnce ==
    ASSUME Start = 0
    PROVE  Spec => []AckReportedOnce
<1>1. Init => Reporting
  BY ReportingInit
<1>2. Inv /\ Reporting /\ [Next]_vars => Reporting'
  BY ReportingNext
<1>3. Reporting => AckReportedOnce
  BY DEF Reporting, ReportedOnce, Counted, AckReportedOnce
<1> QED BY <1>1, <1>2, <1>3, Invariance, PTL DEF Spec

--------------------------------------------------------------------------------
(* No ack is lost to the ack buffer *)

\* The ack buffer holds whatever one header can acknowledge.
LEMMA BatchFits == AckWidth <= AckBufSize
  BY LimitAssumption, ConfigAssumption DEF Validate

\* An announcement written into an empty ack buffer is kept whole.
LEMMA BatchWritten ==
    ASSUME NEW items \in Seq(AckItems), Len(items) <= AckBufSize
    PROVE  WriteAll(<< >>, AckBufSize, items) = items
<1>1. << >> \o items = items
  <2> HIDE DEF AckItems
  <2> QED OBVIOUS
<1> QED BY <1>1 DEF WriteAll

\* The packets that c tracks as acknowledged.
AckedIn(c) ==
    {c.sent.entries[i].data :
        i \in {i \in Sent!Slots : c.sent.entries[i] # NoEntry /\ c.sent.entries[i].data.acked}}

\* If the ack buffer of c was empty, c1 reports what it acknowledged since.
Told(c, c1) ==
    c.ack_buf = << >> =>
        \A f \in AckedIn(c1) \ AckedIn(c) : Reports(c1.ack_buf, f.id) = 1

\* Packets tracked under one sequence number are one packet.
LEMMA SameSequence ==
    ASSUME NEW b \in Sent!Buffers(SentData), NEW n \in Nat, SentL!InOrder(b, n),
           NEW i \in Sent!Slots, b.entries[i] # NoEntry,
           NEW j \in Sent!Slots, b.entries[j] # NoEntry,
           b.entries[i].sequence = b.entries[j].sequence
    PROVE  b.entries[i].data.id = b.entries[j].data.id
<1> DEFINE x == b.entries[i].data.id
           y == b.entries[j].data.id
<1>1. /\ x \in Int /\ n - SentSize <= x /\ x < n /\ y \in Int /\ n - SentSize <= y /\ y < n
      /\ x % SeqSpace = y % SeqSpace
  BY SentSlot
<1>2. SeqSpace \in Nat \ {0} /\ SentSize < SeqSpace /\ SentSize \in Nat
  BY Sizes, WindowAssumption
<1> HIDE DEF x, y
<1>3. CASE y <= x
  <2>1. x - y < SeqSpace
    BY <1>1, <1>2
  <2> QED BY <1>1, <1>2, <1>3, <2>1, ModInjective DEF x, y
<1>4. CASE x <= y
  <2>1. y - x < SeqSpace
    BY <1>1, <1>2
  <2> QED BY <1>1, <1>2, <1>4, <2>1, ModInjective DEF x, y
<1> QED BY <1>1, <1>3, <1>4

\* A packet that header a newly acknowledges is announced.
LEMMA FlaggedAnnounced ==
    ASSUME NEW c, c.sent \in Sent!Buffers(SentData), NEW a \in Headers, NEW n \in Nat,
           SentL!InOrder(c.sent, n), NEW q, Announces(c, a, q), NEW c1,
           c1.sent = FlagAcked(c.sent, a, NewlyAcked(c, a)),
           NEW f \in AckedIn(c1) \ AckedIn(c)
    PROVE  \E j \in 1 .. Len(q) : q[j].id = f.id
<1> DEFINE b == c.sent
           S == NewlyAcked(c, a)
<1>1. PICK i \in Sent!Slots :
          /\ c1.sent.entries[i] # NoEntry /\ c1.sent.entries[i].data.acked
          /\ f = c1.sent.entries[i].data
  BY DEF AckedIn
<1>2. FlaggedAs(b.entries[i], c1.sent.entries[i], Hit(a, S, b.entries[i].sequence))
  BY FlagAckedFacts
<1>3. b.entries[i] # NoEntry /\ f.id = b.entries[i].data.id
  BY <1>1, <1>2 DEF FlaggedAs
<1>4. Hit(a, S, b.entries[i].sequence)
  <2> SUFFICES ASSUME ~Hit(a, S, b.entries[i].sequence) PROVE FALSE
    OBVIOUS
  <2>1. c1.sent.entries[i] = b.entries[i]
    <3>1. b.entries[i].sequence \notin {AckSequence(a, k) : k \in S}
      BY DEF Hit
    <3>2. b = [sequence |-> b.sequence, entries |-> b.entries]
      BY DEF Sent!Buffers
    <3> HIDE DEF S
    <3>3. FlagAcked(b, a, S).entries = [x \in Sent!Slots |->
              IF b.entries[x] # NoEntry /\ b.entries[x].sequence \in {AckSequence(a, k) : k \in S}
              THEN [b.entries[x] EXCEPT !.data.acked = TRUE] ELSE b.entries[x]]
      BY <3>2 DEF FlagAcked
    <3>4. c1.sent = FlagAcked(b, a, S)
      BY DEF S
    <3> QED BY <3>1, <3>3, <3>4
  <2> QED BY <1>1, <2>1 DEF AckedIn
<1>5. PICK k \in S : b.entries[i].sequence = AckSequence(a, k)
  BY <1>4 DEF Hit
<1> DEFINE s == AckSequence(a, k)
           j == Sent!Index(s)
<1>6. j \in Sent!Slots /\ Sent!Exists(b, s)
  BY NewlyAckedBits
<1>7. b.entries[j] # NoEntry /\ b.entries[j].sequence = s /\ Sent!Find(b, s) = b.entries[j].data
  BY <1>6 DEF Sent!Exists, Sent!Find
<1>8. AckFor(c, a, k).id = b.entries[j].data.id
  BY <1>7 DEF AckFor
<1> HIDE DEF j, s
<1>9. b.entries[i].data.id = b.entries[j].data.id
  BY <1>3, <1>5, <1>6, <1>7, SameSequence DEF s
<1>10. PICK l \in 1 .. Len(q) : q[l] = AckFor(c, a, k)
  BY DEF Announces
<1> QED BY <1>3, <1>8, <1>9, <1>10

\* What a datagram acknowledges is reported, if the ack buffer was empty.
LEMMA ReceiveTold ==
    ASSUME NEW c, Sound(c), NEW d \in Packets \cup Fragments, Genuine(d), NEW c1,
           Receives(c, d, c1), NEW n \in Nat, SentL!InOrder(c.sent, n)
    PROVE  Told(c, c1)
<1>1. CASE ~TakesAcks(c, d)
  BY <1>1 DEF Receives, Told, AckedIn
<1>2. CASE TakesAcks(c, d)
  <2> SUFFICES ASSUME c.ack_buf = << >>, NEW f \in AckedIn(c1) \ AckedIn(c)
               PROVE  Reports(c1.ack_buf, f.id) = 1
    BY DEF Told
  <2> DEFINE a == d.header
             q == NewAcks(c, a)
  <2>1. a \in Headers
    BY <1>2, TakesHeader
  <2>2. /\ c1.sent = FlagAcked(c.sent, a, NewlyAcked(c, a))
        /\ c1.ack_buf = WriteAll(<< >>, AckBufSize, q)
    BY <1>2 DEF Receives, AckBufRoom
  <2>3. c.sent \in Sent!Buffers(SentData)
    BY DEF Sound
  <2>4. Announces(c, a, q)
    BY <2>1, <2>3, NewAcksFacts
  <2> HIDE DEF a, q
  <2>5. q \in Seq(AckItems) /\ Len(q) <= AckWidth /\ Len(q) \in Nat
    BY <2>4 DEF Announces
  <2>6. Len(q) <= AckBufSize
    BY <2>5, BatchFits, LimitAssumption
  <2>7. c1.ack_buf = q
    BY <2>2, <2>5, <2>6, BatchWritten
  <2> DEFINE X == {i \in DOMAIN q : q[i].id = f.id}
  <2>8. \A i, j \in 1 .. Len(q) : q[i].id = f.id /\ q[j].id = f.id => i = j
    BY <2>1, <2>3, <2>4, AnnouncedOnce
  <2>9. \E j \in 1 .. Len(q) : q[j].id = f.id
    BY <2>1, <2>2, <2>3, <2>4, FlaggedAnnounced
  <2>10. X # {} /\ \A i, j \in X : i = j
    <3>1. DOMAIN q = 1 .. Len(q)
      BY <2>5
    <3> QED BY <2>8, <2>9, <3>1
  <2>11. Reports(q, f.id) = Cardinality(X)
    BY DEF Reports
  <2> HIDE DEF X
  <2> QED BY <2>7, <2>10, <2>11, AtMostOne
<1> QED BY <1>1, <1>2

\* Sending acknowledges nothing.
LEMMA SendTold ==
    ASSUME NEW c, c.sent \in Sent!Buffers(SentData), NEW n \in Nat, SentL!InOrder(c.sent, n),
           NEW d \in SentData, d.id = n, ~d.acked, NEW c1,
           c1.sent = Sent!Insert(c.sent, n % SeqSpace, d)
    PROVE  Told(c, c1)
<1> DEFINE b == c1.sent
           j == n % SentSize
<1>1. SentL!TookIn(c.sent, n, n, d, b)
  BY SentInsert
<1> HIDE DEF b
<1>2. b.entries[j].data = d
  BY <1>1 DEF SentL!TookIn
<1>3. \A i \in Sent!Slots : i # j =>
          (b.entries[i] # NoEntry => b.entries[i] = c.sent.entries[i])
  BY <1>1, SentBridge DEF SentL!TookIn, SentL!KeptExcept
<1>4. \A i \in Sent!Slots : b.entries[i] # NoEntry /\ b.entries[i].data.acked =>
          b.entries[i] = c.sent.entries[i]
  BY <1>2, <1>3
<1>5. AckedIn(c1) \subseteq AckedIn(c)
  BY <1>4 DEF AckedIn, b
<1> QED BY <1>5 DEF Told

\* A step that leaves the tracked packets alone acknowledges none.
LEMMA QuietTold ==
    ASSUME NEW c, NEW c1, c1.sent = c.sent
    PROVE  Told(c, c1)
  BY DEF Told, AckedIn

\* A step of e alone.
LEMMA ToldOf ==
    ASSUME Inv, NEW e \in Endpoints, NEW c1, ep' = [ep EXCEPT ![e] = c1], Told(ep[e], c1),
           NEW x \in Endpoints
    PROVE  Told(ep[x], ep'[x])
<1>1. CASE x = e
  BY <1>1 DEF Inv, Shapes
<1>2. CASE x # e
  <2>1. ep'[x] = ep[x]
    BY <1>2 DEF Inv, Shapes
  <2> QED BY <2>1, QuietTold
<1> QED BY <1>1, <1>2

\* No step acknowledges a packet behind an application that has read its acks.
LEMMA ToldNext ==
    ASSUME Inv, [Next]_vars, NEW x \in Endpoints
    PROVE  Told(ep[x], ep'[x])
<1>1. CASE Restart
  <2>1. Sound(ep[x]) /\ ep'[x] = ResetEndpoint(ep[x])
    BY <1>1 DEF Restart, Inv
  <2>2. ep'[x].sent = Sent!NewBuffer
    BY <2>1, ResetIsFresh DEF Fresh
  <2>3. AckedIn(ep'[x]) = {}
    BY <2>2 DEF AckedIn, Sent!NewBuffer
  <2> QED BY <2>3 DEF Told
<1>2. ASSUME NEW e \in Endpoints, NEW len \in Lens, Send(e, len)
      PROVE  Told(ep[x], ep'[x])
  <2> DEFINE c == ep[e]
             n == next[e]
             d == Tracked(c, n, len)
             c1 == SendPacket(c, n, len)
  <2>1. len <= MaxPacketSize /\ ep' = [ep EXCEPT ![e] = c1]
    BY <1>2 DEF Send
  <2>2. Sound(c) /\ Link(e, Peer(e)) /\ n \in Nat /\ len \in Nat
    BY ConnectionAssumption DEF Inv, Shapes
  <2>3. Sends(c, n, len, c1)
    BY <2>1, <2>2, SendFields DEF Sound
  <2>4. d \in SentData /\ d.id = n /\ ~d.acked
    BY <2>2 DEF Tracked, SentData, Sound
  <2>5. c.sent \in Sent!Buffers(SentData) /\ SentL!InOrder(c.sent, n)
    BY <2>2 DEF Link, Sound, Tracks
  <2>6. c1.sent = Sent!Insert(c.sent, n % SeqSpace, d)
    BY <2>2, <2>3 DEF Sends, Link
  <2> HIDE DEF c, c1, d, n
  <2>7. Told(c, c1)
    BY <2>2, <2>4, <2>5, <2>6, SendTold
  <2> QED BY <2>1, <2>7, ToldOf DEF c
<1>3. ASSUME NEW e \in Endpoints, NEW d \in net[e], Receive(e, d)
      PROVE  Told(ep[x], ep'[x])
  <2> DEFINE p == Peer(e)
             c == ep[e]
             n == next[e]
             c1 == ReceivePacket(c, d)
  <2>1. p \in Endpoints /\ Peer(p) = e
    BY PeerFacts
  <2>2. Sound(c) /\ Link(e, p) /\ Link(p, e) /\ n \in Nat
    BY <2>1 DEF Inv, Shapes
  <2>3. ep' = [ep EXCEPT ![e] = c1]
    BY <1>3 DEF Receive
  <2>4. d \in Packets \cup Fragments /\ Genuine(d)
    <3>1. d \in InFlight(p)
      BY <1>3, <2>1 DEF InFlight
    <3> QED BY <2>2, <3>1 DEF Link, Travels
  <2>5. Receives(c, d, c1)
    <3>1. /\ EndpointRecord(c) /\ c.counters \in Counters
          /\ c.incoming \in Seq(Items) /\ Len(c.incoming) <= IncomingSize
      BY <2>2 DEF Sound
    <3> HIDE DEF Items
    <3> QED BY <3>1, ReceiveFields
  <2>6. SentL!InOrder(c.sent, n)
    BY <2>2 DEF Link, Tracks
  <2> HIDE DEF c, c1, n
  <2>7. Told(c, c1)
    BY <2>2, <2>4, <2>5, <2>6, ReceiveTold
  <2> QED BY <2>3, <2>7, ToldOf DEF c
<1>4. ASSUME NEW e \in Endpoints, NEW c1, ep' = [ep EXCEPT ![e] = c1], c1.sent = ep[e].sent
      PROVE  Told(ep[x], ep'[x])
  BY <1>4, QuietTold, ToldOf
<1>5. ASSUME NEW e \in Endpoints, SendTooLarge(e) PROVE Told(ep[x], ep'[x])
  <2> DEFINE c == ep[e]
             c1 == SendPacket(c, next[e], MaxPacketSize + 1)
             k == [c.counters EXCEPT !.packets_too_large_to_send = @ + 1]
  <2>1. c1 = Endpoint(c, c.sequence, c.sent, c.received, c.reassembly, c.outgoing,
                      c.incoming, c.ack_buf, k, c.rtt)
    BY SoundEndpoint, SendTooLargeFields
  <2>2. ep' = [ep EXCEPT ![e] = c1]
    BY <1>5 DEF SendTooLarge
  <2> HIDE DEF c1, k
  <2>3. c1.sent = c.sent
    BY <2>1, EndpointFields
  <2> QED BY <1>4, <2>2, <2>3
<1>6. ASSUME NEW e \in Endpoints, NEW through, Flush(e, through) PROVE Told(ep[x], ep'[x])
  <2> DEFINE c1 == DrainOutgoing(ep[e])
  <2>1. c1.sent = ep[e].sent
    BY SoundEndpoint, DrainOutgoingFields, EndpointFields
  <2>2. ep' = [ep EXCEPT ![e] = c1]
    BY <1>6 DEF Flush
  <2> HIDE DEF c1
  <2> QED BY <1>4, <2>1, <2>2
<1>7. ASSUME NEW e \in Endpoints, ReadIncoming(e) PROVE Told(ep[x], ep'[x])
  <2> DEFINE c1 == DrainIncoming(ep[e])
  <2>1. c1.sent = ep[e].sent
    BY SoundEndpoint, DrainIncomingFields, EndpointFields
  <2>2. ep' = [ep EXCEPT ![e] = c1]
    BY <1>7 DEF ReadIncoming
  <2> HIDE DEF c1
  <2> QED BY <1>4, <2>1, <2>2
<1>8. ASSUME NEW e \in Endpoints, ReadAcks(e) PROVE Told(ep[x], ep'[x])
  <2> DEFINE c1 == ClearAcks(ep[e])
  <2>1. c1.sent = ep[e].sent
    BY SoundEndpoint, ClearAcksFields, EndpointFields
  <2>2. ep' = [ep EXCEPT ![e] = c1]
    BY <1>8 DEF ReadAcks
  <2> HIDE DEF c1
  <2> QED BY <1>4, <2>1, <2>2
<1>9. ASSUME NEW e \in Endpoints, ReceiveForeign(e) PROVE Told(ep[x], ep'[x])
  <2>1. ASSUME NEW kind \in StrayKinds, ep' = [ep EXCEPT ![e] = ReceiveStray(@, kind)]
        PROVE  Told(ep[x], ep'[x])
    <3> DEFINE c1 == ReceiveStray(ep[e], kind)
    <3> DEFINE c == ep[e]
    <3>1. PICK k \in Counters : c1 =
              Endpoint(c, c.sequence, c.sent, c.received, c.reassembly, c.outgoing,
                       c.incoming, c.ack_buf, k, c.rtt)
      BY SoundEndpoint, StrayFields
    <3>2. ep' = [ep EXCEPT ![e] = c1]
      BY <2>1
    <3> HIDE DEF c1
    <3>3. c1.sent = c.sent
      BY <3>1, EndpointFields
    <3> QED BY <1>4, <3>2, <3>3
  <2>2. ASSUME NEW d \in ForeignFragments, ep' = [ep EXCEPT ![e] = ReceivePacket(@, d)]
        PROVE  Told(ep[x], ep'[x])
    <3> DEFINE c1 == ReceivePacket(ep[e], d)
    <3>1. c1.sent = ep[e].sent
      BY SoundEndpoint, ForeignFields
    <3>2. ep' = [ep EXCEPT ![e] = c1]
      BY <2>2
    <3> HIDE DEF c1
    <3> QED BY <1>4, <3>1, <3>2
  <2> QED BY <1>9, <2>1, <2>2 DEF ReceiveForeign
<1>10. CASE UNCHANGED vars
  <2>1. ep'[x] = ep[x]
    BY <1>10 DEF vars
  <2> QED BY <2>1, QuietTold
<1> QED BY <1>1, <1>2, <1>3, <1>5, <1>6, <1>7, <1>8, <1>9, <1>10 DEF Next

\* An application that has read its acks before a datagram comes in misses none: the
\* ack buffer that validate() asks for has room for whatever one header acknowledges.
THEOREM AckBatchesFit ==
    ASSUME Start = 0
    PROVE  Spec => AckBatchFits
<1> DEFINE NoneMissed == \A e \in Endpoints : ep[e].ack_buf = << >> =>
               \A f \in Acked(e)' \ Acked(e) : Reports(ep[e].ack_buf', f.id) = 1
<1>1. Inv /\ [Next]_vars => NoneMissed
  <2> SUFFICES ASSUME Inv, [Next]_vars, NEW e \in Endpoints, ep[e].ack_buf = << >>,
                      NEW f \in Acked(e)' \ Acked(e)
               PROVE  Reports(ep[e].ack_buf', f.id) = 1
    OBVIOUS
  <2>1. Told(ep[e], ep'[e])
    BY ToldNext
  <2>2. Acked(e) = AckedIn(ep[e]) /\ Acked(e)' = AckedIn(ep'[e])
    BY DEF Acked, AckedIn
  <2> QED BY <2>1, <2>2 DEF Told
<1>2. Inv /\ [Next]_vars => [NoneMissed]_vars
  BY <1>1
<1> HIDE DEF NoneMissed
<1>3. Spec => [][NoneMissed]_vars
  BY <1>2, Invariance, PTL DEF Spec
<1> QED BY <1>3 DEF AckBatchFits, NoneMissed

--------------------------------------------------------------------------------
(* What is recorded was delivered, and once *)

\* How often packet m was handed over, with D of the times and queue q the rest.
Times(D, q, m) == D[m] + Deliveries(q, m)

\* Buffer w still records the packets of X that its window, the head at t, covers.
Complete(w, low, t, X) ==
    \A m \in X : low <= m /\ t - ReceivedSize <= m => m \in IdsIn(w)

\* The ids and lengths that the tracked packets b, the delivered items q and the
\* datagrams F in flight give.
Lengths(b, q, F) ==
    {<<d.id, LenOf(d)>> : d \in F}
    \cup {<<b.entries[i].data.id, b.entries[i].data.len>> :
              i \in {i \in Sent!Slots : b.entries[i] # NoEntry}}
    \cup {<<q[i].payload[1].id, q[i].payload[1].len>> : i \in DOMAIN q}

\* They are of packets below n, and a packet has one length wherever it is.
OneLength(L, n) ==
    /\ L \subseteq (0 .. (n - 1)) \X Nat
    /\ \A x, y \in L : x[1] = y[1] => x[2] = y[2]

\* Only recorded packets are delivered, and a regular one in the queue is there for
\* the first time.
Delivered(q, D, X, ids) ==
    /\ D \in [ids -> Nat]
    /\ \A m \in ids : Times(D, q, m) >= 1 => m \in X
    /\ \A i \in DOMAIN q : Regular(q[i].payload[1].len) =>
           Times(D, q, q[i].payload[1].id) <= 1

\* A tracked packet that was recorded was delivered, unless it is empty, or regular
\* and came when the queue was full.
Accounted(b, q, D, X, O) ==
    \A i \in Sent!Slots : b.entries[i] # NoEntry =>
        LET f == b.entries[i].data
        IN  f.id \in X =>
                \/ f.len = 0
                \/ Times(D, q, f.id) >= 1
                \/ Regular(f.len) /\ f.id \in O

\* One direction: packets below n, tracked in b, in flight in F, queued in q, drained
\* as D counts, recorded in X, of which those in O found the queue full.
Flow(b, q, F, D, X, O, n, ids) ==
    /\ OneLength(Lengths(b, q, F), n)
    /\ Delivered(q, D, X, ids)
    /\ Accounted(b, q, D, X, O)

\* The greatest id of IdsOf(e).
LastId(e) == 2 * SeqSpace * MaxMishaps + Start + MaxSends[e]

\* The sends and the resets still allowed keep the ids within IdsOf.
Budgeted ==
    /\ budget.sends \in [Endpoints -> Nat]
    /\ budget.mishaps \in Nat
    /\ budget = [sends |-> budget.sends, dups |-> budget.dups, mishaps |-> budget.mishaps]
    /\ \A e \in Endpoints :
           next[e] + budget.sends[e] + SeqSpace * budget.mishaps <= LastId(e)

\* The direction from e to its peer p.
Conveys(e, p) ==
    /\ Complete(ep[p].received, base[e], Newest(p), accepted[p])
    /\ Flow(ep[e].sent, ep[p].incoming, InFlight(e), drained[p], accepted[p],
            overflowed[p], next[e], IdsOf(e))

\* What Inv is strengthened by: it relates what is recorded to what is delivered.
Delivering ==
    /\ Budgeted
    /\ drained = [e \in Endpoints |-> drained[e]]
    /\ overflowed = [e \in Endpoints |-> overflowed[e]]
    /\ \A e \in Endpoints : Conveys(e, Peer(e))

\* How often a packet is in a queue.
LEMMA DeliveriesType ==
    ASSUME NEW T, NEW q \in Seq(T), NEW m
    PROVE  /\ Deliveries(q, m) \in Nat
           /\ \A i \in DOMAIN q : q[i].payload[1].id = m => Deliveries(q, m) >= 1
           /\ Deliveries(<< >>, m) = 0
<1> DEFINE X == {i \in DOMAIN q : q[i].payload[1].id = m}
<1>1. DOMAIN q = 1 .. Len(q) /\ Len(q) \in Nat
  OBVIOUS
<1>2. IsFiniteSet(X)
  <2>1. IsFiniteSet(1 .. Len(q)) /\ X \in SUBSET (1 .. Len(q))
    BY <1>1, FS_Interval
  <2> HIDE DEF X
  <2> QED BY <2>1, FS_Subset
<1>3. Deliveries(q, m) = Cardinality(X)
  BY DEF Deliveries
<1>4. \A i \in DOMAIN q : q[i].payload[1].id = m => X # {}
  OBVIOUS
<1>5. Deliveries(<< >>, m) = 0
  <2>1. {i \in DOMAIN << >> : << >>[i].payload[1].id = m} = {}
    OBVIOUS
  <2>2. Cardinality({}) = 0
    BY FS_EmptySet
  <2>3. Deliveries(<< >>, m) = Cardinality({i \in DOMAIN << >> : << >>[i].payload[1].id = m})
    BY DEF Deliveries
  <2> QED BY ONLY <2>1, <2>2, <2>3, Zenon
<1> HIDE DEF X
<1>6. Cardinality(X) \in Nat /\ (Cardinality(X) = 0 <=> X = {})
  BY <1>2, FS_CardinalityType, FS_EmptySet
<1> QED BY <1>3, <1>4, <1>5, <1>6

\* One more item in a queue.
LEMMA DeliveriesAppend ==
    ASSUME NEW T, NEW q \in Seq(T), NEW x \in T, NEW m
    PROVE  Deliveries(Append(q, x), m) =
               Deliveries(q, m) + (IF x.payload[1].id = m THEN 1 ELSE 0)
<1> DEFINE w == Append(q, x)
           k == Len(q) + 1
           X == {i \in DOMAIN q : q[i].payload[1].id = m}
           Y == {i \in DOMAIN w : w[i].payload[1].id = m}
<1>1. /\ DOMAIN q = 1 .. Len(q) /\ Len(q) \in Nat /\ DOMAIN w = 1 .. k /\ w[k] = x
      /\ \A i \in 1 .. Len(q) : w[i] = q[i]
  OBVIOUS
<1>2. IsFiniteSet(X) /\ k \notin X
  <2>1. IsFiniteSet(1 .. Len(q)) /\ X \in SUBSET (1 .. Len(q))
    BY <1>1, FS_Interval
  <2>2. k \notin 1 .. Len(q)
    BY <1>1
  <2> HIDE DEF X, k
  <2> QED BY <2>1, <2>2, FS_Subset
<1>3. Deliveries(q, m) = Cardinality(X) /\ Deliveries(w, m) = Cardinality(Y)
  BY DEF Deliveries
<1> HIDE DEF w
<1>4. CASE x.payload[1].id = m
  <2>1. Y = X \cup {k}
    BY <1>1, <1>4
  <2> HIDE DEF X, Y
  <2>2. Cardinality(X \cup {k}) = Cardinality(X) + 1
    BY <1>2, FS_AddElement
  <2> QED BY <1>3, <1>4, <2>1, <2>2 DEF w
<1>5. CASE x.payload[1].id # m
  <2>1. Y = X
    BY <1>1, <1>5
  <2>2. Cardinality(X) \in Nat
    BY <1>2, FS_CardinalityType
  <2> HIDE DEF X, Y
  <2> QED BY <1>3, <1>5, <2>1, <2>2 DEF w
<1> QED BY <1>4, <1>5

\* A recorded packet is in the slot of its id.
LEMMA RecordedSlot ==
    ASSUME NEW b \in Received!Buffers(ReceivedData), NEW t \in Int, ReceivedL!InOrder(b, t),
           NEW m \in IdsIn(b)
    PROVE  /\ m \in Int
           /\ m % ReceivedSize \in Received!Slots
           /\ b.entries[m % ReceivedSize] # NoEntry
           /\ b.entries[m % ReceivedSize].data.id = m
<1>1. PICK i \in Received!Slots : b.entries[i] # NoEntry /\ b.entries[i].data.id = m
  BY IdsInSlots
<1>2. i \in ReceivedL!Slots
  BY <1>1, ReceivedBridge
<1>3. m \in (t - ReceivedSize) .. (t - 1) /\ m % ReceivedSize = i
  BY <1>1, <1>2 DEF ReceivedL!InOrder, ReceivedL!Numbered
<1> QED BY <1>1, <1>3

\* There is one number above the ids recorded.
LEMMA TopUnique ==
    ASSUME NEW low \in Nat, NEW A, A \subseteq Nat, NEW t, Top(low, A, t), NEW u,
           Top(low, A, u)
    PROVE  t = u
  BY NewestIs

\* receive_regular_packet() refuses a packet it recorded before: within the window it
\* finds it, below the window it takes it for stale.
LEMMA RefusedAgain ==
    ASSUME NEW c, Sound(c), NEW d \in Packets, NEW low \in Nat, NEW n \in Nat, NEW t, NEW V,
           Travels(d, low, n, t, V), NEW A, Top(low, A, t), t <= n,
           ReceivedL!InOrder(c.received, t), Complete(c.received, low, t, A), Records(c, d)
    PROVE  d.id \notin A
<1> DEFINE b == c.received
           m == d.id
<1>1. /\ m \in Nat /\ low <= m /\ n - m < Half + ReceivedSize /\ d.sequence = m % SeqSpace
      /\ t \in Nat
  BY DEF Travels, Packets, Genuine, Top
<1>2. Received!CanInsert(b, m % SeqSpace) /\ ~Received!Exists(b, m % SeqSpace)
  BY <1>1, Kinds DEF Records, Stale, Duplicate
<1>3. b \in Received!Buffers(ReceivedData) /\ ReceivedL!InOrder(b, t)
  BY DEF Sound
<1> SUFFICES ASSUME m \in A PROVE FALSE
  OBVIOUS
<1>4. m < t
  BY DEF Top
<1> HIDE DEF m, b
<1>5. CASE t - ReceivedSize <= m
  <2>1. m \in IdsIn(b)
    BY <1>1, <1>5 DEF Complete, b, m
  <2>2. b.entries[m % ReceivedSize] # NoEntry /\ b.entries[m % ReceivedSize].data.id = m
    BY <1>1, <1>3, <2>1, RecordedSlot
  <2>3. t - SeqSpace <= m /\ m < t - ReceivedSize + SeqSpace /\ m \in Int /\ t \in Int
    BY <1>1, <1>4, <1>5, Sizes
  <2>4. ReceivedL!Exists(b, m % SeqSpace)
    BY ONLY <1>3, <2>2, <2>3, ReceivedL!ExistsInOrder, Sizes, SeqSpaceAssumption, Zenon
  <2> QED BY <1>2, <2>4, ReceivedBridge
<1>6. CASE m < t - ReceivedSize
  <2>1. /\ t - ReceivedSize - ReceivedL!Half < m /\ m < t - ReceivedSize + ReceivedL!Half
        /\ m \in Int /\ t \in Int
    <3>1. t - ReceivedSize - Half < m /\ m < t - ReceivedSize + Half
      BY <1>1, <1>6, Sizes
    <3> QED BY <1>1, <3>1, ReceivedBridge
  <2>2. b.sequence = t % SeqSpace
    BY <1>3 DEF ReceivedL!InOrder, ReceivedL!Numbered
  <2>3. ReceivedL!CanInsert(b, m % SeqSpace) <=> m >= t - ReceivedSize
    BY ONLY <2>1, <2>2, ReceivedL!CanInsertExact, Sizes, SeqSpaceAssumption, Zenon
  <2>4. ReceivedL!CanInsert(b, m % SeqSpace)
    BY <1>2, ReceivedBridge
  <2> QED BY <1>1, <1>6, <2>3, <2>4, Sizes
<1> QED BY <1>1, <1>5, <1>6, Sizes

\* Recording a packet keeps the window complete.
LEMMA CompleteRecord ==
    ASSUME NEW b \in Received!Buffers(ReceivedData), NEW low \in Nat, NEW n \in Nat,
           NEW A, A \subseteq Nat, NEW t, Top(low, A, t), t <= n,
           ReceivedL!InOrder(b, t), Complete(b, low, t, A),
           NEW d \in ReceivedData, low <= d.id, n - d.id < Half + ReceivedSize,
           d.id - t < Half - ReceivedSize
    PROVE  Complete(Received!Insert(b, d.id % SeqSpace, d), low,
                    ReceivedL!HeadAfter(t, d.id), A \cup {d.id})
<1> DEFINE x == d.id
           c == Received!Insert(b, x % SeqSpace, d)
           u == ReceivedL!HeadAfter(t, x)
<1>1. x \in Nat /\ t \in Nat /\ \A m \in A : m < t
  BY DEF ReceivedData, Top
<1>2. CASE t - ReceivedSize <= x
  <2>1. x < t - ReceivedSize + Half /\ x \in Int /\ t \in Int /\ d.id = x
    BY <1>1, Sizes
  <2>2. c \in Received!Buffers(ReceivedData) /\ ReceivedL!TookIn(b, t, x, d, c)
    <3> HIDE DEF x
    <3> QED BY <1>2, <2>1, ReceivedInsert
  <2> HIDE DEF c
  <2>3. /\ x % ReceivedSize \in Received!Slots
        /\ c.entries[x % ReceivedSize] = [sequence |-> x % SeqSpace, data |-> d]
        /\ c.entries[x % ReceivedSize].data.id = x
    BY <2>2, ReceivedBridge DEF ReceivedL!TookIn
  <2>4. c.entries[x % ReceivedSize] # NoEntry
    <3>1. x % SeqSpace \in SeqNums
      <4>1. x \in Int /\ SeqSpace \in Nat \ {0}
        BY <1>1, Sizes
      <4> HIDE DEF x
      <4>2. x % SeqSpace \in 0 .. (SeqSpace - 1)
        BY <4>1, DivMod
      <4> QED BY <4>2 DEF SeqNums
    <3> QED BY <2>3, <3>1, EntryAssumption
  <2>5. \A i \in Received!Slots : i # x % ReceivedSize =>
            (b.entries[i] # NoEntry /\ b.entries[i].data.id >= u - ReceivedSize =>
                 c.entries[i] = b.entries[i])
    BY <2>2, ReceivedBridge DEF ReceivedL!TookIn, ReceivedL!KeptExcept
  <2>6. u \in Nat /\ t <= u /\ x < u
    BY <1>1 DEF ReceivedL!HeadAfter
  <2>7. ASSUME NEW m \in A \cup {x}, low <= m, u - ReceivedSize <= m PROVE m \in IdsIn(c)
    <3>1. CASE m = x
      BY <2>2, <2>3, <2>4, <3>1, IdsInSlots
    <3>2. CASE m # x
      <4> HIDE DEF u, x
      <4>1. m \in A /\ m \in Nat /\ m < t
        BY <1>1, <2>7, <3>2
      <4>2. t - ReceivedSize <= m
        BY <1>1, <2>6, <2>7, <4>1, Sizes
      <4>3. m \in IdsIn(b)
        BY <2>7, <4>1, <4>2 DEF Complete
      <4> DEFINE i == m % ReceivedSize
      <4>4. /\ i \in Received!Slots /\ b.entries[i] # NoEntry /\ b.entries[i].data.id = m
        BY <1>1, <4>3, RecordedSlot
      <4>5. i # x % ReceivedSize
        <5>1. SUFFICES ASSUME m % ReceivedSize = x % ReceivedSize PROVE FALSE
          OBVIOUS
        <5>2. ReceivedSize \in Nat \ {0} /\ m \in Int /\ x \in Int
          BY <1>1, <4>1, Sizes
        <5>3. CASE m <= x
          <6>1. x - m < ReceivedSize
            BY <1>1, <2>6, <2>7, <4>1, <5>2
          <6> QED BY <3>2, <5>1, <5>2, <5>3, <6>1, ModInjective
        <5>4. CASE x <= m
          <6>1. m - x < ReceivedSize
            BY <1>1, <1>2, <4>1, <5>2
          <6> QED BY <3>2, <5>1, <5>2, <5>4, <6>1, ModInjective
        <5> QED BY <5>2, <5>3, <5>4
      <4> HIDE DEF i
      <4>6. c.entries[i] = b.entries[i]
        BY <2>5, <2>6, <2>7, <4>1, <4>4, <4>5, Sizes
      <4> QED BY <2>2, <4>4, <4>6, IdsInSlots
    <3> QED BY <3>1, <3>2
  <2> QED BY <2>7 DEF Complete, c
<1>3. CASE x < t - ReceivedSize
  <2>1. t - ReceivedSize - Half < x /\ x \in Int /\ t \in Int
    BY <1>1, Sizes
  <2>2. c = b
    <3> HIDE DEF x
    <3> QED BY <1>3, <2>1, ReceivedBelow
  <2>3. u = t
    BY <1>1, <1>3, Sizes DEF ReceivedL!HeadAfter
  <2>4. Complete(b, low, t, A \cup {x})
    BY <1>1, <1>3, Sizes DEF Complete
  <2> QED BY <2>2, <2>3, <2>4
<1> QED BY <1>1, <1>2, <1>3, Sizes

\* The window stays complete when a datagram comes in.
LEMMA ReceiveComplete ==
    ASSUME NEW c, Sound(c), NEW d, NEW c1, Receives(c, d, c1),
           NEW low \in Nat, NEW n \in Nat, NEW t, NEW A, A \subseteq Nat, NEW V,
           Travels(d, low, n, t, V), Top(low, A, t), t <= n,
           ReceivedL!InOrder(c.received, t), Complete(c.received, low, t, A), NEW B,
           Admitted(c, d, A, B), NEW u, Top(low, B, u)
    PROVE  Complete(c1.received, low, u, B)
<1>1. d \in Packets \cup Fragments /\ Genuine(d) /\ d.id \in Nat
  BY DEF Travels, Packets, Fragments
<1>2. CASE Records(c, d)
  <2> DEFINE x == Noted(c, d)
             b == c.received
  <2>1. x \in ReceivedData /\ x.id = d.id
    BY <1>1, <1>2, NotedType
  <2>2. c1.received = Received!Insert(b, x.id % SeqSpace, x)
    BY <1>1, <1>2, <2>1 DEF Receives, Genuine
  <2>3. /\ low <= x.id /\ n - x.id < Half + ReceivedSize /\ x.id - t < Half - ReceivedSize
        /\ b \in Received!Buffers(ReceivedData) /\ ReceivedL!InOrder(b, t)
        /\ Complete(b, low, t, A)
    BY <2>1 DEF Travels, Sound
  <2> HIDE DEF x, b
  <2>4. Complete(c1.received, low, ReceivedL!HeadAfter(t, x.id), A \cup {x.id})
    <3>1. Complete(Received!Insert(b, x.id % SeqSpace, x), low,
                   ReceivedL!HeadAfter(t, x.id), A \cup {x.id})
      BY ONLY low \in Nat, n \in Nat, A \subseteq Nat, Top(low, A, t), t <= n,
              <2>1, <2>3, CompleteRecord, Zenon
    <3> QED BY <2>2, <3>1
  <2>5. x.id \in Nat /\ B = A \cup {x.id} /\ B \subseteq Nat
    BY <1>1, <1>2, <2>1 DEF Admitted
  <2>6. Top(low, B, ReceivedL!HeadAfter(t, x.id))
    BY <2>3, <2>5, TopGrows
  <2>7. u = ReceivedL!HeadAfter(t, x.id)
    BY <2>5, <2>6, TopUnique
  <2> QED BY <2>4, <2>5, <2>7
<1>3. CASE ~Records(c, d)
  <2>1. B = A /\ c1.received = c.received
    BY <1>3 DEF Receives, Admitted
  <2>2. u = t
    BY <2>1, TopUnique
  <2> QED BY <2>1, <2>2
<1> QED BY <1>2, <1>3

\* The packets tracked in b1 are among those tracked in b.
SubTracked(b1, b) ==
    \A i \in Sent!Slots : b1.entries[i] # NoEntry =>
        /\ b.entries[i] # NoEntry
        /\ b1.entries[i].data.id = b.entries[i].data.id
        /\ b1.entries[i].data.len = b.entries[i].data.len

\* Flagging changes neither ids nor lengths.
LEMMA ReceiveTracked ==
    ASSUME NEW c, Sound(c), NEW d, NEW c1, Receives(c, d, c1)
    PROVE  SubTracked(c1.sent, c.sent)
<1>1. c.sent \in Sent!Buffers(SentData)
  BY DEF Sound
<1>2. CASE TakesAcks(c, d)
  <2> DEFINE a == d.header
             S == NewlyAcked(c, a)
  <2>1. c1.sent = FlagAcked(c.sent, a, S)
    BY <1>2 DEF Receives
  <2> HIDE DEF a, S
  <2>2. \A i \in Sent!Slots : FlaggedAs(c.sent.entries[i], c1.sent.entries[i],
                                        Hit(a, S, c.sent.entries[i].sequence))
    BY <1>1, <2>1, FlagAckedFacts
  <2> QED BY <2>2 DEF SubTracked, FlaggedAs
<1>3. CASE ~TakesAcks(c, d)
  BY <1>3 DEF Receives, SubTracked
<1> QED BY <1>2, <1>3

\* What the sources of Lengths are.
LEMMA LengthsOf ==
    ASSUME NEW b, NEW q, NEW F
    PROVE  /\ \A d \in F : <<d.id, LenOf(d)>> \in Lengths(b, q, F)
           /\ \A i \in Sent!Slots : b.entries[i] # NoEntry =>
                  <<b.entries[i].data.id, b.entries[i].data.len>> \in Lengths(b, q, F)
           /\ \A i \in DOMAIN q :
                  <<q[i].payload[1].id, q[i].payload[1].len>> \in Lengths(b, q, F)
           /\ \A x \in Lengths(b, q, F) :
                  \/ \E d \in F : x = <<d.id, LenOf(d)>>
                  \/ \E i \in Sent!Slots : /\ b.entries[i] # NoEntry
                                           /\ x = <<b.entries[i].data.id, b.entries[i].data.len>>
                  \/ \E i \in DOMAIN q : x = <<q[i].payload[1].id, q[i].payload[1].len>>
  BY DEF Lengths

\* Fewer sources tell no other lengths.
LEMMA FewerLengths ==
    ASSUME NEW b, NEW b1, SubTracked(b1, b), NEW q, NEW F, NEW F1, F1 \subseteq F
    PROVE  Lengths(b1, q, F1) \subseteq Lengths(b, q, F)
<1> SUFFICES ASSUME NEW x \in Lengths(b1, q, F1) PROVE x \in Lengths(b, q, F)
  OBVIOUS
<1>1. ASSUME NEW d \in F1, x = <<d.id, LenOf(d)>> PROVE x \in Lengths(b, q, F)
  BY <1>1, LengthsOf
<1>2. ASSUME NEW i \in Sent!Slots, b1.entries[i] # NoEntry,
             x = <<b1.entries[i].data.id, b1.entries[i].data.len>>
      PROVE  x \in Lengths(b, q, F)
  BY <1>2, LengthsOf DEF SubTracked
<1>3. ASSUME NEW i \in DOMAIN q, x = <<q[i].payload[1].id, q[i].payload[1].len>>
      PROVE  x \in Lengths(b, q, F)
  BY <1>3, LengthsOf
<1> QED BY <1>1, <1>2, <1>3, LengthsOf

\* A smaller set of lengths.
LEMMA OneLengthSub ==
    ASSUME NEW L, NEW L1, L1 \subseteq L, NEW n, OneLength(L, n)
    PROVE  OneLength(L1, n)
  BY DEF OneLength

\* A step that sends and delivers nothing.
LEMMA FlowKept ==
    ASSUME NEW b, NEW q, NEW F, NEW D, NEW X, NEW O, NEW n, NEW ids,
           Flow(b, q, F, D, X, O, n, ids), NEW b1, SubTracked(b1, b), NEW F1, F1 \subseteq F
    PROVE  Flow(b1, q, F1, D, X, O, n, ids)
<1>1. OneLength(Lengths(b1, q, F1), n)
  BY FewerLengths, OneLengthSub DEF Flow
<1>2. Accounted(b1, q, D, X, O)
  BY DEF Flow, Accounted, SubTracked
<1> QED BY <1>1, <1>2 DEF Flow

\* A packet that is sent has a new id, and one length.
LEMMA FlowSend ==
    ASSUME NEW b, NEW q, NEW F, NEW D, NEW X, NEW O, NEW n \in Nat, NEW ids,
           Flow(b, q, F, D, X, O, n, ids), \A m \in X : m < n, NEW len \in Nat,
           NEW b1, NEW F1,
           \A i \in Sent!Slots : b1.entries[i] # NoEntry =>
               \/ b1.entries[i] = b.entries[i]
               \/ b1.entries[i].data.id = n /\ b1.entries[i].data.len = len,
           \A d \in F1 : d \in F \/ (d.id = n /\ LenOf(d) = len)
    PROVE  Flow(b1, q, F1, D, X, O, n + 1, ids)
<1> DEFINE L == Lengths(b, q, F)
           L1 == Lengths(b1, q, F1)
<1>1. ASSUME NEW x \in L1 PROVE x \in L \/ x = <<n, len>>
  <2>1. ASSUME NEW d \in F1, x = <<d.id, LenOf(d)>> PROVE x \in L \/ x = <<n, len>>
    BY <2>1, LengthsOf
  <2>2. ASSUME NEW i \in Sent!Slots, b1.entries[i] # NoEntry,
               x = <<b1.entries[i].data.id, b1.entries[i].data.len>>
        PROVE  x \in L \/ x = <<n, len>>
    <3>1. CASE b1.entries[i] = b.entries[i]
      BY <2>2, <3>1, LengthsOf
    <3>2. CASE b1.entries[i].data.id = n /\ b1.entries[i].data.len = len
      BY <2>2, <3>2
    <3> QED BY <2>2, <3>1, <3>2
  <2>3. ASSUME NEW i \in DOMAIN q, x = <<q[i].payload[1].id, q[i].payload[1].len>>
        PROVE  x \in L
    BY <2>3, LengthsOf
  <2> QED BY <2>1, <2>2, <2>3, LengthsOf
<1>2. OneLength(L, n) /\ Delivered(q, D, X, ids) /\ Accounted(b, q, D, X, O)
  BY DEF Flow
<1> HIDE DEF L, L1
<1>3. OneLength(L1, n + 1)
  <2>1. \A x \in L : x \in (0 .. (n - 1)) \X Nat
    BY <1>2 DEF OneLength
  <2>2. \A x \in L1 : x \in (0 .. ((n + 1) - 1)) \X Nat
    BY <1>1, <2>1
  <2>3. ASSUME NEW x \in L1, NEW y \in L1, x[1] = y[1] PROVE x[2] = y[2]
    <3>1. \A z \in L : z[1] # n
      BY <2>1
    <3>2. CASE x \in L /\ y \in L
      BY <1>2, <2>3, <3>2 DEF OneLength
    <3>3. CASE x = <<n, len>> /\ y = <<n, len>>
      BY <3>3
    <3>4. CASE x \in L /\ y = <<n, len>>
      BY <2>3, <3>1, <3>4
    <3>5. CASE y \in L /\ x = <<n, len>>
      BY <2>3, <3>1, <3>5
    <3> QED BY <1>1, <3>2, <3>3, <3>4, <3>5
  <2> QED BY <2>2, <2>3 DEF OneLength
<1>4. Accounted(b1, q, D, X, O)
  <2> SUFFICES ASSUME NEW i \in Sent!Slots, b1.entries[i] # NoEntry,
                      b1.entries[i].data.id \in X
               PROVE  \/ b1.entries[i].data.len = 0
                      \/ Times(D, q, b1.entries[i].data.id) >= 1
                      \/ Regular(b1.entries[i].data.len) /\ b1.entries[i].data.id \in O
    BY DEF Accounted
  <2>1. b1.entries[i] = b.entries[i]
    <3>1. b1.entries[i].data.id # n
      OBVIOUS
    <3> QED BY <3>1
  <2> QED BY <1>2, <2>1 DEF Accounted
<1> QED BY <1>2, <1>3, <1>4 DEF Flow, L1

\* drain_incoming() moves what the queue held to the history.
LEMMA FlowDrain ==
    ASSUME NEW T, NEW q \in Seq(T), NEW b, NEW F, NEW D, NEW X, NEW O, NEW n \in Nat, NEW ids,
           Flow(b, q, F, D, X, O, n, ids), 0 .. (n - 1) \subseteq ids,
           NEW D1, D1 = [m \in DOMAIN D |-> D[m] + Deliveries(q, m)]
    PROVE  Flow(b, << >>, F, D1, X, O, n, ids)
<1>1. D \in [ids -> Nat]
  BY DEF Flow, Delivered
<1>2. ASSUME NEW m \in ids
      PROVE  D1[m] \in Nat /\ Times(D1, << >>, m) = Times(D, q, m)
  <2>1. Deliveries(q, m) \in Nat /\ Deliveries(<< >>, m) = 0
    BY DeliveriesType
  <2>2. D[m] \in Nat /\ D1[m] = D[m] + Deliveries(q, m)
    BY <1>1
  <2> QED BY <2>1, <2>2 DEF Times
<1>3. D1 \in [ids -> Nat]
  BY <1>1, <1>2
<1>4. DOMAIN << >> = {}
  OBVIOUS
<1>5. OneLength(Lengths(b, << >>, F), n)
  <2>1. Lengths(b, << >>, F) \subseteq Lengths(b, q, F)
    BY <1>4 DEF Lengths
  <2> QED BY <2>1, OneLengthSub DEF Flow
<1>6. Delivered(<< >>, D1, X, ids)
  BY <1>2, <1>3, <1>4 DEF Flow, Delivered
<1>7. Accounted(b, << >>, D1, X, O)
  <2> SUFFICES ASSUME NEW i \in Sent!Slots, b.entries[i] # NoEntry, b.entries[i].data.id \in X
               PROVE  \/ b.entries[i].data.len = 0
                      \/ Times(D1, << >>, b.entries[i].data.id) >= 1
                      \/ Regular(b.entries[i].data.len) /\ b.entries[i].data.id \in O
    BY DEF Accounted
  <2>1. <<b.entries[i].data.id, b.entries[i].data.len>> \in Lengths(b, q, F)
    BY LengthsOf
  <2>2. b.entries[i].data.id \in ids
    BY <2>1 DEF Flow, OneLength
  <2> QED BY <1>2, <2>2 DEF Flow, Accounted
<1> QED BY <1>5, <1>6, <1>7 DEF Flow

\* After reset() nothing is tracked, queued or in flight.
LEMMA FlowReset ==
    ASSUME NEW T, NEW q \in Seq(T), NEW b, NEW F, NEW D, NEW X, NEW O, NEW n, NEW ids,
           Flow(b, q, F, D, X, O, n, ids), NEW b1, NEW n1,
           \A i \in Sent!Slots : b1.entries[i] = NoEntry
    PROVE  Flow(b1, << >>, {}, D, X, O, n1, ids)
<1>1. DOMAIN << >> = {}
  OBVIOUS
<1>2. OneLength(Lengths(b1, << >>, {}), n1)
  <2>1. Lengths(b1, << >>, {}) = {}
    BY <1>1 DEF Lengths
  <2> QED BY <2>1 DEF OneLength
<1>3. D \in [ids -> Nat] /\ \A m \in ids : Times(D, q, m) >= 1 => m \in X
  BY DEF Flow, Delivered
<1>4. ASSUME NEW m \in ids, Times(D, << >>, m) >= 1 PROVE m \in X
  <2>1. Deliveries(q, m) \in Nat /\ Deliveries(<< >>, m) = 0 /\ D[m] \in Nat
    BY <1>3, DeliveriesType
  <2>2. Times(D, q, m) >= 1
    BY <1>4, <2>1 DEF Times
  <2> QED BY <1>3, <2>2
<1>5. Delivered(<< >>, D, X, ids)
  BY <1>1, <1>3, <1>4 DEF Delivered
<1>6. Accounted(b1, << >>, D, X, O)
  BY DEF Accounted
<1> QED BY <1>2, <1>5, <1>6 DEF Flow

\* A delivered packet: its item has its id and its length, and a regular packet was
\* not recorded before.
LEMMA FlowDeliver ==
    ASSUME NEW T, NEW q \in Seq(T), NEW item \in T, NEW b, NEW F, NEW D, NEW X, NEW O,
           NEW n \in Nat, NEW ids, Flow(b, q, F, D, X, O, n, ids), 0 .. (n - 1) \subseteq ids,
           NEW d \in F, NEW F1, F1 \subseteq F,
           item.payload[1].id = d.id, item.payload[1].len = LenOf(d),
           Regular(LenOf(d)) => d.id \notin X
    PROVE  Flow(b, Append(q, item), F1, D, X \cup {d.id}, O, n, ids)
<1> DEFINE w == Append(q, item)
           x == d.id
           L == Lengths(b, q, F)
<1>1. OneLength(L, n) /\ Delivered(q, D, X, ids) /\ Accounted(b, q, D, X, O)
  BY DEF Flow
<1>2. <<x, LenOf(d)>> \in L
  BY LengthsOf
<1>3. x \in ids
  BY <1>1, <1>2 DEF OneLength
<1>4. /\ DOMAIN q = 1 .. Len(q) /\ Len(q) \in Nat /\ DOMAIN w = 1 .. (Len(q) + 1)
      /\ w[Len(q) + 1] = item /\ \A i \in 1 .. Len(q) : w[i] = q[i]
  OBVIOUS
<1>5. ASSUME NEW m
      PROVE  /\ Deliveries(q, m) \in Nat
             /\ Deliveries(w, m) = Deliveries(q, m) + (IF x = m THEN 1 ELSE 0)
  BY DeliveriesType, DeliveriesAppend
<1>6. D \in [ids -> Nat]
  BY <1>1 DEF Delivered
<1>7. ASSUME NEW m \in ids
      PROVE  /\ Times(D, q, m) \in Nat
             /\ Times(D, w, m) = Times(D, q, m) + (IF x = m THEN 1 ELSE 0)
  <2>1. D[m] \in Nat
    BY <1>6
  <2> HIDE DEF w, x
  <2> QED BY <1>5, <2>1 DEF Times
<1> HIDE DEF w, x, L
<1>8. OneLength(Lengths(b, w, F1), n)
  <2>1. ASSUME NEW y \in Lengths(b, w, F1) PROVE y \in L
    <3>1. ASSUME NEW f \in F1, y = <<f.id, LenOf(f)>> PROVE y \in L
      BY <3>1, LengthsOf DEF L
    <3>2. ASSUME NEW i \in Sent!Slots, b.entries[i] # NoEntry,
                 y = <<b.entries[i].data.id, b.entries[i].data.len>>
          PROVE  y \in L
      BY <3>2, LengthsOf DEF L
    <3>3. ASSUME NEW i \in DOMAIN w, y = <<w[i].payload[1].id, w[i].payload[1].len>>
          PROVE  y \in L
      <4>1. CASE i \in DOMAIN q
        <5>1. w[i] = q[i]
          BY <1>4, <4>1
        <5> QED BY <3>3, <4>1, <5>1, LengthsOf DEF L
      <4>2. CASE i = Len(q) + 1
        BY <1>2, <1>4, <3>3, <4>2 DEF x
      <4> QED BY <1>4, <3>3, <4>1, <4>2
    <3> QED BY <3>1, <3>2, <3>3, LengthsOf
  <2> QED BY <1>1, <2>1, OneLengthSub
<1>9. Delivered(w, D, X \cup {x}, ids)
  <2>1. ASSUME NEW m \in ids, Times(D, w, m) >= 1 PROVE m \in X \cup {x}
    <3>1. CASE m = x
      BY <3>1
    <3>2. CASE m # x
      BY <1>1, <1>7, <2>1, <3>2 DEF Delivered
    <3> QED BY <3>1, <3>2
  <2>2. ASSUME Regular(LenOf(d)) PROVE Times(D, q, x) = 0 /\ Times(D, w, x) <= 1
    <3>1. x \notin X
      BY <2>2 DEF x
    <3>2. ~(Times(D, q, x) >= 1)
      BY <1>1, <1>3, <3>1 DEF Delivered
    <3>3. Times(D, q, x) \in Nat /\ Times(D, w, x) = Times(D, q, x) + 1
      BY <1>3, <1>7
    <3> QED BY <3>2, <3>3
  <2>3. ASSUME NEW i \in DOMAIN w, Regular(w[i].payload[1].len)
        PROVE  Times(D, w, w[i].payload[1].id) <= 1
    <3>1. CASE i \in DOMAIN q
      <4> DEFINE m == q[i].payload[1].id
                 len == q[i].payload[1].len
      <4>1. w[i] = q[i] /\ Regular(len)
        BY <1>4, <2>3, <3>1
      <4>2. <<m, len>> \in L
        BY <3>1, LengthsOf DEF L
      <4>3. m \in ids
        BY <1>1, <4>2 DEF OneLength
      <4>4. Times(D, q, m) <= 1
        BY <1>1, <3>1, <4>1 DEF Delivered
      <4>5. Deliveries(q, m) >= 1 /\ Deliveries(q, m) \in Nat
        BY <3>1, DeliveriesType
      <4> HIDE DEF m, len
      <4>6. m # x
        <5> SUFFICES ASSUME m = x PROVE FALSE
          OBVIOUS
        <5>1. len = LenOf(d)
          <6>1. <<m, len>>[1] = <<x, LenOf(d)>>[1]
            OBVIOUS
          <6>2. <<m, len>>[2] = <<x, LenOf(d)>>[2]
            BY <1>1, <1>2, <4>2, <6>1 DEF OneLength
          <6> QED BY <6>2
        <5>2. Times(D, q, m) = 0
          BY <2>2, <4>1, <5>1
        <5>3. D[m] \in Nat
          BY <1>6, <4>3
        <5> QED BY <4>5, <5>2, <5>3 DEF Times
      <4>7. Times(D, w, m) <= 1
        BY <1>7, <4>3, <4>4, <4>6
      <4> QED BY <4>1, <4>7 DEF m
    <3>2. CASE i = Len(q) + 1
      <4>1. w[i] = item
        BY <1>4, <3>2
      <4>2. Regular(LenOf(d)) /\ w[i].payload[1].id = x
        BY <2>3, <4>1 DEF x
      <4> QED BY <2>2, <4>2
    <3> QED BY <1>4, <2>3, <3>1, <3>2
  <2> QED BY <1>6, <2>1, <2>3 DEF Delivered
<1>10. Accounted(b, w, D, X \cup {x}, O)
  <2> SUFFICES ASSUME NEW i \in Sent!Slots, b.entries[i] # NoEntry,
                      b.entries[i].data.id \in X \cup {x}
               PROVE  \/ b.entries[i].data.len = 0
                      \/ Times(D, w, b.entries[i].data.id) >= 1
                      \/ Regular(b.entries[i].data.len) /\ b.entries[i].data.id \in O
    BY DEF Accounted
  <2> DEFINE m == b.entries[i].data.id
             len == b.entries[i].data.len
  <2>1. <<m, len>> \in L
    BY LengthsOf DEF L
  <2>2. m \in ids
    BY <1>1, <2>1 DEF OneLength
  <2>3. Times(D, q, m) \in Nat /\ Times(D, w, m) = Times(D, q, m) + (IF x = m THEN 1 ELSE 0)
    BY <1>7, <2>2
  <2>4. m \in X => len = 0 \/ Times(D, q, m) >= 1 \/ (Regular(len) /\ m \in O)
    BY <1>1 DEF Accounted
  <2> HIDE DEF m, len
  <2>5. m \in X \cup {x}
    BY DEF m
  <2>6. len = 0 \/ Times(D, w, m) >= 1 \/ (Regular(len) /\ m \in O)
    BY <2>3, <2>4, <2>5
  <2> QED BY <2>6 DEF m, len
<1> QED BY <1>8, <1>9, <1>10 DEF Flow, w, x

\* A regular packet recorded but not delivered: it is empty, or the queue was full.
LEMMA FlowRecord ==
    ASSUME NEW q, NEW b, NEW F, NEW D, NEW X, NEW O,
           NEW n \in Nat, NEW ids, Flow(b, q, F, D, X, O, n, ids),
           NEW d \in F, NEW F1, F1 \subseteq F, NEW O1, O \subseteq O1,
           LenOf(d) = 0 \/ (Regular(LenOf(d)) /\ d.id \in O1)
    PROVE  Flow(b, q, F1, D, X \cup {d.id}, O1, n, ids)
<1> DEFINE L == Lengths(b, q, F)
<1>1. OneLength(L, n) /\ Delivered(q, D, X, ids) /\ Accounted(b, q, D, X, O)
  BY DEF Flow
<1>2. <<d.id, LenOf(d)>> \in L
  BY LengthsOf
<1>3. OneLength(Lengths(b, q, F1), n)
  <2>1. SubTracked(b, b)
    BY DEF SubTracked
  <2> QED BY <1>1, <2>1, FewerLengths, OneLengthSub
<1>4. Delivered(q, D, X \cup {d.id}, ids)
  BY <1>1 DEF Delivered
<1> HIDE DEF L
<1>5. Accounted(b, q, D, X \cup {d.id}, O1)
  <2> SUFFICES ASSUME NEW i \in Sent!Slots, b.entries[i] # NoEntry,
                      b.entries[i].data.id \in X \cup {d.id}
               PROVE  \/ b.entries[i].data.len = 0
                      \/ Times(D, q, b.entries[i].data.id) >= 1
                      \/ Regular(b.entries[i].data.len) /\ b.entries[i].data.id \in O1
    BY DEF Accounted
  <2>1. CASE b.entries[i].data.id \in X
    BY <1>1, <2>1 DEF Accounted
  <2>2. CASE b.entries[i].data.id = d.id
    <3> DEFINE y == <<b.entries[i].data.id, b.entries[i].data.len>>
               z == <<d.id, LenOf(d)>>
    <3>1. y \in L /\ z \in L /\ y[1] = z[1]
      BY <1>2, <2>2, LengthsOf DEF L
    <3>2. y[2] = z[2]
      <4> HIDE DEF y, z
      <4> QED BY <1>1, <3>1 DEF OneLength
    <3>3. b.entries[i].data.len = LenOf(d)
      BY <3>2
    <3> QED BY <2>2, <3>3
  <2> QED BY <2>1, <2>2
<1> QED BY <1>3, <1>4, <1>5 DEF Flow

\* Datagram d of F is recorded or not, and counted if the queue is full.
Admits(c, d, F, A, O, n, ids, F1, B, O1) ==
    /\ 0 .. (n - 1) \subseteq ids
    /\ d \in F
    /\ F1 \subseteq F
    /\ Admitted(c, d, A, B)
    /\ O1 = IF Len(c.incoming) = IncomingSize THEN O \cup (B \ A) ELSE O

\* A datagram that comes in.
LEMMA FlowReceive ==
    ASSUME NEW c, Sound(c), NEW d, NEW c1, Receives(c, d, c1),
           NEW low \in Nat, NEW n \in Nat, NEW t, NEW A, A \subseteq Nat, NEW V,
           Travels(d, low, n, t, V), Top(low, A, t), t <= n,
           ReceivedL!InOrder(c.received, t), Complete(c.received, low, t, A),
           Collects(c.reassembly, Recent(low, n)),
           NEW b, NEW F, NEW D, NEW O, NEW ids, Flow(b, c.incoming, F, D, A, O, n, ids),
           NEW F1, NEW B, NEW O1, Admits(c, d, F, A, O, n, ids, F1, B, O1)
    PROVE  Flow(b, c1.incoming, F1, D, B, O1, n, ids)
<1> DEFINE q == c.incoming
<1> USE DEF Admits, Admitted
<1>1. d \in Packets \cup Fragments /\ Genuine(d) /\ d.id \in Nat
  BY DEF Travels, Packets, Fragments
<1>2. q \in Seq(Items) /\ Len(q) <= IncomingSize /\ IncomingSize \in Nat /\ Len(q) \in Nat
  <2>1. q \in Seq(Items) /\ Len(q) <= IncomingSize
    BY DEF Sound
  <2> HIDE DEF q, Items
  <2> QED BY <2>1, LimitAssumption
<1>3. ASSUME d \in Packets, Records(c, d) PROVE d.id \notin A
  BY <1>3, RefusedAgain
<1>4. /\ d \in Packets => LenOf(d) = Len(d.payload) /\ Regular(LenOf(d))
      /\ d \in Fragments => LenOf(d) = d.num_fragments /\ ~Regular(LenOf(d))
  <2>1. ASSUME d \in Packets PROVE LenOf(d) = Len(d.payload) /\ Regular(LenOf(d))
    BY <1>1, <2>1, Kinds DEF LenOf, Regular, Genuine
  <2>2. ASSUME d \in Fragments PROVE LenOf(d) = d.num_fragments /\ ~Regular(LenOf(d))
    <3>1. LenOf(d) = d.num_fragments /\ d.num_fragments > FragmentAbove /\ d.num_fragments \in Nat
      BY <1>1, <2>2, Kinds DEF LenOf, Genuine, Fragments
    <3> QED BY <3>1, LimitAssumption DEF Regular
  <2> QED BY <2>1, <2>2
<1>5. CASE Delivers(c, d)
  <2> DEFINE item == Item(c, d)
             len == LenOf(d)
  <2>1. Records(c, d) /\ c1.incoming = Append(q, item) /\ Len(q) < IncomingSize
    BY <1>5 DEF Receives, Delivers
  <2>2. item.payload = Payload(d.id, len) /\ len \in Nat \ {0}
    BY <1>5, ItemMade
  <2>3. item \in Items
    BY <1>1, <2>1, NotedType
  <2> HIDE DEF item, len
  <2>4. item.payload[1] = Chunk(d.id, 0, len)
    <3>1. 1 \in 1 .. len /\ 1 - 1 = 0
      BY <2>2
    <3>2. Payload(d.id, len)[1] = Chunk(d.id, 1 - 1, len)
      BY <1>1, <2>2, <3>1, PayloadFacts
    <3> QED BY <2>2, <3>1, <3>2
  <2>5. item.payload[1].id = d.id /\ item.payload[1].len = len
    BY <2>4 DEF Chunk
  <2>6. Regular(LenOf(d)) => d.id \notin A
    BY <1>1, <1>3, <1>4, <2>1
  <2>7. B = A \cup {d.id} /\ O1 = O
    BY <1>2, <2>1
  <2> HIDE DEF q, Items
  <2>8. Flow(b, q, F, D, A, O, n, ids)
    BY DEF q
  <2>9. Flow(b, Append(q, item), F1, D, A \cup {d.id}, O, n, ids)
    BY <1>2, <2>3, <2>5, <2>6, <2>8, FlowDeliver DEF len
  <2> QED BY <2>1, <2>7, <2>9
<1>6. CASE Records(c, d) /\ ~Delivers(c, d)
  <2>1. c1.incoming = q /\ B = A \cup {d.id} /\ O \subseteq O1
    BY <1>6 DEF Receives
  <2>2. d \in Packets
    <3>1. ~IsFragment(d)
      BY <1>6 DEF Records, Delivers
    <3> QED BY <1>1, <3>1, Kinds
  <2>3. LenOf(d) = 0 \/ (Regular(LenOf(d)) /\ d.id \in O1)
    <3>1. CASE d.payload = << >>
      BY <1>4, <2>2, <3>1
    <3>2. CASE d.payload # << >>
      <4>1. ~(Len(q) < IncomingSize)
        BY <1>6, <3>2 DEF Delivers
      <4>2. Len(q) = IncomingSize
        BY <1>2, <4>1
      <4>3. d.id \in B \ A
        BY <1>3, <1>6, <2>1, <2>2
      <4> QED BY <1>4, <2>2, <4>2, <4>3
    <3> QED BY <3>1, <3>2
  <2> HIDE DEF q
  <2>4. Flow(b, q, F, D, A, O, n, ids)
    BY DEF q
  <2>5. Flow(b, q, F1, D, A \cup {d.id}, O1, n, ids)
    BY <2>1, <2>3, <2>4, FlowRecord
  <2> QED BY <2>1, <2>5
<1>7. CASE ~Records(c, d)
  <2>1. c1.incoming = q /\ B = A /\ O1 = O
    <3>1. ~Delivers(c, d)
      BY <1>7 DEF Delivers
    <3>2. B = A
      BY <1>7
    <3> QED BY <3>1, <3>2 DEF Receives
  <2>2. SubTracked(b, b)
    BY DEF SubTracked
  <2> HIDE DEF q
  <2>3. Flow(b, q, F, D, A, O, n, ids)
    BY DEF q
  <2>4. Flow(b, q, F1, D, A, O, n, ids)
    BY <2>2, <2>3, FlowKept
  <2> QED BY <2>1, <2>4
<1> QED BY <1>5, <1>6, <1>7

--------------------------------------------------------------------------------
(* The steps *)

\* Ids below next are within IdsOf.
LEMMA IdsCover ==
    ASSUME Inv, Budgeted, NEW e \in Endpoints
    PROVE  0 .. (next[e] - 1) \subseteq IdsOf(e)
<1>1. /\ next[e] \in Nat /\ budget.sends[e] \in Nat /\ budget.mishaps \in Nat
      /\ next[e] + budget.sends[e] + SeqSpace * budget.mishaps <= LastId(e)
  BY DEF Inv, Shapes, Budgeted
<1> DEFINE k == SeqSpace * budget.mishaps
<1>2. k \in Nat
  BY <1>1, SeqSpaceAssumption
<1>3. LastId(e) \in Nat
  BY ConnectionAssumption, SeqSpaceAssumption DEF LastId
<1> HIDE DEF k
<1>4. next[e] + budget.sends[e] + k <= LastId(e)
  BY <1>1 DEF k
<1>5. next[e] <= LastId(e)
  BY <1>1, <1>2, <1>3, <1>4
<1>6. IdsOf(e) = 0 .. LastId(e)
  BY DEF IdsOf, LastId
<1> QED BY <1>1, <1>3, <1>5, <1>6

\* A mishap may cost a whole sequence space of ids.
LEMMA MishapBudgeted ==
    ASSUME Inv, Budgeted, budget.mishaps > 0, budget' = [budget EXCEPT !.mishaps = @ - 1],
           \A e \in Endpoints : next'[e] \in Nat /\ next'[e] <= next[e] + SeqSpace
    PROVE  Budgeted'
<1>1. /\ budget.sends \in [Endpoints -> Nat] /\ budget.mishaps \in Nat
      /\ budget = [sends |-> budget.sends, dups |-> budget.dups, mishaps |-> budget.mishaps]
  BY DEF Budgeted
<1>2. /\ budget'.sends = budget.sends /\ budget'.mishaps = budget.mishaps - 1
      /\ budget' = [sends |-> budget'.sends, dups |-> budget'.dups, mishaps |-> budget'.mishaps]
  BY <1>1
<1>3. ASSUME NEW e \in Endpoints
      PROVE  next'[e] + budget.sends[e] + SeqSpace * (budget.mishaps - 1) <= LastId(e)
  <2> DEFINE k == SeqSpace * budget.mishaps
             j == SeqSpace * (budget.mishaps - 1)
  <2>1. /\ next[e] \in Nat /\ budget.sends[e] \in Nat /\ LastId(e) \in Nat
        /\ next[e] + budget.sends[e] + k <= LastId(e)
    BY <1>1, ConnectionAssumption, SeqSpaceAssumption DEF Inv, Shapes, Budgeted, LastId
  <2>2. j = k - SeqSpace /\ k \in Nat /\ SeqSpace \in Nat
    BY <1>1, SeqSpaceAssumption
  <2>3. next'[e] \in Nat /\ next'[e] <= next[e] + SeqSpace
    OBVIOUS
  <2> HIDE DEF j, k
  <2>4. next'[e] + budget.sends[e] + j <= LastId(e)
    BY <2>1, <2>2, <2>3
  <2> QED BY <2>4 DEF j
<1>4. budget.mishaps - 1 \in Nat
  BY <1>1
<1>5. \A e \in Endpoints :
          next'[e] + budget'.sends[e] + SeqSpace * budget'.mishaps <= LastId(e)
  BY <1>2, <1>3
<1> QED BY <1>1, <1>2, <1>4, <1>5 DEF Budgeted, LastId

\* What the invariants say of endpoint e and its peer.
LEMMA BothWays ==
    ASSUME Inv, Delivering, NEW e \in Endpoints
    PROVE  LET p == Peer(e)
           IN  /\ Conveys(e, p) /\ Conveys(p, e)
               /\ Link(e, p) /\ Link(p, e) /\ Sound(ep[e]) /\ Sound(ep[p])
               /\ p \in Endpoints /\ p # e /\ Peer(p) = e
               /\ 0 .. (next[e] - 1) \subseteq IdsOf(e)
               /\ 0 .. (next[p] - 1) \subseteq IdsOf(p)
<1>1. Peer(e) \in Endpoints /\ Peer(e) # e /\ Peer(Peer(e)) = e
  BY PeerFacts
<1>2. Conveys(e, Peer(e)) /\ Conveys(Peer(e), e)
  BY <1>1 DEF Delivering
<1>3. Link(e, Peer(e)) /\ Link(Peer(e), e) /\ Sound(ep[e]) /\ Sound(ep[Peer(e)])
  BY <1>1 DEF Inv
<1>4. 0 .. (next[e] - 1) \subseteq IdsOf(e) /\ 0 .. (next[Peer(e)] - 1) \subseteq IdsOf(Peer(e))
  BY <1>1, IdsCover DEF Delivering
<1> QED BY <1>1, <1>2, <1>3, <1>4

\* A step of e that sends, records and delivers nothing.
LEMMA DeliveringQuiet ==
    ASSUME Inv, Delivering, NEW e \in Endpoints, NEW c1, ep' = [ep EXCEPT ![e] = c1],
           c1.sent = ep[e].sent, c1.received = ep[e].received, c1.incoming = ep[e].incoming,
           net'[e] = net[e], net'[Peer(e)] \cup ToSet(c1.outgoing) \subseteq InFlight(e),
           UNCHANGED <<next, base, accepted, overflowed, drained>>, Budgeted'
    PROVE  Delivering'
<1> DEFINE p == Peer(e)
<1>1. /\ Conveys(e, p) /\ Conveys(p, e) /\ p \in Endpoints /\ p # e /\ Peer(p) = e
  BY BothWays
<1>2. ep'[e] = c1 /\ ep'[p] = ep[p]
  <2>1. ep = [x \in Endpoints |-> ep[x]]
    BY DEF Inv, Shapes
  <2> HIDE DEF p
  <2> QED BY <1>1, <2>1
<1> HIDE DEF p
<1>3. InFlight(e)' \subseteq InFlight(e)
  BY <1>2 DEF InFlight, p
<1>4. InFlight(p)' \subseteq InFlight(p)
  BY <1>1, <1>2 DEF InFlight
<1>5. Newest(e)' = Newest(e) /\ Newest(p)' = Newest(p)
  BY DEF Newest
<1>6. \A b : SubTracked(b, b)
  BY DEF SubTracked
<1>7. Conveys(e, p)'
  <2>1. Flow(ep[e].sent, ep[p].incoming, InFlight(e)', drained[p], accepted[p],
             overflowed[p], next[e], IdsOf(e))
    BY <1>1, <1>3, <1>6, FlowKept DEF Conveys
  <2> QED BY <1>1, <1>2, <1>5, <2>1 DEF Conveys, IdsOf
<1>8. Conveys(p, e)'
  <2>1. Flow(ep[p].sent, ep[e].incoming, InFlight(p)', drained[e], accepted[e],
             overflowed[e], next[p], IdsOf(p))
    BY <1>1, <1>4, <1>6, FlowKept DEF Conveys
  <2> QED BY <1>1, <1>2, <1>5, <2>1 DEF Conveys, IdsOf
<1>9. \A x \in Endpoints : Conveys(x, Peer(x))'
  BY <1>1, <1>7, <1>8, PeerFacts DEF p
<1> QED BY <1>9 DEF Delivering

\* The same, with the network left alone.
LEMMA DeliveringCounts ==
    ASSUME Inv, Delivering, NEW e \in Endpoints, NEW c1, ep' = [ep EXCEPT ![e] = c1],
           c1.sent = ep[e].sent, c1.received = ep[e].received, c1.incoming = ep[e].incoming,
           c1.outgoing = ep[e].outgoing, Budgeted',
           UNCHANGED <<net, next, base, accepted, overflowed, drained>>
    PROVE  Delivering'
<1>1. net'[e] = net[e] /\ net'[Peer(e)] \cup ToSet(c1.outgoing) \subseteq InFlight(e)
  BY DEF InFlight
<1>2. UNCHANGED <<next, base, accepted, overflowed, drained>>
  OBVIOUS
<1> QED BY <1>1, <1>2, DeliveringQuiet

\* A mishap that sends nothing.
LEMMA BudgetedMishap ==
    ASSUME Inv, Delivering, budget.mishaps > 0, budget' = [budget EXCEPT !.mishaps = @ - 1],
           UNCHANGED next
    PROVE  Budgeted'
<1>1. \A e \in Endpoints : next'[e] \in Nat /\ next'[e] <= next[e] + SeqSpace
  BY SeqSpaceAssumption DEF Inv, Shapes
<1> QED BY <1>1, MishapBudgeted DEF Delivering

\* drain_outgoing() keeps the deliveries counted.
LEMMA DeliveringFlush ==
    ASSUME Inv, Delivering, NEW e \in Endpoints, NEW through, Flush(e, through)
    PROVE  Delivering'
<1> DEFINE c == ep[e]
           p == Peer(e)
           c1 == DrainOutgoing(c)
<1>1. c1 = Endpoint(c, c.sequence, c.sent, c.received, c.reassembly, << >>,
                    c.incoming, c.ack_buf, c.counters, c.rtt)
  BY SoundEndpoint, DrainOutgoingFields
<1>2. /\ ep' = [ep EXCEPT ![e] = c1]
      /\ UNCHANGED <<next, base, accepted, overflowed, drained>> /\ budget' = budget
      /\ through \subseteq ToSet(c.outgoing)
      /\ net' = [net EXCEPT ![p] = @ \cup through]
  BY DEF Flush, history
<1> HIDE DEF c1
<1>3. /\ c1.sent = c.sent /\ c1.received = c.received /\ c1.incoming = c.incoming
      /\ c1.outgoing = << >>
  BY <1>1, EndpointFields
<1>4. p \in Endpoints /\ p # e
  BY PeerFacts
<1> HIDE DEF p
<1>5. net'[e] = net[e] /\ net'[p] = net[p] \cup through
  <2>1. net \in [Endpoints -> SUBSET (Packets \cup Fragments)]
    BY DEF Inv, Shapes
  <2> QED BY <1>2, <1>4, <2>1
<1>6. ToSet(<< >>) = {}
  BY DEF ToSet
<1>7. net'[Peer(e)] \cup ToSet(c1.outgoing) \subseteq InFlight(e)
  BY <1>2, <1>3, <1>5, <1>6 DEF InFlight, p
<1>8. Budgeted'
  BY <1>2 DEF Delivering, Budgeted, LastId
<1> QED BY <1>2, <1>3, <1>5, <1>7, <1>8, DeliveringQuiet

\* get_acks() and clear_acks() keep the deliveries counted.
LEMMA DeliveringReadAcks ==
    ASSUME Inv, Delivering, NEW e \in Endpoints, ReadAcks(e)
    PROVE  Delivering'
<1> DEFINE c == ep[e]
           c1 == ClearAcks(c)
<1>1. c1 = Endpoint(c, c.sequence, c.sent, c.received, c.reassembly, c.outgoing,
                    c.incoming, << >>, c.counters, c.rtt)
  BY SoundEndpoint, ClearAcksFields
<1>2. /\ ep' = [ep EXCEPT ![e] = c1] /\ budget' = budget
      /\ UNCHANGED <<net, next, base, accepted, overflowed, drained>>
  BY DEF ReadAcks
<1> HIDE DEF c1
<1>3. /\ c1.sent = c.sent /\ c1.received = c.received /\ c1.incoming = c.incoming
      /\ c1.outgoing = c.outgoing
  BY <1>1, EndpointFields
<1>4. Budgeted'
  BY <1>2 DEF Delivering, Budgeted, LastId
<1> QED BY <1>2, <1>3, <1>4, DeliveringCounts

\* A refused send_packet() keeps the deliveries counted.
LEMMA DeliveringSendTooLarge ==
    ASSUME Inv, Delivering, NEW e \in Endpoints, SendTooLarge(e)
    PROVE  Delivering'
<1> DEFINE c == ep[e]
           c1 == SendPacket(c, next[e], MaxPacketSize + 1)
           k == [c.counters EXCEPT !.packets_too_large_to_send = @ + 1]
<1>1. c1 = Endpoint(c, c.sequence, c.sent, c.received, c.reassembly, c.outgoing,
                    c.incoming, c.ack_buf, k, c.rtt)
  BY SoundEndpoint, SendTooLargeFields
<1>2. /\ ep' = [ep EXCEPT ![e] = c1]
      /\ UNCHANGED <<net, next, base, accepted, overflowed, drained>>
  BY DEF SendTooLarge, history
<1> HIDE DEF c1, k
<1>3. /\ c1.sent = c.sent /\ c1.received = c.received /\ c1.incoming = c.incoming
      /\ c1.outgoing = c.outgoing
  BY <1>1, EndpointFields
<1>4. Budgeted'
  BY BudgetedMishap DEF SendTooLarge
<1> QED BY <1>2, <1>3, <1>4, DeliveringCounts

\* A foreign datagram keeps the deliveries counted.
LEMMA DeliveringForeign ==
    ASSUME Inv, Delivering, NEW e \in Endpoints, ReceiveForeign(e)
    PROVE  Delivering'
<1> DEFINE c == ep[e]
<1>1. Sound(c) /\ EndpointRecord(c) /\ c.counters \in Counters
  BY SoundEndpoint
<1>2. UNCHANGED <<net, next, base, accepted, overflowed, drained>>
  BY DEF ReceiveForeign, history
<1>3. Budgeted'
  BY BudgetedMishap DEF ReceiveForeign
<1>4. ASSUME NEW kind \in StrayKinds, ep' = [ep EXCEPT ![e] = ReceiveStray(@, kind)]
      PROVE  Delivering'
  <2> DEFINE c1 == ReceiveStray(c, kind)
  <2>1. PICK k \in Counters : c1 =
            Endpoint(c, c.sequence, c.sent, c.received, c.reassembly, c.outgoing,
                     c.incoming, c.ack_buf, k, c.rtt)
    BY <1>1, StrayFields
  <2>2. ep' = [ep EXCEPT ![e] = c1]
    BY <1>4
  <2> HIDE DEF c1
  <2>3. /\ c1.sent = c.sent /\ c1.received = c.received /\ c1.incoming = c.incoming
        /\ c1.outgoing = c.outgoing
    BY <2>1, EndpointFields
  <2> QED BY <1>2, <1>3, <2>2, <2>3, DeliveringCounts
<1>5. ASSUME NEW d \in ForeignFragments, ep' = [ep EXCEPT ![e] = ReceivePacket(@, d)]
      PROVE  Delivering'
  <2> DEFINE c1 == ReceivePacket(c, d)
  <2>1. /\ c1.sent = c.sent /\ c1.received = c.received /\ c1.incoming = c.incoming
        /\ c1.outgoing = c.outgoing
    BY <1>1, ForeignFields
  <2>2. ep' = [ep EXCEPT ![e] = c1]
    BY <1>5
  <2> HIDE DEF c1
  <2> QED BY <1>2, <1>3, <2>1, <2>2, DeliveringCounts
<1> QED BY <1>4, <1>5 DEF ReceiveForeign

\* drain_incoming() keeps the deliveries counted: they move from the queue to the
\* history.
LEMMA DeliveringReadIncoming ==
    ASSUME Inv, Delivering, NEW e \in Endpoints, ReadIncoming(e)
    PROVE  Delivering'
<1> DEFINE p == Peer(e)
           c == ep[e]
           c1 == DrainIncoming(c)
           q == c.incoming
           D == drained[e]
           D1 == [m \in DOMAIN D |-> D[m] + Deliveries(q, m)]
<1>1. c1 = Endpoint(c, c.sequence, c.sent, c.received, c.reassembly, c.outgoing,
                    << >>, c.ack_buf, c.counters, c.rtt)
  BY SoundEndpoint, DrainIncomingFields
<1>2. /\ Conveys(e, p) /\ Conveys(p, e) /\ p \in Endpoints /\ p # e /\ Peer(p) = e
      /\ 0 .. (next[p] - 1) \subseteq IdsOf(p)
  BY BothWays
<1>3. ep = [x \in Endpoints |-> ep[x]] /\ drained = [x \in Endpoints |-> drained[x]]
      /\ next[p] \in Nat /\ Sound(c)
  BY <1>2 DEF Inv, Shapes, Delivering
<1>4. /\ ep' = [ep EXCEPT ![e] = c1] /\ drained' = [drained EXCEPT ![e] = D1]
      /\ UNCHANGED <<net, next, base, accepted, overflowed, budget>>
  BY <1>3 DEF ReadIncoming
<1> HIDE DEF c1
<1>5. /\ c1.sent = c.sent /\ c1.received = c.received /\ c1.incoming = << >>
      /\ c1.outgoing = c.outgoing
  BY <1>1, EndpointFields
<1> HIDE DEF p, D1
<1>6. /\ ep'[e] = c1 /\ ep'[p] = ep[p] /\ drained'[e] = D1 /\ drained'[p] = drained[p]
      /\ drained' = [x \in Endpoints |-> drained'[x]]
  BY <1>2, <1>3, <1>4
<1>7. /\ InFlight(e)' = InFlight(e) /\ InFlight(p)' = InFlight(p)
      /\ Newest(e)' = Newest(e) /\ Newest(p)' = Newest(p)
  BY <1>2, <1>4, <1>5, <1>6 DEF InFlight, Newest
<1>8. Flow(ep[p].sent, << >>, InFlight(p), D1, accepted[e], overflowed[e], next[p], IdsOf(p))
  <2>1. q \in Seq(Items)
    BY <1>3 DEF Sound
  <2>2. Flow(ep[p].sent, q, InFlight(p), D, accepted[e], overflowed[e], next[p], IdsOf(p))
    BY <1>2 DEF Conveys
  <2> HIDE DEF q, D, Items
  <2>3. D1 = [m \in DOMAIN D |-> D[m] + Deliveries(q, m)]
    BY DEF D1
  <2> QED BY <1>2, <1>3, <2>1, <2>2, <2>3, FlowDrain
<1>9. Conveys(p, e)'
  BY <1>2, <1>4, <1>5, <1>6, <1>7, <1>8 DEF Conveys, IdsOf
<1>10. Conveys(e, p)'
  BY <1>2, <1>4, <1>5, <1>6, <1>7 DEF Conveys, IdsOf
<1>11. \A x \in Endpoints : Conveys(x, Peer(x))'
  BY <1>2, <1>9, <1>10, PeerFacts DEF p
<1>12. Budgeted'
  BY <1>4 DEF Delivering, Budgeted, LastId
<1> QED BY <1>4, <1>6, <1>11, <1>12 DEF Delivering

\* The datagrams of a packet have its id and its length.
LEMMA DatagramsLength ==
    ASSUME NEW c, NEW n \in Nat, NEW len \in Nat,
           NEW j \in 1 .. Len(Datagrams(c, n, len))
    PROVE  /\ Datagrams(c, n, len)[j].id = n
           /\ LenOf(Datagrams(c, n, len)[j]) = len
<1> DEFINE a == AckHeader(c)
           q == Datagrams(c, n, len)
<1>1. CASE len > FragmentAbove
  <2>1. q = [k \in 1 .. len |-> Fragment(c.sequence, a, n, len, k - 1)]
    BY <1>1 DEF Datagrams
  <2>2. Len(q) = len
    BY <2>1
  <2>3. q[j] = Fragment(c.sequence, a, n, len, j - 1)
    BY <2>1, <2>2
  <2> QED BY <2>3 DEF Fragment, LenOf, IsFragment
<1>2. CASE ~(len > FragmentAbove)
  <2>1. q = <<RegularPacket(c.sequence, a, n, len)>>
    BY <1>2 DEF Datagrams
  <2>2. Len(q) = 1 /\ j = 1
    BY <2>1
  <2>3. q[j] = RegularPacket(c.sequence, a, n, len)
    BY <2>1, <2>2
  <2>4. Len(Payload(n, len)) = len
    BY PayloadFacts
  <2> QED BY <2>3, <2>4 DEF RegularPacket, LenOf, IsFragment
<1> QED BY <1>1, <1>2

\* What is tracked after a packet was sent: it, or what was tracked before.
LEMMA SentTracked ==
    ASSUME NEW b \in Sent!Buffers(SentData), NEW n \in Nat, SentL!InOrder(b, n),
           NEW d \in SentData, d.id = n, NEW b1, b1 = Sent!Insert(b, n % SeqSpace, d)
    PROVE  \A i \in Sent!Slots : b1.entries[i] # NoEntry =>
               b1.entries[i] = b.entries[i] \/ b1.entries[i].data = d
<1>1. n \in Int
  OBVIOUS
<1>2. SentL!TookIn(b, n, n, d, b1)
  BY <1>1, SentInsert
<1>3. b1.entries[n % SentSize].data = d
  BY <1>2 DEF SentL!TookIn
<1>4. \A i \in Sent!Slots : i # n % SentSize =>
          (b1.entries[i] # NoEntry => b1.entries[i] = b.entries[i])
  BY <1>2, SentBridge DEF SentL!TookIn, SentL!KeptExcept
<1> QED BY <1>3, <1>4

\* A packet less to send, and an id more.
LEMMA BudgetedSend ==
    ASSUME Inv, Budgeted, NEW e \in Endpoints, budget.sends[e] > 0,
           budget' = [budget EXCEPT !.sends[e] = @ - 1],
           next' = [next EXCEPT ![e] = @ + 1]
    PROVE  Budgeted'
<1>1. /\ budget.sends \in [Endpoints -> Nat] /\ budget.mishaps \in Nat
      /\ budget = [sends |-> budget.sends, dups |-> budget.dups, mishaps |-> budget.mishaps]
      /\ next \in [Endpoints -> Nat]
  BY DEF Budgeted, Inv, Shapes
<1>2. /\ budget'.sends = [budget.sends EXCEPT ![e] = @ - 1] /\ budget'.mishaps = budget.mishaps
      /\ budget' = [sends |-> budget'.sends, dups |-> budget'.dups, mishaps |-> budget'.mishaps]
  BY <1>1
<1>3. budget'.sends \in [Endpoints -> Nat]
  BY <1>1, <1>2
<1>4. ASSUME NEW x \in Endpoints
      PROVE  next'[x] + budget'.sends[x] + SeqSpace * budget'.mishaps <= LastId(x)
  <2> DEFINE k == SeqSpace * budget.mishaps
  <2>1. next[x] + budget.sends[x] + k <= LastId(x) /\ k \in Nat
    BY <1>1, SeqSpaceAssumption DEF Budgeted
  <2>2. next[x] \in Nat /\ budget.sends[x] \in Nat
    BY <1>1
  <2> HIDE DEF k
  <2>3. next'[x] + budget'.sends[x] = next[x] + budget.sends[x]
    <3>1. CASE x = e
      BY <1>1, <1>2, <2>2, <3>1
    <3>2. CASE x # e
      BY <1>1, <1>2, <2>2, <3>2
    <3> QED BY <3>1, <3>2
  <2>4. next'[x] + budget'.sends[x] + k <= LastId(x)
    BY <2>1, <2>3
  <2> QED BY <1>2, <2>4 DEF k
<1> QED BY <1>1, <1>2, <1>3, <1>4 DEF Budgeted, LastId

\* send_packet() keeps the deliveries counted: the new packet has a new id.
LEMMA DeliveringSend ==
    ASSUME Inv, Delivering, NEW e \in Endpoints, NEW len \in Lens, Send(e, len)
    PROVE  Delivering'
<1> DEFINE p == Peer(e)
           c == ep[e]
           n == next[e]
           d == Tracked(c, n, len)
           q == Datagrams(c, n, len)
           c1 == SendPacket(c, n, len)
<1>1. /\ Conveys(e, p) /\ Conveys(p, e) /\ Link(e, p) /\ Link(p, e) /\ Sound(c)
      /\ p \in Endpoints /\ p # e /\ Peer(p) = e
  BY BothWays
<1>2. /\ Timely(e) /\ len <= MaxPacketSize /\ ep' = [ep EXCEPT ![e] = c1]
      /\ budget.sends[e] > 0 /\ budget' = [budget EXCEPT !.sends[e] = @ - 1]
      /\ next' = [next EXCEPT ![e] = @ + 1]
      /\ UNCHANGED <<net, base, accepted, overflowed, drained>>
  BY DEF Send, history
<1>3. /\ ep = [x \in Endpoints |-> ep[x]] /\ next \in [Endpoints -> Nat]
      /\ len \in Nat /\ n \in Nat /\ accepted[p] \subseteq Nat
  BY <1>1, ConnectionAssumption DEF Inv, Shapes
<1>4. Sends(c, n, len, c1)
  BY <1>1, <1>2, <1>3, SendFields DEF Sound
<1>5. d \in SentData /\ d.id = n /\ d.len = len
  BY <1>1, <1>3 DEF Tracked, SentData, Sound
<1>6. /\ c1.sent = Sent!Insert(c.sent, n % SeqSpace, d)
      /\ c1.received = c.received /\ c1.incoming = c.incoming
  BY <1>1, <1>4 DEF Sends, Link
<1>7. c.sent \in Sent!Buffers(SentData) /\ SentL!InOrder(c.sent, n)
  BY <1>1 DEF Sound, Link, Tracks
<1>8. Inv'
  BY SendStep
<1> HIDE DEF c1
<1>9. /\ ep'[e] = c1 /\ ep'[p] = ep[p] /\ next'[e] = n + 1 /\ next'[p] = next[p]
  <2> HIDE DEF p
  <2> QED BY <1>1, <1>2, <1>3
<1>10. q \in Seq(Packets \cup Fragments)
  <2> DEFINE t == Newest(p)
             u == Newest(e)
             A == accepted[e]
             R == Recent(base[p], next[p])
             low == base[e]
  <2>1. /\ t \in Nat /\ u \in Nat /\ low \in Nat /\ low <= n /\ n - t < Half - ReceivedSize
        /\ c.sequence = n % SeqSpace /\ c.received \in Received!Buffers(ReceivedData)
        /\ Remembers(c.received, u, A, R)
    <3>1. low \in Nat /\ Top(low, accepted[p], t) /\ t <= n /\ Top(base[p], A, u)
      BY <1>1 DEF Inv, Shapes, Link
    <3>2. t \in Nat /\ low <= t /\ u \in Nat
      BY <3>1 DEF Top
    <3>3. low <= n
      <4> HIDE DEF low, t, n
      <4> QED BY <1>3, <3>1, <3>2
    <3> QED BY <1>1, <1>2, <3>1, <3>2, <3>3 DEF Timely, Link, Sound
  <2> HIDE DEF c, n, low, t, A, R, u
  <2> QED BY <1>3, <2>1, DatagramsTravel DEF q
<1>11. ASSUME NEW x \in ToSet(c1.outgoing)
       PROVE  x \in ToSet(c.outgoing) \/ (x.id = n /\ LenOf(x) = len)
  <2>1. c1.sent \in Sent!Buffers(SentData)
    BY <1>8, <1>9 DEF Inv, Sound
  <2>2. Sound(c)
    BY <1>1
  <2> HIDE DEF c, n, q
  <2>3. Datagrams(c, n, len) \in Seq(Packets \cup Fragments)
    BY <1>10 DEF q
  <2>4. x \in ToSet(c.outgoing) \/ \E j \in 1 .. Len(q) : x = q[j]
    BY <1>3, <1>4, <1>11, <2>1, <2>2, <2>3, SendSound DEF q
  <2> QED BY <1>3, <2>4, DatagramsLength DEF q
<1> HIDE DEF p, q
<1>12. /\ InFlight(e) = net[p] \cup ToSet(c.outgoing) /\ InFlight(p)' = InFlight(p)
       /\ InFlight(e)' = net[p] \cup ToSet(c1.outgoing)
       /\ Newest(e)' = Newest(e) /\ Newest(p)' = Newest(p)
  BY <1>1, <1>2, <1>9 DEF InFlight, Newest, p
<1>13. Flow(c1.sent, ep[p].incoming, InFlight(e)', drained[p], accepted[p],
            overflowed[p], n + 1, IdsOf(e))
  <2>1. Flow(c.sent, ep[p].incoming, InFlight(e), drained[p], accepted[p],
             overflowed[p], n, IdsOf(e))
    BY <1>1 DEF Conveys
  <2>2. \A m \in accepted[p] : m < n
    <3>1. Top(base[e], accepted[p], Newest(p)) /\ Newest(p) <= n
      BY <1>1 DEF Link
    <3> HIDE DEF n
    <3> QED BY <1>3, <3>1 DEF Top
  <2> HIDE DEF c, n, d
  <2>3. \A i \in Sent!Slots : c1.sent.entries[i] # NoEntry =>
            \/ c1.sent.entries[i] = c.sent.entries[i]
            \/ c1.sent.entries[i].data.id = n /\ c1.sent.entries[i].data.len = len
    <3>1. \A i \in Sent!Slots : c1.sent.entries[i] # NoEntry =>
              c1.sent.entries[i] = c.sent.entries[i] \/ c1.sent.entries[i].data = d
      BY <1>3, <1>5, <1>6, <1>7, SentTracked
    <3> QED BY <1>5, <3>1
  <2>4. \A x \in InFlight(e)' : x \in InFlight(e) \/ (x.id = n /\ LenOf(x) = len)
    BY <1>11, <1>12
  <2> QED BY <1>3, <2>1, <2>2, <2>3, <2>4, FlowSend
<1>14. Conveys(e, p)'
  BY <1>1, <1>2, <1>9, <1>12, <1>13 DEF Conveys, IdsOf
<1>15. Conveys(p, e)'
  BY <1>1, <1>2, <1>6, <1>9, <1>12 DEF Conveys, IdsOf
<1>16. \A x \in Endpoints : Conveys(x, Peer(x))'
  BY <1>1, <1>14, <1>15, PeerFacts DEF p
<1>17. Budgeted'
  BY <1>2, BudgetedSend DEF Delivering
<1> QED BY <1>2, <1>16, <1>17 DEF Delivering

\* receive_packet() keeps the deliveries counted: a regular packet goes to the queue
\* once, and one recorded that does not is accounted for.
LEMMA DeliveringReceive ==
    ASSUME Inv, Delivering, NoStalePartials, NEW e \in Endpoints, NEW d \in net[e],
           Receive(e, d)
    PROVE  Delivering'
<1> DEFINE p == Peer(e)
           c == ep[e]
           n == next[p]
           low == base[p]
           t == Newest(e)
           A == accepted[e]
           B == accepted'[e]
           O == overflowed[e]
           O1 == overflowed'[e]
           V == accepted[p] \cap Recent(base[e], next[e])
           c1 == ReceivePacket(c, d)
<1>1. /\ Conveys(e, p) /\ Conveys(p, e) /\ Link(p, e) /\ Sound(c)
      /\ p \in Endpoints /\ p # e /\ Peer(p) = e /\ 0 .. (n - 1) \subseteq IdsOf(p)
  BY BothWays
<1>2. /\ ep' = [ep EXCEPT ![e] = c1]
      /\ accepted' = [accepted EXCEPT ![e] =
             IF ep'[e].counters.packets_received > ep[e].counters.packets_received
             THEN @ \cup {d.id} ELSE @]
      /\ overflowed' = [overflowed EXCEPT ![e] =
             IF Len(ep[e].incoming) = IncomingSize
             THEN @ \cup (accepted'[e] \ accepted[e]) ELSE @]
      /\ net' = [net EXCEPT ![e] = @ \ {d}] \/ net' = net
      /\ budget' = budget \/ budget' = [budget EXCEPT !.dups = @ - 1]
      /\ UNCHANGED <<next, base, drained>>
  BY DEF Receive
<1>3. /\ ep = [x \in Endpoints |-> ep[x]] /\ accepted \in [Endpoints -> SUBSET Nat]
      /\ net \in [Endpoints -> SUBSET (Packets \cup Fragments)]
      /\ overflowed = [x \in Endpoints |-> overflowed[x]]
      /\ n \in Nat /\ low \in Nat /\ A \subseteq Nat
  BY <1>1 DEF Inv, Shapes, Delivering
<1>4. Inv'
  BY ReceiveStep
<1>5. /\ ep'[e] = c1 /\ ep'[p] = ep[p] /\ accepted'[p] = accepted[p]
      /\ overflowed'[p] = overflowed[p] /\ overflowed' = [x \in Endpoints |-> overflowed'[x]]
      /\ B = IF c1.counters.packets_received > c.counters.packets_received
             THEN A \cup {d.id} ELSE A
      /\ O1 = IF Len(c.incoming) = IncomingSize THEN O \cup (B \ A) ELSE O
      /\ net'[p] = net[p] /\ net'[e] \subseteq net[e]
  <2> HIDE DEF p, c1
  <2>1. ep'[e] = c1 /\ ep'[p] = ep[p]
    BY <1>1, <1>2, <1>3
  <2>2. /\ accepted'[p] = accepted[p]
        /\ B = IF c1.counters.packets_received > c.counters.packets_received
               THEN A \cup {d.id} ELSE A
    BY <1>1, <1>2, <1>3, <2>1
  <2>3. /\ overflowed'[p] = overflowed[p] /\ overflowed' = [x \in Endpoints |-> overflowed'[x]]
        /\ O1 = IF Len(c.incoming) = IncomingSize THEN O \cup (B \ A) ELSE O
    BY <1>1, <1>2, <1>3
  <2>4. net'[p] = net[p] /\ net'[e] \subseteq net[e]
    BY <1>1, <1>2, <1>3
  <2> QED BY <2>1, <2>2, <2>3, <2>4
<1>6. d \in InFlight(p) /\ Travels(d, low, n, t, V)
  <2>1. d \in InFlight(p)
    BY <1>1 DEF InFlight
  <2> QED BY <1>1, <2>1 DEF Link
<1>7. Receives(c, d, c1)
  <2>1. /\ EndpointRecord(c) /\ c.counters \in Counters
        /\ c.incoming \in Seq(Items) /\ Len(c.incoming) <= IncomingSize
    BY <1>1 DEF Sound
  <2> HIDE DEF Items
  <2> QED BY <2>1, ReceiveFields
<1> HIDE DEF c1, B, O1
<1>8. /\ Top(low, A, t) /\ t <= n /\ Remembers(c.received, t, A, Recent(low, n))
      /\ ReceivedL!InOrder(c.received, t) /\ Collects(c.reassembly, Recent(low, n))
      /\ Complete(c.received, low, t, A)
  BY <1>1 DEF Link, Remembers, Conveys
<1>9. Sound(c)
  BY <1>1
<1>10. Admitted(c, d, A, B)
  <2>1. B = IF c1.counters.packets_received > c.counters.packets_received
            THEN A \cup {d.id} ELSE A
    BY <1>5
  <2> HIDE DEF c, A
  <2> QED BY <1>7, <1>9, <2>1, ReceiveAdmits
<1>11. InFlight(e)' = InFlight(e) /\ InFlight(p)' \subseteq InFlight(p)
  <2>1. c1.outgoing = c.outgoing
    BY <1>7 DEF Receives
  <2>2. InFlight(e)' = InFlight(e)
    BY <1>5, <2>1 DEF InFlight
  <2> HIDE DEF p
  <2>3. InFlight(p)' \subseteq InFlight(p)
    BY <1>1, <1>5 DEF InFlight
  <2> QED BY <2>2, <2>3
<1> DEFINE u == Newest(e)'
<1>12. Top(low, B, u)
  <2>1. Link(p, e)'
    BY <1>1, <1>4 DEF Inv
  <2>2. base'[p] = low
    BY <1>2
  <2> QED BY <2>1, <2>2 DEF Link, B
<1>13. Newest(p)' = Newest(p)
  <2> HIDE DEF p
  <2> QED BY <1>2, <1>5 DEF Newest
<1> HIDE DEF p, u
<1>14. Complete(c1.received, low, u, B)
  <2> HIDE DEF c, low, n, t, A, V
  <2> QED BY <1>3, <1>6, <1>7, <1>8, <1>9, <1>10, <1>12, ReceiveComplete
<1>15. Flow(ep[p].sent, c1.incoming, InFlight(p)', drained[e], B, O1, n, IdsOf(p))
  <2> DEFINE b == ep[p].sent
             F == InFlight(p)
             F1 == InFlight(p)'
             D == drained[e]
             ids == IdsOf(p)
  <2>1. Flow(b, c.incoming, F, D, A, O, n, ids) /\ 0 .. (n - 1) \subseteq ids
    BY <1>1 DEF Conveys
  <2>2. F1 \subseteq F /\ d \in F
    BY <1>6, <1>11
  <2>3. Admits(c, d, F, A, O, n, ids, F1, B, O1)
    BY <1>5, <1>10, <2>1, <2>2 DEF Admits
  <2> HIDE DEF b, F, F1, D, ids, c, low, n, t, A, V, O
  <2>4. low \in Nat /\ n \in Nat /\ A \subseteq Nat
    BY <1>3
  <2>5. Flow(b, c1.incoming, F1, D, B, O1, n, ids)
    BY ONLY <1>6, <1>7, <1>8, <1>9, <2>1, <2>3, <2>4, FlowReceive, Zenon
  <2> QED BY <2>5 DEF b, F1, D, ids
<1>16. Conveys(p, e)'
  BY <1>1, <1>2, <1>5, <1>14, <1>15 DEF Conveys, IdsOf, u, B, O1
<1>17. Conveys(e, p)'
  <2>1. SubTracked(c1.sent, c.sent)
    <3> HIDE DEF c
    <3> QED BY <1>7, <1>9, ReceiveTracked
  <2>2. InFlight(e)' \subseteq InFlight(e)
    BY <1>11
  <2>3. Flow(c1.sent, ep[p].incoming, InFlight(e)', drained[p], accepted[p],
             overflowed[p], next[e], IdsOf(e))
    BY <1>1, <2>1, <2>2, FlowKept DEF Conveys
  <2> QED BY <1>1, <1>2, <1>5, <1>13, <2>3 DEF Conveys, IdsOf
<1>18. \A x \in Endpoints : Conveys(x, Peer(x))'
  BY <1>1, <1>16, <1>17, PeerFacts DEF p
<1>19. Budgeted'
  <2>1. Budgeted
    BY DEF Delivering
  <2>2. /\ budget'.sends = budget.sends /\ budget'.mishaps = budget.mishaps
        /\ budget' = [sends |-> budget'.sends, dups |-> budget'.dups,
                      mishaps |-> budget'.mishaps]
    BY <1>2, <2>1 DEF Budgeted
  <2> QED BY <1>2, <2>1, <2>2 DEF Budgeted, LastId
<1>20. drained' = [x \in Endpoints |-> drained'[x]]
  BY <1>2 DEF Delivering
<1> QED BY <1>5, <1>18, <1>19, <1>20 DEF Delivering

\* reset() keeps the deliveries counted: what was queued is gone, and no packet is
\* tracked or in flight.
LEMMA DeliveringRestart ==
    ASSUME Inv, Delivering, Restart
    PROVE  Delivering'
<1>1. /\ \A e \in Endpoints : net[e] = {}
      /\ ep' = [e \in Endpoints |-> ResetEndpoint(ep[e])]
      /\ next' = [e \in Endpoints |-> SeqSpace * ((next[e] + SeqSpace - 1) \div SeqSpace)]
      /\ base' = next' /\ budget.mishaps > 0 /\ budget' = [budget EXCEPT !.mishaps = @ - 1]
      /\ UNCHANGED <<net, accepted, overflowed, drained>>
  BY DEF Restart, history
<1>2. Shapes
  BY DEF Inv
<1>3. ASSUME NEW e \in Endpoints
      PROVE  next'[e] \in Nat /\ next[e] <= next'[e] /\ next'[e] <= next[e] + SeqSpace
  <2>1. next[e] \in Nat /\ SeqSpace \in Nat
    BY <1>2, SeqSpaceAssumption DEF Shapes
  <2> DEFINE m == SeqSpace * ((next[e] + SeqSpace - 1) \div SeqSpace)
  <2>2. m \in Nat /\ next[e] <= m /\ m < next[e] + SeqSpace
    BY <2>1, RoundUp
  <2>3. next'[e] = m
    BY <1>1
  <2> HIDE DEF m
  <2> QED BY <2>1, <2>2, <2>3
<1>4. Budgeted'
  BY <1>1, <1>3, MishapBudgeted DEF Delivering
<1>5. ASSUME NEW e \in Endpoints PROVE Fresh(ep'[e])
  <2>1. Sound(ep[e])
    BY DEF Inv
  <2> QED BY <1>1, <2>1, ResetIsFresh
<1>6. ASSUME NEW e \in Endpoints PROVE Conveys(e, Peer(e))'
  <2> DEFINE p == Peer(e)
             n == next[e]
             m == next'[e]
             X == accepted[p]
  <2>1. /\ Conveys(e, p) /\ Link(e, p) /\ p \in Endpoints /\ Sound(ep[p])
    BY BothWays
  <2>2. /\ Fresh(ep'[e]) /\ Fresh(ep'[p]) /\ base'[e] = m /\ m \in Nat /\ n <= m /\ n \in Nat
        /\ X \subseteq Nat
    BY <1>1, <1>2, <1>3, <1>5, <2>1 DEF Shapes
  <2>3. InFlight(e)' = {}
    <3>1. net'[p] = {}
      BY <1>1, <2>1
    <3>2. ToSet(<< >>) = {}
      BY DEF ToSet
    <3> QED BY <2>2, <3>1, <3>2 DEF InFlight, Fresh
  <2>4. \A i \in Sent!Slots : ep'[e].sent.entries[i] = NoEntry
    BY <2>2 DEF Fresh, Sent!NewBuffer
  <2>5. ep'[p].incoming = << >>
    BY <2>2 DEF Fresh
  <2>6. Flow(ep'[e].sent, << >>, {}, drained[p], X, overflowed[p], m, IdsOf(e))
    <3> DEFINE q == ep[p].incoming
               b1 == ep'[e].sent
    <3>1. q \in Seq(Items)
      BY <2>1 DEF Sound
    <3>2. Flow(ep[e].sent, q, InFlight(e), drained[p], X, overflowed[p], n, IdsOf(e))
      BY <2>1 DEF Conveys
    <3>3. \A i \in Sent!Slots : b1.entries[i] = NoEntry
      BY <2>4
    <3> HIDE DEF q, b1, m, n, X, p, Items
    <3>4. Flow(b1, << >>, {}, drained[p], X, overflowed[p], m, IdsOf(e))
      BY <3>1, <3>2, <3>3, FlowReset
    <3> QED BY <3>4 DEF b1
  <2>7. \A x \in X : x < m
    <3>1. Top(base[e], X, Newest(p)) /\ Newest(p) <= n
      BY <2>1 DEF Link
    <3> HIDE DEF m, n, X
    <3> TAKE x \in X
    <3>2. x \in Nat /\ x < Newest(p) /\ Newest(p) \in Nat
      BY <2>2, <3>1 DEF Top
    <3> QED BY <2>2, <3>1, <3>2
  <2>8. Complete(ep'[p].received, m, Newest(p)', X)
    <3> HIDE DEF m, X
    <3> QED BY <2>2, <2>7 DEF Complete
  <2>9. accepted'[p] = X /\ drained'[p] = drained[p] /\ overflowed'[p] = overflowed[p]
    BY <1>1
  <2> HIDE DEF p
  <2>10. Conveys(e, p)'
    BY <2>2, <2>3, <2>5, <2>6, <2>8, <2>9 DEF Conveys, IdsOf
  <2> QED BY <2>10 DEF p
<1> QED BY <1>1, <1>4, <1>6 DEF Delivering

\* Nothing is delivered in the initial state.
LEMMA DeliveringInit ==
    ASSUME Start = 0, Init
    PROVE  Delivering
<1>1. /\ ep = [e \in Endpoints |-> NewEndpoint] /\ net = [e \in Endpoints |-> {}]
      /\ next = [e \in Endpoints |-> 0] /\ base = [e \in Endpoints |-> 0]
      /\ accepted = [e \in Endpoints |-> {}]
  BY InitState
<1>2. drained = [e \in Endpoints |-> [n \in IdsOf(Peer(e)) |-> 0]]
  <2>1. \A e \in Endpoints : \A n \in IdsOf(Peer(e)) : n \in Nat /\ ~(n < Start)
    BY PeerFacts, IdsAreNat
  <2> QED BY <2>1 DEF Init
<1>3. /\ overflowed = [e \in Endpoints |-> {}]
      /\ budget = [sends |-> MaxSends, dups |-> MaxDups, mishaps |-> MaxMishaps]
  BY DEF Init
<1>4. Budgeted
  <2>1. /\ budget.sends = MaxSends /\ budget.mishaps = MaxMishaps /\ budget.dups = MaxDups
        /\ MaxSends \in [Endpoints -> Nat] /\ MaxMishaps \in Nat
    BY <1>3, ConnectionAssumption
  <2>2. ASSUME NEW e \in Endpoints
        PROVE  next[e] + MaxSends[e] + SeqSpace * MaxMishaps <= LastId(e)
    <3> DEFINE k == SeqSpace * MaxMishaps
    <3>1. k \in Nat /\ 2 * SeqSpace * MaxMishaps = 2 * k
      BY <2>1, SeqSpaceAssumption
    <3>2. MaxSends[e] \in Nat /\ next[e] = 0
      BY <1>1, <2>1
    <3>3. LastId(e) = 2 * k + Start + MaxSends[e]
      BY <3>1 DEF LastId
    <3> HIDE DEF k
    <3>4. next[e] + MaxSends[e] + k <= LastId(e)
      BY <3>1, <3>2, <3>3
    <3> QED BY <3>4 DEF k
  <2> QED BY <1>3, <2>1, <2>2 DEF Budgeted
<1>5. ASSUME NEW e \in Endpoints PROVE Conveys(e, Peer(e))
  <2> DEFINE p == Peer(e)
             D == drained[p]
             ids == IdsOf(e)
             b == ep[e].sent
  <2>1. p \in Endpoints /\ Peer(p) = e
    BY PeerFacts
  <2>2. Fresh(ep[e]) /\ Fresh(ep[p])
    BY <1>1, <2>1, NewIsFresh
  <2>3. ep[p].incoming = << >> /\ accepted[p] = {} /\ next[e] = 0
    BY <1>1, <2>1, <2>2 DEF Fresh
  <2>4. InFlight(e) = {}
    <3>1. net[p] = {}
      BY <1>1, <2>1
    <3>2. ToSet(<< >>) = {}
      BY DEF ToSet
    <3> QED BY <2>2, <3>1, <3>2 DEF InFlight, Fresh
  <2>5. \A i \in Sent!Slots : b.entries[i] = NoEntry
    BY <2>2 DEF Fresh, Sent!NewBuffer
  <2>6. D = [n \in ids |-> 0]
    BY <1>2, <2>1
  <2> HIDE DEF p, D, ids, b
  <2>7. DOMAIN << >> = {}
    OBVIOUS
  <2>8. Delivered(<< >>, D, {}, ids)
    <3>1. \A n : Deliveries(<< >>, n) = 0
      <4>1. << >> \in Seq(Items)
        OBVIOUS
      <4> HIDE DEF Items
      <4> QED BY <4>1, DeliveriesType
    <3>2. D \in [ids -> Nat] /\ \A n \in ids : Times(D, << >>, n) = 0
      BY <2>6, <3>1 DEF Times
    <3> QED BY <2>7, <3>2 DEF Delivered
  <2>9. OneLength(Lengths(b, << >>, {}), 0)
    <3>1. Lengths(b, << >>, {}) = {}
      BY <2>5, <2>7 DEF Lengths
    <3> QED BY <3>1 DEF OneLength
  <2>10. Accounted(b, << >>, D, {}, overflowed[p])
    BY DEF Accounted
  <2>11. Flow(b, << >>, {}, D, {}, overflowed[p], 0, ids)
    BY <2>8, <2>9, <2>10 DEF Flow
  <2>12. Conveys(e, p)
    BY <2>3, <2>4, <2>11 DEF Conveys, Complete, b, D, ids
  <2> QED BY <2>12 DEF p
<1> QED BY <1>2, <1>3, <1>4, <1>5 DEF Delivering

\* Every step keeps the deliveries counted.
LEMMA DeliveringNext ==
    ASSUME Inv, Delivering, NoStalePartials, [Next]_vars
    PROVE  Delivering'
<1>1. CASE Restart
  BY <1>1, DeliveringRestart
<1>2. ASSUME NEW e \in Endpoints, NEW len \in Lens, Send(e, len) PROVE Delivering'
  BY <1>2, DeliveringSend
<1>3. ASSUME NEW e \in Endpoints, SendTooLarge(e) PROVE Delivering'
  BY <1>3, DeliveringSendTooLarge
<1>4. ASSUME NEW e \in Endpoints, NEW through \in SUBSET ToSet(ep[e].outgoing),
             Flush(e, through)
      PROVE  Delivering'
  BY <1>4, DeliveringFlush
<1>5. ASSUME NEW e \in Endpoints, NEW d \in net[e], Receive(e, d) PROVE Delivering'
  BY <1>5, DeliveringReceive
<1>6. ASSUME NEW e \in Endpoints, ReceiveForeign(e) PROVE Delivering'
  BY <1>6, DeliveringForeign
<1>7. ASSUME NEW e \in Endpoints, ReadIncoming(e) PROVE Delivering'
  BY <1>7, DeliveringReadIncoming
<1>8. ASSUME NEW e \in Endpoints, ReadAcks(e) PROVE Delivering'
  BY <1>8, DeliveringReadAcks
<1>9. CASE UNCHANGED vars
  BY <1>9 DEF vars, history, Delivering, Budgeted, LastId, Conveys, Newest, InFlight, IdsOf
<1> QED BY <1>1, <1>2, <1>3, <1>4, <1>5, <1>6, <1>7, <1>8, <1>9 DEF Next

\* The strengthened invariant is inductive.
LEMMA DeliveryInvariance ==
    ASSUME Start = 0, NoStalePartials
    PROVE  Spec => [](Inv /\ Delivering)
<1>1. Init => Delivering
  BY DeliveringInit
<1>2. Inv /\ Delivering /\ [Next]_vars => Delivering'
  BY DeliveringNext
<1> QED BY <1>1, <1>2, Invariance, PTL DEF Spec

\* Duplicates of a packet sent as a single datagram are never handed to the
\* application twice: while a copy can still arrive, the received buffer knows it.
THEOREM RegularDeliveredOnce ==
    ASSUME Start = 0, NoStalePartials
    PROVE  Spec => []RegularAtMostOnce
<1>1. Inv /\ Delivering => RegularAtMostOnce
  <2> SUFFICES ASSUME Inv, Delivering, NEW e \in Endpoints, NEW i \in DOMAIN ep[e].incoming,
                      Regular(ep[e].incoming[i].payload[1].len)
               PROVE  TimesDelivered(e, ep[e].incoming[i].payload[1].id) <= 1
    BY DEF RegularAtMostOnce
  <2>1. Conveys(Peer(e), e)
    BY BothWays
  <2>2. Delivered(ep[e].incoming, drained[e], accepted[e], IdsOf(Peer(e)))
    BY <2>1 DEF Conveys, Flow
  <2> QED BY <2>2 DEF Delivered, TimesDelivered, Times
<1> QED BY <1>1, DeliveryInvariance, PTL

\* An ack means delivery: what process_acks() flags was handed to the peer's incoming
\* queue whole, unless it was empty, or sent as one datagram that met a full queue.
THEOREM AcksMeanDelivery ==
    ASSUME Start = 0, NoStalePartials
    PROVE  Spec => []AckMeansDelivered
<1>1. Inv /\ Delivering => AckMeansDelivered
  <2> SUFFICES ASSUME Inv, Delivering, NEW e \in Endpoints, NEW f \in Acked(e)
               PROVE  \/ f.len = 0
                      \/ TimesDelivered(Peer(e), f.id) >= 1
                      \/ Regular(f.len) /\ f.id \in overflowed[Peer(e)]
    BY DEF AckMeansDelivered
  <2> DEFINE p == Peer(e)
             b == ep[e].sent
  <2>1. Conveys(e, p) /\ Link(e, p)
    BY BothWays
  <2>2. PICK i \in Sent!Slots : /\ b.entries[i] # NoEntry /\ b.entries[i].data.acked
                                /\ f = b.entries[i].data
    BY DEF Acked
  <2>3. f.id \in accepted[p]
    BY <2>1, <2>2 DEF Link, Tracks
  <2>4. Accounted(b, ep[p].incoming, drained[p], accepted[p], overflowed[p])
    BY <2>1 DEF Conveys, Flow
  <2> HIDE DEF b
  <2> QED BY <2>2, <2>3, <2>4 DEF Accounted, TimesDelivered, Times
<1> QED BY <1>1, DeliveryInvariance, PTL

================================================================================
