---------------------------- MODULE WireSizesProofs ----------------------------
(***************************************************************************)
(* For every valid and coherent configuration, with header sizes up to the *)
(* declared maximum, an accepted packet arrives whole.                     *)
(*                                                                         *)
(* The inductive invariant is NothingMissing with the configuration's own  *)
(* validity.  A fragment keeps it because the bytes before chunk k and the *)
(* chunk itself make up the bytes before chunk k + 1 (ChunkAdds), and      *)
(* because coherence leaves both the slot and the receive limit room for   *)
(* the first fragment with its two headers (FragmentFits) and the u16      *)
(* length room for a full one (StoredWhole).                               *)
(***************************************************************************)
EXTENDS WireSizes, SequenceTheorems, TLAPS

--------------------------------------------------------------------------------
(* What the proofs need to know of % beyond linear arithmetic *)

\* Division with remainder, as the provers need it.
LEMMA DivMod ==
    \A x \in Int, n \in Nat \ {0} :
        /\ x \div n \in Int
        /\ x % n \in 0 .. (n - 1)
        /\ x = n * (x \div n) + (x % n)
  OBVIOUS

--------------------------------------------------------------------------------

\* validate() accepted the configuration.
ConfigInv == config \in Configs /\ Validate(config)

\* The inductive invariant.
Inv == ConfigInv /\ NothingMissing

\* Multiplication by a positive number preserves the order.
LEMMA TimesMonotone ==
    ASSUME NEW a \in Int, NEW b \in Int, NEW f \in Nat, a <= b
    PROVE  a * f <= b * f
<1>1. b - a \in Nat
  OBVIOUS
<1>2. (b - a) * f >= 0
  BY <1>1
<1>3. (b - a) * f = b * f - a * f
  OBVIOUS
<1> QED BY <1>2, <1>3

\* A rounded-up quotient is the least number of pieces that hold n.
LEMMA DivCeilBounds ==
    ASSUME NEW n \in Nat, NEW f \in Nat \ {0}
    PROVE  /\ DivCeil(n, f) \in Nat
           /\ (DivCeil(n, f) - 1) * f < n
           /\ n <= DivCeil(n, f) * f
<1> DEFINE q == (n + f - 1) \div f
           r == (n + f - 1) % f
<1>1. n + f - 1 \in Int /\ n + f - 1 >= 0
  OBVIOUS
<1>2. q \in Int /\ r \in 0 .. (f - 1) /\ n + f - 1 = f * q + r
  BY <1>1, DivMod
<1> HIDE DEF q, r
<1>3. f * q = q * f /\ (q - 1) * f = q * f - f
  BY <1>2
<1>4. (q - 1) * f < n /\ n <= q * f
  BY <1>2, <1>3
<1>5. q >= 0
  <2>1. SUFFICES ASSUME q <= -1 PROVE FALSE
    BY <1>2
  <2>2. q * f <= (-1) * f /\ (-1) * f = 0 - f /\ q * f \in Int
    BY <1>2, <2>1, TimesMonotone
  <2> HIDE DEF q
  <2> QED BY <1>4, <2>2
<1> QED BY <1>2, <1>4, <1>5 DEF DivCeil, q

\* What the assumptions say about a valid configuration.
LEMMA ConfigFacts ==
    ASSUME ConfigInv
    PROVE  /\ config.max_packet_size \in Nat
           /\ config.fragment_above \in Nat
           /\ config.max_fragments \in Nat
           /\ config.fragment_size \in Nat \ {0}
           /\ config.fragment_above <= config.max_packet_size
           /\ config.max_packet_size <= config.max_fragments * config.fragment_size
  BY ConfigsAssumption DEF ConfigInv, Validate

\* The fragment count of an accepted packet passes both of its tests.
LEMMA CountFits ==
    ASSUME ConfigInv, Coherent(config), NEW len \in 0 .. config.max_packet_size
    PROVE  /\ NumFragments(len) \in Nat
           /\ NumFragments(len) <= config.max_fragments
           /\ NumFragments(len) <= WireFragments
           /\ (NumFragments(len) - 1) * config.fragment_size < len
           /\ len <= NumFragments(len) * config.fragment_size
<1> DEFINE num == NumFragments(len)
           f == config.fragment_size
<1>1. len \in Nat /\ f \in Nat \ {0}
  BY ConfigFacts
<1>2. num \in Nat /\ (num - 1) * f < len /\ len <= num * f
  BY <1>1, DivCeilBounds DEF NumFragments
<1>3. /\ config.max_packet_size \in Nat /\ config.max_fragments \in Nat
      /\ WireFragments \in Nat
      /\ config.max_packet_size <= config.max_fragments * f
      /\ config.max_packet_size <= WireFragments * f
  BY ConfigFacts, HeaderAssumption DEF Coherent
<1>4. ASSUME NEW m \in Nat, config.max_packet_size <= m * f
      PROVE  num <= m
  <2>1. SUFFICES ASSUME m <= num - 1 PROVE FALSE
    BY <1>2
  <2>2. m * f <= (num - 1) * f
    BY <1>1, <1>2, <2>1, TimesMonotone
  <2>3. (num - 1) * f \in Int /\ m * f \in Int
    BY <1>1, <1>2
  <2> HIDE DEF num, f
  <2> QED BY <1>1, <1>2, <1>3, <1>4, <2>2, <2>3
<1>5. num <= config.max_fragments /\ num <= WireFragments
  BY <1>3, <1>4
<1> QED BY <1>2, <1>5

\* The bytes before chunk k and the chunk make up the bytes before the next.
LEMMA ChunkAdds ==
    ASSUME ConfigInv, Coherent(config), NEW len \in 0 .. config.max_packet_size,
           NEW k \in 1 .. NumFragments(len)
    PROVE  /\ ChunkSize(len, k) \in 1 .. config.fragment_size
           /\ Min2((k - 1) * config.fragment_size, len) + ChunkSize(len, k)
                = Min2(k * config.fragment_size, len)
<1> DEFINE num == NumFragments(len)
           f == config.fragment_size
           before == (k - 1) * f
<1>1. len \in Nat /\ f \in Nat \ {0} /\ num \in Nat /\ (num - 1) * f < len
  BY ConfigFacts, CountFits
<1>2. k \in Int /\ k - 1 \in Nat /\ k - 1 <= num - 1
  BY <1>1
<1>3. before <= (num - 1) * f
  BY <1>1, <1>2, TimesMonotone
<1>4. before \in Int /\ (num - 1) * f \in Int /\ k * f = before + f
  BY <1>1, <1>2
<1>5. before < len
  <2> HIDE DEF before, num, f
  <2> QED BY <1>1, <1>3, <1>4
<1>6. ChunkSize(len, k) = Min2(f, len - before)
  BY DEF ChunkSize
<1> HIDE DEF before, num
<1>7. /\ Min2(f, len - before) \in 1 .. f
      /\ Min2(before, len) + Min2(f, len - before) = Min2(before + f, len)
  BY <1>1, <1>4, <1>5 DEF Min2
<1> QED BY <1>4, <1>6, <1>7 DEF before

\* A fragment is written uncut and is within the receive limit.
LEMMA FragmentFits ==
    ASSUME ConfigInv, Coherent(config), NEW len \in 0 .. config.max_packet_size,
           len > config.fragment_above, NEW h \in HeaderSizes,
           NEW k \in 1 .. NumFragments(len)
    PROVE  /\ FragmentPacket(len, h, k).kind = "fragment"
           /\ FragmentPacket(len, h, k).num = NumFragments(len)
           /\ FragmentPacket(len, h, k).payload = ChunkSize(len, k)
           /\ ~TooLarge(FragmentPacket(len, h, k))
<1> DEFINE head == IF k = 1 THEN FragmentHeaderBytes + h ELSE FragmentHeaderBytes
           f == config.fragment_size
           size == ChunkSize(len, k)
<1>1. size \in 1 .. f
  BY ChunkAdds
<1>2. /\ f \in Nat /\ FragmentHeaderBytes \in Nat /\ MaxPacketHeaderBytes \in Nat
      /\ h \in Nat /\ h <= MaxPacketHeaderBytes /\ config.max_packet_size \in Nat
      /\ config.fragment_above \in Nat
  BY ConfigFacts, HeaderAssumption
<1>3. f + FragmentHeaderBytes <= config.max_packet_size
  BY <1>2 DEF Coherent
<1>4. head \in Nat /\ head <= FragmentHeaderBytes + MaxPacketHeaderBytes
  BY <1>2
<1>5. FragmentPacket(len, h, k) =
          [kind |-> "fragment", num |-> NumFragments(len), header |-> head,
           payload |-> Min2(size, SaturatingSub(MaxDatagramSize(config), head))]
  BY DEF FragmentPacket, Written
<1> HIDE DEF head, size
<1>6. Min2(size, SaturatingSub(MaxDatagramSize(config), head)) = size
  BY <1>1, <1>2, <1>4 DEF Min2, SaturatingSub, MaxDatagramSize
<1>7. ~(head + size > config.max_packet_size + MaxPacketHeaderBytes)
  BY <1>1, <1>2, <1>3, <1>4
<1> QED BY <1>5, <1>6, <1>7 DEF TooLarge, DatagramSize, size

\* The slab keeps the length of a chunk as it is.
LEMMA StoredWhole ==
    ASSUME ConfigInv, Coherent(config), NEW len \in 0 .. config.max_packet_size,
           len > config.fragment_above, NEW d, d.payload \in 1 .. config.fragment_size
    PROVE  StoredLength(d) = d.payload
<1> DEFINE x == d.payload
<1>1. config.max_packet_size \in Nat /\ config.fragment_above \in Nat
      /\ config.fragment_size \in Nat /\ LengthMod \in Nat \ {0}
  BY ConfigFacts, HeaderAssumption
<1>2. config.fragment_size < LengthMod
  BY <1>1 DEF Coherent
<1>3. x \in 1 .. config.fragment_size
  OBVIOUS
<1> HIDE DEF x
<1>4. Min2(x, config.fragment_size) = x
  BY <1>1, <1>3 DEF Min2
<1>5. x \in Nat /\ x < LengthMod
  BY <1>1, <1>2, <1>3
<1>6. \A n \in Nat \ {0}, y \in Nat : y < n => y % n = y
  OBVIOUS
<1>7. x % LengthMod = x
  BY <1>1, <1>5, <1>6
<1> QED BY <1>4, <1>7 DEF StoredLength, x

\* A packet that is not fragmented is written uncut and is within the limit.
LEMMA RegularFits ==
    ASSUME ConfigInv, Coherent(config), NEW len \in 0 .. config.max_packet_size,
           len <= config.fragment_above, NEW h \in HeaderSizes
    PROVE  /\ RegularPacket(len, h).kind = "packet"
           /\ RegularPacket(len, h).payload = len
           /\ ~TooLarge(RegularPacket(len, h))
<1>1. /\ config.fragment_size \in Nat /\ FragmentHeaderBytes \in Nat
      /\ MaxPacketHeaderBytes \in Nat /\ config.max_packet_size \in Nat
      /\ config.fragment_above \in Nat
      /\ h \in Nat /\ h <= MaxPacketHeaderBytes /\ len \in Nat
      /\ len <= config.max_packet_size
      /\ len <= config.fragment_size + FragmentHeaderBytes
  BY ConfigFacts, HeaderAssumption DEF Coherent
<1>2. RegularPacket(len, h) =
          [kind |-> "packet", num |-> 0, header |-> h,
           payload |-> Min2(len, SaturatingSub(MaxDatagramSize(config), h))]
  BY DEF RegularPacket, Written
<1>3. Min2(len, SaturatingSub(MaxDatagramSize(config), h)) = len
  BY <1>1 DEF Min2, SaturatingSub, MaxDatagramSize
<1> QED BY <1>1, <1>2, <1>3 DEF TooLarge, DatagramSize

\* The invariant holds for a new endpoint.
LEMMA InitInv == Init => Inv
  BY DEF Init, Inv, ConfigInv, NothingMissing

\* send_packet() turns a packet into datagrams that hold all of it.
LEMMA SendKeepsInv ==
    ASSUME Inv, NEW len \in 0 .. config.max_packet_size, NEW h \in HeaderSizes,
           sent = NotSent, SendPacket(len, h)
    PROVE  Inv'
<1>1. config' = config /\ ConfigInv /\ ConfigInv'
  BY DEF SendPacket, Inv, ConfigInv
<1>2. SUFFICES ASSUME Coherent(config) PROVE InTransit'
  BY <1>1 DEF Inv, NothingMissing
<1>3. /\ sent = NotSent /\ sent' = len
      /\ arrived' = arrived /\ collected' = collected
  BY DEF SendPacket
<1>4. arrived = 0 /\ collected = 0
  BY <1>2, <1>3, ConfigFacts, <1>1 DEF Inv, NothingMissing, InTransit, NotSent
<1>5. len \in Nat /\ config.fragment_above \in Nat
  BY <1>1, ConfigFacts
<1>6. CASE len <= config.fragment_above
  <2>1. outgoing' = <<RegularPacket(len, h)>>
    BY <1>5, <1>6 DEF SendPacket
  <2>2. RegularPacket(len, h)' = RegularPacket(len, h)
    BY <1>1 DEF RegularPacket, Written, MaxDatagramSize
  <2> QED BY <1>1, <1>3, <1>6, <2>1, <2>2
      DEF InTransit, RegularPacket, Written, MaxDatagramSize
<1>7. CASE len > config.fragment_above
  <2> DEFINE num == NumFragments(len)
  <2>1. num \in Nat /\ num <= config.max_fragments /\ num <= WireFragments
    BY <1>1, <1>2, CountFits
  <2>2. /\ config.max_fragments \in Nat /\ WireFragments \in Nat
        /\ config.fragment_size \in Nat
    BY <1>1, ConfigFacts, HeaderAssumption
  <2>3. outgoing' = [k \in 1 .. num |-> FragmentPacket(len, h, k)]
    BY <1>5, <1>7, <2>1, <2>2 DEF SendPacket, FragmentPackets
  <2>4. [k \in 1 .. num |-> FragmentPacket(len, h, k)]
          = [j \in 1 .. (num - 0) |-> FragmentPacket(len, h, 0 + j)]
    BY <2>1
  <2>5. 0 * config.fragment_size = 0 /\ Min2(0, len) = 0
    BY <1>5, <2>2 DEF Min2
  <2>6. num # 0
    <3>1. len <= num * config.fragment_size
      BY <1>1, <1>2, CountFits
    <3> QED BY <1>5, <1>7, <2>2, <2>5, <3>1
  <2> QED
    BY <1>1, <1>3, <1>4, <1>7, <2>1, <2>3, <2>4, <2>5, <2>6
    DEF InTransit, NumFragments, FragmentPacket, Written, MaxDatagramSize, ChunkSize
<1> QED BY <1>5, <1>6, <1>7

\* The first element of a non-empty sequence given as a function, and the rest.
LEMMA HeadAndTail ==
    ASSUME NEW n \in Nat \ {0}, NEW S, NEW s \in [1 .. n -> S]
    PROVE  Head(s) = s[1] /\ Tail(s) = [j \in 1 .. (n - 1) |-> s[j + 1]]
<1>1. s \in Seq(S) /\ Len(s) = n
  OBVIOUS
<1>2. Head(s) = s[1]
  BY <1>1
<1>3. Tail(s) \in Seq(S) /\ Len(Tail(s)) = n - 1
  BY <1>1
<1>4. \A j \in 1 .. (n - 1) : Tail(s)[j] = s[j + 1]
  BY <1>1
<1> DEFINE t == Tail(s)
           u == [j \in 1 .. (n - 1) |-> s[j + 1]]
<1>5. t \in [1 .. (n - 1) -> S]
  <2> HIDE DEF t
  <2>1. t \in Seq(S) /\ Len(t) = n - 1
    BY <1>3 DEF t
  <2>2. \A q \in Seq(S) : q \in [1 .. Len(q) -> S]
    OBVIOUS
  <2> QED BY <2>1, <2>2
<1>6. u \in [1 .. (n - 1) -> S] /\ \A j \in 1 .. (n - 1) : t[j] = u[j]
  BY <1>4
<1>7. t = u
  <2> HIDE DEF t, u
  <2> QED BY <1>5, <1>6
<1> QED BY <1>2, <1>7

\* receive_packet() takes a datagram without losing any of it.
LEMMA ReceiveKeepsInv ==
    ASSUME Inv, ReceivePacket
    PROVE  Inv'
<1>1. config' = config /\ sent' = sent /\ ConfigInv /\ ConfigInv'
  BY DEF ReceivePacket, Inv, ConfigInv
<1>2. SUFFICES ASSUME Coherent(config) PROVE InTransit'
  BY <1>1 DEF Inv, NothingMissing
<1>3. outgoing # << >> /\ InTransit /\ outgoing' = Tail(outgoing)
  BY <1>2 DEF ReceivePacket, Inv, NothingMissing
<1>4. sent \in 0 .. config.max_packet_size
  BY <1>3 DEF InTransit
<1>5. sent \in Nat /\ config.fragment_above \in Nat /\ config.max_packet_size \in Nat
  BY <1>1, <1>4, ConfigFacts
<1>6. CASE sent <= config.fragment_above
  <2>1. PICK h \in HeaderSizes : outgoing = <<RegularPacket(sent, h)>>
    BY <1>3, <1>5, <1>6 DEF InTransit
  <2> DEFINE d == RegularPacket(sent, h)
  <2>2. d.kind = "packet" /\ d.payload = sent /\ ~TooLarge(d)
    BY <1>1, <1>2, <1>4, <1>6, RegularFits
  <2>3. Head(outgoing) = d /\ Tail(outgoing) = << >>
    BY <2>1
  <2> HIDE DEF d
  <2>4. delivered' = Min2(sent, config.max_packet_size)
    BY <2>2, <2>3 DEF ReceivePacket, ReceiveTooLarge, ReceiveRegular, ReceiveFragment
  <2>5. delivered' = sent
    BY <1>4, <1>5, <2>4 DEF Min2
  <2> QED BY <1>1, <1>3, <1>4, <1>6, <2>3, <2>5 DEF InTransit
<1>7. CASE sent > config.fragment_above
  <2> DEFINE num == NumFragments(sent)
             f == config.fragment_size
             P(h, k) == FragmentPacket(sent, h, k)
  <2>1. num \in Nat /\ arrived \in 0 .. num /\ f \in Nat \ {0}
        /\ sent <= num * f
    <3>1. num \in Nat /\ sent <= num * f
      BY <1>1, <1>2, <1>4, CountFits
    <3>2. arrived \in 0 .. num
      BY <1>3, <1>5, <1>7 DEF InTransit
    <3>3. f \in Nat \ {0}
      BY <1>1, ConfigFacts
    <3> QED BY <3>1, <3>2, <3>3
  <2>2. collected = Min2(arrived * f, sent)
    BY <1>3, <1>5, <1>7 DEF InTransit
  <2>3. PICK h \in HeaderSizes :
           outgoing = [j \in 1 .. (num - arrived) |-> P(h, arrived + j)]
    BY <1>3, <1>5, <1>7 DEF InTransit
  <2>4. num - arrived \in Nat \ {0} /\ arrived + 1 \in 1 .. num
    BY <1>3, <2>1, <2>3
  <2>5. /\ Head(outgoing) = P(h, arrived + 1)
        /\ Tail(outgoing) = [j \in 1 .. (num - arrived - 1) |-> P(h, arrived + (j + 1))]
    <3> DEFINE S == {P(h, arrived + j) : j \in 1 .. (num - arrived)}
    <3>1. outgoing \in [1 .. (num - arrived) -> S]
      BY <2>3
    <3>2. /\ Head(outgoing) = outgoing[1]
          /\ Tail(outgoing) = [j \in 1 .. (num - arrived - 1) |-> outgoing[j + 1]]
      BY <2>4, <3>1, HeadAndTail
    <3>3. 1 \in 1 .. (num - arrived)
          /\ \A j \in 1 .. (num - arrived - 1) : j + 1 \in 1 .. (num - arrived)
      BY <2>4
    <3> HIDE DEF P, num
    <3> QED BY <2>3, <3>2, <3>3
  <2>6. [j \in 1 .. (num - arrived - 1) |-> P(h, arrived + (j + 1))]
          = [j \in 1 .. (num - (arrived + 1)) |-> P(h, (arrived + 1) + j)]
    BY <2>1
  <2> DEFINE d == P(h, arrived + 1)
             size == ChunkSize(sent, arrived + 1)
  <2>7. d.kind = "fragment" /\ d.num = num /\ d.payload = size /\ ~TooLarge(d)
    BY <1>1, <1>2, <1>4, <1>7, <2>4, FragmentFits
  <2>8. /\ size \in 1 .. f
        /\ Min2(arrived * f, sent) + size = Min2((arrived + 1) * f, sent)
    <3>1. (arrived + 1) - 1 = arrived
      BY <2>1
    <3> QED BY <1>1, <1>2, <1>4, <2>4, <3>1, ChunkAdds
  <2> HIDE DEF d, size
  <2>9. /\ arrived' = arrived + 1
        /\ collected' = collected + StoredLength(d)
        /\ delivered' = IF arrived' = num THEN collected' ELSE delivered
    <3>1. ReceiveFragment(d)
      BY <2>5, <2>7 DEF ReceivePacket, ReceiveTooLarge, ReceiveRegular, d
    <3> QED BY <2>7, <3>1 DEF ReceiveFragment
  <2>10. StoredLength(d) = size
    BY <1>1, <1>2, <1>4, <1>7, <2>7, <2>8, StoredWhole
  <2>11. collected' = Min2((arrived + 1) * f, sent)
    BY <2>2, <2>8, <2>9, <2>10
  <2>12. arrived' = num => delivered' = sent
    <3>1. num * f \in Int
      BY <2>1
    <3> HIDE DEF num, f
    <3>2. Min2(num * f, sent) = sent
      BY <1>5, <2>1, <3>1 DEF Min2
    <3> QED BY <2>9, <2>11, <3>2
  <2>13. outgoing' = [j \in 1 .. (num - arrived') |-> P(h, arrived' + j)]
    BY <1>3, <2>5, <2>6, <2>9
  <2> QED
    BY <1>1, <1>4, <1>7, <2>4, <2>9, <2>11, <2>12, <2>13
    DEF InTransit, NumFragments, FragmentPacket, Written, MaxDatagramSize, ChunkSize
<1> QED BY <1>5, <1>6, <1>7

\* Inv holds in every state.
LEMMA Inductive == Spec => []Inv
<1>1. Inv /\ [Next]_vars => Inv'
  <2> SUFFICES ASSUME Inv, [Next]_vars PROVE Inv'
    OBVIOUS
  <2>1. CASE UNCHANGED vars
    BY <2>1 DEF Inv, ConfigInv, NothingMissing, InTransit, vars, RegularPacket,
                FragmentPacket, Written, MaxDatagramSize, ChunkSize, NumFragments
  <2>2. CASE /\ sent = NotSent
             /\ \E len \in 0 .. config.max_packet_size, h \in HeaderSizes : SendPacket(len, h)
    BY <2>2, SendKeepsInv
  <2>3. CASE ReceivePacket
    BY <2>3, ReceiveKeepsInv
  <2> QED BY <2>1, <2>2, <2>3 DEF Next
<1> QED BY InitInv, <1>1, PTL DEF Spec

\* In every valid configuration that is coherent, so that in particular a u16 holds
\* the length of a full fragment, no byte of an accepted packet goes missing on its
\* way: at every moment what has arrived and what is still to come make up the packet.
THEOREM NoByteMissing == Spec => []NothingMissing
<1>1. Inv => NothingMissing
  BY DEF Inv
<1> QED BY <1>1, Inductive, PTL

\* In every valid and coherent configuration a packet that send_packet accepts
\* arrives whole.
THEOREM AcceptedPacketsArriveWhole == Spec => []CoherentArrivesWhole
<1>1. Inv => CoherentArrivesWhole
  <2> SUFFICES ASSUME Inv, Coherent(config), Arrived PROVE delivered = sent
    BY DEF Inv, CoherentArrivesWhole, AcceptedArrivesWhole
  <2>1. InTransit /\ outgoing = << >> /\ ConfigInv
    BY DEF Inv, NothingMissing, Arrived
  <2>2. sent \in 0 .. config.max_packet_size /\ config.fragment_above \in Nat
    BY <2>1, ConfigFacts DEF InTransit
  <2>3. CASE sent <= config.fragment_above
    BY <2>1, <2>2, <2>3 DEF InTransit
  <2>4. CASE sent > config.fragment_above
    <3>1. NumFragments(sent) \in Nat /\ arrived \in 0 .. NumFragments(sent)
      BY <2>1, <2>2, <2>4, CountFits DEF InTransit
    <3>2. NumFragments(sent) - arrived = 0
      BY <2>1, <2>2, <2>4, <3>1 DEF InTransit
    <3> QED BY <2>1, <2>2, <2>4, <3>1, <3>2 DEF InTransit
  <2> QED BY <2>2, <2>3, <2>4
<1> QED BY <1>1, Inductive, PTL

--------------------------------------------------------------------------------

\* What send_packet() puts into the queue is a datagram, in any configuration.
LEMMA WrittenTyped ==
    ASSUME ConfigInv, NEW kind \in {"packet", "fragment"}, NEW num \in 0 .. WireFragments,
           NEW header \in Nat, NEW len \in Nat
    PROVE  Written(kind, num, header, len) \in Datagram
<1>1. MaxDatagramSize(config) \in Nat
  BY ConfigFacts, HeaderAssumption DEF MaxDatagramSize
<1>2. Min2(len, SaturatingSub(MaxDatagramSize(config), header)) \in Nat
  BY <1>1 DEF Min2, SaturatingSub
<1> QED BY <1>2 DEF Written, Datagram

\* The sizes and counts stay natural numbers and a fragment count stays a byte, in
\* every valid configuration, coherent or not.
THEOREM WireSizesTypes == Spec => []TypeOK
<1> DEFINE TInv == ConfigInv /\ TypeOK
<1>1. Init => TInv
  BY DEF Init, ConfigInv, TypeOK
<1>2. TInv /\ [Next]_vars => TInv'
  <2> SUFFICES ASSUME ConfigInv, TypeOK, [Next]_vars
               PROVE  TInv'
    OBVIOUS
  <2>1. CASE UNCHANGED vars
    BY <2>1 DEF ConfigInv, TypeOK, vars
  <2>2. ASSUME NEW len \in 0 .. config.max_packet_size, NEW h \in HeaderSizes,
               SendPacket(len, h)
        PROVE  TInv'
    <3>1. len \in Nat /\ h \in Nat /\ config.fragment_size \in Nat \ {0} /\ 0 \in 0 .. WireFragments
      BY ConfigFacts, HeaderAssumption
    <3>2. <<RegularPacket(len, h)>> \in Seq(Datagram)
      BY <3>1, WrittenTyped DEF RegularPacket
    <3>3. FragmentPackets(len, h) \in Seq(Datagram)
      <4> DEFINE num == NumFragments(len)
                 f == config.fragment_size
      <4>1. num \in Nat /\ (num - 1) * f < len
        BY <3>1, DivCeilBounds DEF NumFragments
      <4>2. CASE num > config.max_fragments \/ num > WireFragments
        BY <4>2 DEF FragmentPackets
      <4>3. CASE ~(num > config.max_fragments \/ num > WireFragments)
        <5>1. num \in 0 .. WireFragments
          BY <4>1, <4>3, HeaderAssumption
        <5>2. ASSUME NEW k \in 1 .. num
              PROVE  FragmentPacket(len, h, k) \in Datagram
          <6>1. ChunkSize(len, k) \in Nat
            <7>1. (k - 1) * f <= (num - 1) * f
              BY <3>1, <4>1, TimesMonotone
            <7>2. (k - 1) * f \in Int /\ (num - 1) * f \in Int
              BY <3>1, <4>1
            <7> DEFINE x == (k - 1) * f
                       y == (num - 1) * f
            <7> HIDE DEF x, y
            <7>3. x <= y /\ x \in Int /\ y \in Int /\ y < len
              BY <4>1, <7>1, <7>2 DEF x, y
            <7>4. Min2(f, len - x) \in Nat
              BY <3>1, <7>3 DEF Min2
            <7> QED BY <7>4 DEF ChunkSize, x
          <6>2. (IF k = 1 THEN FragmentHeaderBytes + h ELSE FragmentHeaderBytes) \in Nat
            BY <3>1, HeaderAssumption
          <6> QED BY <5>1, <6>1, <6>2, WrittenTyped DEF FragmentPacket
        <5>3. FragmentPackets(len, h) = [k \in 1 .. num |-> FragmentPacket(len, h, k)]
          BY <4>3 DEF FragmentPackets
        <5> HIDE DEF num
        <5>4. [k \in 1 .. num |-> FragmentPacket(len, h, k)] \in [1 .. num -> Datagram]
          BY <5>2
        <5> QED BY <4>1, <5>3, <5>4, SeqDef
      <4> QED BY <4>2, <4>3
    <3>4. outgoing' \in Seq(Datagram)
      BY <2>2, <3>2, <3>3 DEF SendPacket
    <3> QED BY <2>2, <3>1, <3>4 DEF SendPacket, ConfigInv, TypeOK
  <2>3. CASE ReceivePacket
    <3> DEFINE d == Head(outgoing)
    <3>1. /\ outgoing \in Seq(Datagram) /\ outgoing # << >>
          /\ config' = config /\ sent' = sent /\ outgoing' = Tail(outgoing)
      BY <2>3 DEF ReceivePacket, TypeOK
    <3>2. d \in Datagram /\ outgoing' \in Seq(Datagram)
      BY <3>1, HeadTailProperties
    <3>3. d.payload \in Nat /\ config.max_packet_size \in Nat /\ config.fragment_size \in Nat
      BY <3>2, ConfigFacts DEF Datagram
    <3> HIDE DEF d
    <3>4. /\ Min2(d.payload, config.max_packet_size) \in Nat
          /\ StoredLength(d) \in Nat
      <4>1. /\ Min2(d.payload, config.max_packet_size) \in Nat
            /\ Min2(d.payload, config.fragment_size) \in Nat
        BY <3>3 DEF Min2
      <4>2. \A x \in Nat : x % LengthMod \in Nat
        BY DivMod, HeaderAssumption
      <4> QED BY <4>1, <4>2 DEF StoredLength
    <3>5. arrived \in Nat /\ collected \in Nat /\ delivered \in Nat
      BY DEF TypeOK
    <3>6. arrived' \in Nat /\ collected' \in Nat /\ delivered' \in Nat
      <4>1. CASE ReceiveTooLarge(d)
        BY <3>5, <4>1 DEF ReceiveTooLarge
      <4>2. CASE ReceiveRegular(d)
        BY <3>4, <3>5, <4>2 DEF ReceiveRegular
      <4>3. CASE ReceiveFragment(d)
        BY <3>4, <3>5, <4>3 DEF ReceiveFragment
      <4> QED BY <2>3, <4>1, <4>2, <4>3 DEF ReceivePacket, d
    <3> QED BY <3>1, <3>2, <3>6 DEF ConfigInv, TypeOK
  <2> QED BY <2>1, <2>2, <2>3 DEF Next
<1>3. TInv => TypeOK
  OBVIOUS
<1> QED BY <1>1, <1>2, <1>3, PTL DEF Spec

================================================================================
