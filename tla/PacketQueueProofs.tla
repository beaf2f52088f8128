--------------------------- MODULE PacketQueueProofs ---------------------------
(***************************************************************************)
(* The ring of PacketQueue implements a bounded FIFO, for every capacity   *)
(* that divides the range of the positions (both are powers of two).       *)
(*                                                                         *)
(* The invariant is TypeOK and PositionsAgree: head is count positions     *)
(* after tail.  A write then goes to the slot of position tail + count,    *)
(* which is less than Capacity positions from every position in use and    *)
(* so differs from their slots: it extends the contents and overwrites     *)
(* none of them.                                                           *)
(***************************************************************************)
EXTENDS PacketQueue, Integers, TLAPS

--------------------------------------------------------------------------------
(* What the proofs need to know of % beyond linear arithmetic *)

\* Division with remainder, as the provers need it.
LEMMA DivMod ==
    \A x \in Int, n \in Nat \ {0} :
        /\ x \div n \in Int
        /\ x % n \in 0 .. (n - 1)
        /\ x = n * (x \div n) + (x % n)
  OBVIOUS

\* A remainder is unique.
LEMMA ModUnique ==
    \A q \in Int, r \in Int, n \in Nat \ {0} :
        0 <= r /\ r < n => (q * n + r) % n = r
  OBVIOUS

\* Adding a multiple of the divisor does not change the remainder.
LEMMA ModShift ==
    ASSUME NEW x \in Int, NEW k \in Int, NEW n \in Nat \ {0}
    PROVE  (x + k * n) % n = x % n
<1> DEFINE q == x \div n
           r == x % n
<1>1. q \in Int /\ r \in Int /\ 0 <= r /\ r < n /\ x = n * q + r
  BY DivMod
<1> HIDE DEF q, r
<1>2. x + k * n = (q + k) * n + r
  BY <1>1
<1>3. ((q + k) * n + r) % n = r
  BY <1>1, ModUnique
<1>4. r = x % n
  BY DEF r
<1> QED BY <1>2, <1>3, <1>4

\* Numbers less than n apart have different remainders.
LEMMA ModInjective ==
    ASSUME NEW x \in Int, NEW y \in Int, NEW n \in Nat \ {0},
           y <= x, x - y < n, x % n = y % n
    PROVE  x = y
<1> DEFINE q1 == x \div n
           q2 == y \div n
           r == x % n
<1>1. /\ q1 \in Int /\ q2 \in Int /\ r \in Int
      /\ x = n * q1 + r /\ y = n * q2 + r
  BY DivMod
<1> HIDE DEF q1, q2, r
<1>2. x - y = n * (q1 - q2)
  BY <1>1
<1>3. CASE q1 = q2
  BY <1>1, <1>3
<1>4. CASE q1 < q2
  BY <1>1, <1>2, <1>4
<1>5. CASE q1 > q2
  BY <1>1, <1>2, <1>5
<1> QED BY <1>1, <1>3, <1>4, <1>5

\* Taking a remainder first by a multiple of n does not change the remainder
\* by n.
LEMMA ModMod ==
    ASSUME NEW x \in Int, NEW n \in Nat \ {0}, NEW m \in Nat \ {0}, m % n = 0
    PROVE  (x % m) % n = x % n
<1> DEFINE q == x \div m
           k == m \div n
           r == x % m
<1>1. q \in Int /\ k \in Int /\ r \in Int /\ x = m * q + r /\ m = n * k
  BY DivMod
<1> HIDE DEF q, k, r
<1>2. r + (k * q) * n = x
  BY <1>1
<1>3. (r + (k * q) * n) % n = r % n
  <2>1. r \in Int /\ (k * q) \in Int /\ n \in Nat \ {0}
    BY <1>1
  <2> QED BY ONLY <2>1, ModShift, Zenon
<1>4. r = x % m
  BY DEF r
<1> QED BY <1>2, <1>3, <1>4

\* Reducing a summand first does not change a sum's remainder.
LEMMA ModAdd ==
    ASSUME NEW x \in Int, NEW y \in Int, NEW m \in Nat \ {0}
    PROVE  ((x % m) + y) % m = (x + y) % m
<1> DEFINE q == x \div m
           r == x % m
<1>1. q \in Int /\ r \in Int /\ x = m * q + r
  BY DivMod
<1> HIDE DEF q, r
<1>2. (r + y) + q * m = x + y
  BY <1>1
<1>3. ((r + y) + q * m) % m = (r + y) % m
  <2>1. (r + y) \in Int /\ q \in Int /\ m \in Nat \ {0}
    BY <1>1
  <2> QED BY ONLY <2>1, ModShift, Zenon
<1>4. r = x % m
  BY DEF r
<1> QED BY <1>2, <1>3, <1>4

--------------------------------------------------------------------------------

\* A function that agrees with f on 1..n and has one value more is f with
\* that value appended.
LEMMA OneMoreIsAppend ==
    ASSUME NEW S, NEW n \in Nat, NEW f \in [1 .. n -> S],
           NEW g \in [1 .. (n + 1) -> S], \A k \in 1 .. n : g[k] = f[k]
    PROVE  f \in Seq(S) /\ Len(f) = n /\ g = Append(f, g[n + 1])
  OBVIOUS

\* The slot of a wrapped position is the slot of the position.
LEMMA SlotOfSum ==
    ASSUME NEW a \in Nat, NEW b \in Nat
    PROVE  /\ SlotOf(UsizeAdd(a, b)) = (a + b) % Capacity
           /\ SlotOf(UsizeAdd(a, b)) \in 0 .. (Capacity - 1)
           /\ UsizeAdd(a, b) \in 0 .. (UsizeMod - 1)
<1>1. (a + b) \in Int /\ Capacity \in Nat \ {0} /\ UsizeMod \in Nat \ {0}
  BY CapacityAssumption
<1>2. ((a + b) % UsizeMod) % Capacity = (a + b) % Capacity
  BY ONLY <1>1, ModMod, CapacityAssumption, Zenon
<1>3. /\ (a + b) % Capacity \in 0 .. (Capacity - 1)
      /\ (a + b) % UsizeMod \in 0 .. (UsizeMod - 1)
  BY ONLY <1>1, DivMod, Zenon
<1> QED BY <1>2, <1>3 DEF SlotOf, UsizeAdd

\* wrapping_add is associative.
LEMMA UsizeAddAssoc ==
    ASSUME NEW a \in Nat, NEW b \in Nat
    PROVE  UsizeAdd(UsizeAdd(a, b), 1) = UsizeAdd(a, b + 1)
<1>1. (a + b) \in Int /\ 1 \in Int /\ UsizeMod \in Nat \ {0}
  BY CapacityAssumption
<1>2. (((a + b) % UsizeMod) + 1) % UsizeMod = ((a + b) + 1) % UsizeMod
  BY ONLY <1>1, ModAdd, Zenon
<1>3. (a + b) + 1 = a + (b + 1)
  OBVIOUS
<1> QED BY <1>2, <1>3 DEF UsizeAdd

\* Adding nothing to a position leaves it.
LEMMA UsizeAddZero ==
    ASSUME NEW a \in 0 .. (UsizeMod - 1)
    PROVE  UsizeAdd(a, 0) = a
<1>1. 0 \in Int /\ a \in Int /\ UsizeMod \in Nat \ {0} /\ 0 <= a /\ a < UsizeMod
  BY CapacityAssumption
<1>2. (0 * UsizeMod + a) % UsizeMod = a
  BY ONLY <1>1, ModUnique, Zenon
<1>3. 0 * UsizeMod + a = a + 0
  BY <1>1
<1> QED BY <1>2, <1>3 DEF UsizeAdd

--------------------------------------------------------------------------------

\* The inductive invariant.
Inv == TypeOK /\ PositionsAgree

\* The contents are a sequence of count packets.
LEMMA ContentsType ==
    ASSUME TypeOK
    PROVE  /\ Contents \in [1 .. count -> Packets]
           /\ Contents \in Seq(Packets)
           /\ Len(Contents) = count
<1>1. tail \in Nat /\ count \in Nat /\ slots \in [0 .. (Capacity - 1) -> Packets]
  BY CapacityAssumption DEF TypeOK
<1>2. ASSUME NEW k \in 1 .. count
      PROVE  slots[SlotOf(UsizeAdd(tail, k - 1))] \in Packets
  <2>1. k - 1 \in Nat
    BY <1>1
  <2>2. SlotOf(UsizeAdd(tail, k - 1)) \in 0 .. (Capacity - 1)
    BY ONLY <1>1, <2>1, SlotOfSum, Zenon
  <2> QED BY <1>1, <2>2
<1>3. Contents \in [1 .. count -> Packets]
  BY <1>2 DEF Contents
<1> HIDE DEF Packets
<1> QED BY <1>1, <1>3

\* A write keeps the invariant and appends exactly its packet, or nothing when
\* the queue is full.
LEMMA WriteSlotAppends ==
    ASSUME NEW p \in Packets, Inv, WriteSlot(p)
    PROVE  Inv' /\ Fifo!Write(p)
<1>0. /\ slots \in [0 .. (Capacity - 1) -> Packets]
      /\ head \in Nat /\ tail \in Nat /\ count \in Nat /\ Capacity \in Nat
      /\ tail \in 0 .. (UsizeMod - 1)
      /\ head = UsizeAdd(tail, count)
      /\ count \in 0 .. Capacity
      /\ ok \in BOOLEAN /\ out \in Seq(Packets)
  BY CapacityAssumption DEF Inv, TypeOK, PositionsAgree
<1>1. Len(Contents) = count /\ Contents \in [1 .. count -> Packets]
  BY ContentsType DEF Inv
<1>2. CASE count >= Capacity
  <2>1. ok' = FALSE /\ UNCHANGED <<slots, head, count, tail, out>>
    BY <1>2 DEF WriteSlot
  <2>2. Contents' = Contents
    BY <2>1 DEF Contents
  <2>3. Inv'
    BY <2>1 DEF Inv, TypeOK, PositionsAgree
  <2>4. Len(Contents) >= Capacity
    BY <1>1, <1>2
  <2> QED BY <2>1, <2>2, <2>3, <2>4 DEF Fifo!Write
<1>3. CASE ~(count >= Capacity)
  <2>1. /\ ok' = TRUE /\ UNCHANGED <<tail, out>>
        /\ slots' = [slots EXCEPT ![SlotOf(head)] = p]
        /\ head' = UsizeAdd(head, 1)
        /\ count' = count + 1
    BY <1>3 DEF WriteSlot
  <2>2. SlotOf(head) = (tail + count) % Capacity /\ SlotOf(head) \in 0 .. (Capacity - 1)
    BY ONLY <1>0, SlotOfSum, Zenon
  <2>3. head' = UsizeAdd(tail, count + 1) /\ head' \in 0 .. (UsizeMod - 1)
    <3>1. head' = UsizeAdd(tail, count + 1)
      BY <1>0, <2>1, UsizeAddAssoc
    <3>2. tail \in Nat /\ count + 1 \in Nat
      BY <1>0
    <3> QED BY <3>1, <3>2, SlotOfSum
  <2>4. Inv'
    BY <1>0, <1>3, <2>1, <2>2, <2>3 DEF Inv, TypeOK, PositionsAgree
  <2>5. ASSUME NEW k \in 1 .. count
        PROVE  Contents'[k] = Contents[k]
    <3>1. k - 1 \in Nat /\ k \in 1 .. (count + 1)
      BY <1>0
    <3>2. /\ SlotOf(UsizeAdd(tail, k - 1)) = (tail + (k - 1)) % Capacity
          /\ SlotOf(UsizeAdd(tail, k - 1)) \in 0 .. (Capacity - 1)
      BY ONLY <1>0, <3>1, SlotOfSum, Zenon
    <3>3. SlotOf(UsizeAdd(tail, k - 1)) # SlotOf(head)
      <4>1. SUFFICES ASSUME (tail + (k - 1)) % Capacity = (tail + count) % Capacity
                     PROVE  FALSE
        BY <2>2, <3>2
      <4>2. /\ tail + (k - 1) \in Int /\ tail + count \in Int
            /\ Capacity \in Nat \ {0}
            /\ tail + (k - 1) <= tail + count
            /\ (tail + count) - (tail + (k - 1)) < Capacity
        BY <1>0, <1>3, CapacityAssumption
      <4>3. tail + count = tail + (k - 1)
        BY ONLY <4>1, <4>2, ModInjective, Zenon
      <4> QED BY <1>0, <4>3
    <3>4. slots'[SlotOf(UsizeAdd(tail, k - 1))] = slots[SlotOf(UsizeAdd(tail, k - 1))]
      BY <1>0, <2>1, <3>2, <3>3
    <3>5. Contents[k] = slots[SlotOf(UsizeAdd(tail, k - 1))]
      BY DEF Contents
    <3>6. Contents'[k] = slots'[SlotOf(UsizeAdd(tail, k - 1))]
      BY <2>1, <3>1 DEF Contents, SlotOf, UsizeAdd
    <3> QED BY <3>4, <3>5, <3>6
  <2>6. Contents'[count + 1] = p
    <3>1. count + 1 \in 1 .. (count + 1) /\ (count + 1) - 1 = count
      BY <1>0
    <3>2. Contents'[count + 1] = slots'[SlotOf(UsizeAdd(tail, count))]
      BY <2>1, <3>1 DEF Contents, SlotOf, UsizeAdd
    <3> QED BY <1>0, <2>1, <2>2, <3>2
  <2>7. Contents' \in [1 .. (count + 1) -> Packets]
    <3>1. Contents' = [k \in 1 .. (count + 1) |-> slots'[SlotOf(UsizeAdd(tail, k - 1))]]
      BY <2>1 DEF Contents, SlotOf, UsizeAdd
    <3>2. \A k \in 1 .. (count + 1) : k \in 1 .. count \/ k = count + 1
      BY <1>0
    <3>3. \A k \in 1 .. (count + 1) : Contents'[k] \in Packets
      BY <1>1, <2>5, <2>6, <3>2
    <3> HIDE DEF Packets
    <3> QED BY <3>1, <3>3
  <2>8. Contents' = Append(Contents, p)
    BY <1>0, <1>1, <2>5, <2>6, <2>7, OneMoreIsAppend
  <2>9. Len(Contents) < Capacity
    BY <1>0, <1>1, <1>3
  <2> QED BY <2>1, <2>4, <2>8, <2>9 DEF Fifo!Write
<1> QED BY <1>2, <1>3

--------------------------------------------------------------------------------

\* The initial queue is the empty FIFO.
LEMMA InitEmpty == Init => Inv /\ Fifo!Init
<1> SUFFICES ASSUME Init PROVE Inv /\ Fifo!Init
  OBVIOUS
<1>1. head = 0 /\ tail = 0 /\ count = 0 /\ ok = TRUE /\ out = << >>
  BY DEF Init
<1>2. slots \in [0 .. (Capacity - 1) -> Packets]
  BY SlotAssumption DEF Init, Packets
<1>3. UsizeAdd(0, 0) = 0
  BY UsizeAddZero, CapacityAssumption
<1>4. Contents = << >>
  BY <1>1 DEF Contents
<1>5. << >> \in Seq(Packets)
  OBVIOUS
<1> QED BY <1>1, <1>2, <1>3, <1>4, <1>5, CapacityAssumption
        DEF Inv, TypeOK, PositionsAgree, Fifo!Init

\* What push() leaves in the slot is a packet.
LEMMA PushedIsPacket ==
    ASSUME NEW seq \in Seqs, NEW len \in 0 .. MaxLen
    PROVE  [sequence |-> seq,
            len |-> IF len < SlotCapacity THEN len ELSE SlotCapacity] \in Packets
  BY SlotAssumption DEF Packets

\* A drain hands out the contents and leaves an empty queue whose positions
\* agree.
LEMMA DrainEmpties == Inv /\ Drain => Inv' /\ Fifo!Drain
<1> SUFFICES ASSUME Inv, Drain PROVE Inv' /\ Fifo!Drain
  OBVIOUS
<1>1. /\ out' = Contents /\ tail' = UsizeAdd(tail, count) /\ count' = 0
      /\ slots' = slots /\ head' = head /\ ok' = ok
  BY DEF Drain
<1>2. /\ tail \in Nat /\ count \in Nat /\ head = UsizeAdd(tail, count)
      /\ head \in 0 .. (UsizeMod - 1)
  BY CapacityAssumption DEF Inv, TypeOK, PositionsAgree
<1>3. Contents \in Seq(Packets)
  BY ContentsType DEF Inv
<1>4. UsizeAdd(head, 0) = head
  BY <1>2, UsizeAddZero
<1>5. PositionsAgree'
  BY <1>1, <1>2, <1>4 DEF PositionsAgree, UsizeAdd
<1>6. TypeOK'
  BY <1>1, <1>2, <1>3, CapacityAssumption DEF Inv, TypeOK, Packets
<1>7. Contents' = << >>
  BY <1>1 DEF Contents
<1> QED BY <1>1, <1>5, <1>6, <1>7 DEF Inv, Fifo!Drain

\* A clear empties the queue.
LEMMA ClearEmpties == Inv /\ Clear => Inv' /\ Fifo!Clear
<1> SUFFICES ASSUME Inv, Clear PROVE Inv' /\ Fifo!Clear
  OBVIOUS
<1>1. /\ head' = 0 /\ tail' = 0 /\ count' = 0
      /\ slots' = slots /\ ok' = ok /\ out' = out
  BY DEF Clear
<1>2. UsizeAdd(0, 0) = 0
  BY UsizeAddZero, CapacityAssumption
<1>3. Contents' = << >>
  BY <1>1 DEF Contents
<1>4. Inv'
  BY <1>1, <1>2, CapacityAssumption DEF Inv, TypeOK, PositionsAgree, Packets, UsizeAdd
<1> QED BY <1>1, <1>3, <1>4 DEF Fifo!Clear

\* Every step keeps the invariant and is a step of the FIFO or none.
LEMMA StepSimulates == Inv /\ [Next]_vars => Inv' /\ [Fifo!Next]_(Fifo!vars)
<1> SUFFICES ASSUME Inv, [Next]_vars PROVE Inv' /\ [Fifo!Next]_(Fifo!vars)
  OBVIOUS
<1>1. CASE Drain
  BY <1>1, DrainEmpties DEF Fifo!Next
<1>2. CASE Clear
  BY <1>2, ClearEmpties DEF Fifo!Next
<1>3. ASSUME NEW p \in Packets, WriteSlot(p)
      PROVE  Inv' /\ Fifo!Next
  BY <1>3, WriteSlotAppends DEF Fifo!Next
<1>4. ASSUME NEW seq \in Seqs, NEW len \in 0 .. MaxLen, Push(seq, len)
      PROVE  Inv' /\ Fifo!Next
  BY <1>3, <1>4, PushedIsPacket DEF Push
<1>5. CASE UNCHANGED vars
  BY <1>5 DEF vars, Inv, TypeOK, PositionsAgree, Packets, UsizeAdd, SlotOf,
              Contents, Fifo!vars
<1> QED BY <1>1, <1>2, <1>3, <1>4, <1>5 DEF Next

\* Positions, counters and slots keep their types.
THEOREM PacketQueueTypes == Spec => []TypeOK
<1>1. Inv => TypeOK
  BY DEF Inv
<1> QED BY <1>1, InitEmpty, StepSimulates, PTL DEF Spec

\* The positions of the ring agree in every reachable state, wraps and clears
\* included.
THEOREM PacketQueueInvariant == Spec => []PositionsAgree
<1>1. Inv => PositionsAgree
  BY DEF Inv
<1> QED BY <1>1, InitEmpty, StepSimulates, PTL DEF Spec

\* PacketQueue implements the bounded FIFO, for every capacity.
THEOREM PacketQueueIsFifo == Spec => ImplementsFifo
  BY InitEmpty, StepSimulates, PTL DEF Spec, ImplementsFifo, Fifo!Spec

================================================================================
