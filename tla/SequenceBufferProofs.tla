------------------------- MODULE SequenceBufferProofs -------------------------
(***************************************************************************)
(* A SequenceBuffer is the sliding window of absolute ids, for every even  *)
(* modulus, every number of slots that divides it and every sequence of    *)
(* calls.                                                                  *)
(*                                                                         *)
(* WindowInv alone is not inductive without a bound on the jumps, and says *)
(* nothing of the absolute ids.  IInv does: the head stands for top, and   *)
(* the entry of every slot for the id it carries, one of the Size ids      *)
(* below top.  Every property of the runs follows from it.                 *)
(***************************************************************************)
EXTENDS SequenceBuffer, SeqBufferLemmas

\* The id that each slot's entry was inserted for.
IdAt == [i \in Slots |-> buf.entries[i].data]

\* The inductive invariant.
IInv == TypeOK /\ Numbered(buf, top, IdAt)

\* What IInv says of one slot.
LEMMA SlotFacts ==
    ASSUME IInv, NEW i \in Occupied
    PROVE  /\ i \in Slots
           /\ buf.entries[i].data \in (top - Size) .. (top - 1)
           /\ buf.entries[i].data \in Int
           /\ buf.entries[i].data % Size = i
           /\ buf.entries[i].sequence = buf.entries[i].data % SeqSpace
<1>1. i \in Slots /\ buf.entries[i] # NoEntry /\ IdAt[i] = buf.entries[i].data
  BY DEF Occupied, IdAt
<1>2. top \in Int /\ Size \in Int
  BY SizeAssumption DEF IInv, TypeOK
<1> QED BY <1>1, <1>2 DEF IInv, Numbered

\* An id is remembered exactly if the entry in its slot carries it.
LEMMA SeenExact ==
    ASSUME IInv, NEW n \in Int
    PROVE  n \in Seen <=> n % Size \in Occupied /\ buf.entries[n % Size].data = n
<1>1. ASSUME NEW i \in Occupied, buf.entries[i].data = n
      PROVE  n % Size = i
  BY <1>1, SlotFacts
<1> QED BY <1>1 DEF Seen

\* exists() and find() of an id, anywhere within a sequence space of the window.
LEMMA LookupOfId ==
    ASSUME IInv, NEW n \in Int, top - SeqSpace <= n, n < top - Size + SeqSpace
    PROVE  /\ Exists(buf, n % SeqSpace) <=> n \in Seen
           /\ Exists(buf, n % SeqSpace) => Find(buf, n % SeqSpace) = n
<1>1. Numbered(buf, top, IdAt) /\ top \in Int
  BY DEF IInv, TypeOK
<1>2. /\ n % Size \in Slots
      /\ Exists(buf, n % SeqSpace) <=>
             buf.entries[n % Size] # NoEntry /\ IdAt[n % Size] = n
      /\ Find(buf, n % SeqSpace) = buf.entries[n % Size].data
  BY <1>1, ExistsExact
<1>3. IdAt[n % Size] = buf.entries[n % Size].data
  BY <1>2 DEF IdAt
<1> QED BY <1>2, <1>3, SeenExact DEF Occupied

--------------------------------------------------------------------------------
(* insert() *)

\* The history variable follows the head.
LEMMA InsertTop ==
    ASSUME IInv, NEW n \in Ids, InsertId(n)
    PROVE  /\ n < top - Size => buf' = buf /\ top' = top
           /\ n >= top - Size => /\ SlidTo(buf, top, IdAt, n, n, buf')
                                 /\ top' = HeadAfter(top, n)
<1>0. /\ buf \in Buffers(Ids) /\ top \in Nat /\ top \in Int /\ n \in Int /\ n \in Nat
      /\ Numbered(buf, top, IdAt)
      /\ top - Size - Half < n /\ n < top - Size + Half
      /\ buf' = Insert(buf, n % SeqSpace, n)
      /\ top' = top + WrappingSub(buf'.sequence, buf.sequence)
      /\ buf.sequence = top % SeqSpace
  BY IdsAssumption DEF IInv, TypeOK, InsertId, Reach, Numbered
<1>1. /\ n < top - Size => buf' = buf
      /\ n >= top - Size => SlidTo(buf, top, IdAt, n, n, buf')
  BY <1>0, InsertExact
<1>2. CASE n < top - Size
  <2>1. WrappingSub(buf.sequence, buf.sequence) = 0
    BY <1>0, SeqOfType DEF WrappingSub, SeqNums
  <2> QED BY <1>0, <1>1, <1>2, <2>1, SizeAssumption
<1>3. CASE n >= top - Size
  <2> DEFINE u == HeadAfter(top, n)
  <2>1. u \in Int /\ u - top \in SeqNums
    BY <1>0, <1>3, HalfFacts, SizeAssumption DEF HeadAfter, SeqNums
  <2>2. buf'.sequence = u % SeqSpace
    BY <1>1, <1>3 DEF SlidTo
  <2>3. WrappingSub(buf'.sequence, buf.sequence) = (u - top) % SeqSpace
    BY <1>0, <2>1, <2>2, WrapSub
  <2>4. (u - top) % SeqSpace = u - top
    BY <2>1, SmallSeq
  <2> HIDE DEF u
  <2>5. top' = u
    BY <1>0, <2>1, <2>3, <2>4
  <2>6. ~(n < top - Size)
    BY <1>0, <1>3, SizeAssumption
  <2> QED BY <1>1, <2>5, <2>6 DEF u
<1>4. n < top - Size \/ n >= top - Size
  BY <1>0, SizeAssumption
<1> QED BY <1>2, <1>3, <1>4

\* insert() preserves the invariant.
LEMMA InsertIInv ==
    ASSUME IInv, NEW n \in Ids, InsertId(n)
    PROVE  IInv'
<1>0. /\ buf \in Buffers(Ids) /\ top \in Nat /\ top \in Int /\ n \in Int /\ n \in Nat
      /\ Numbered(buf, top, IdAt) /\ n < top - Size + Half
      /\ buf' = Insert(buf, n % SeqSpace, n)
  BY IdsAssumption DEF IInv, TypeOK, InsertId, Reach
<1>1. CASE n < top - Size
  <2>1. buf' = buf /\ top' = top
    BY <1>1, InsertTop
  <2>2. IdAt' = IdAt
    BY <2>1 DEF IdAt
  <2> QED BY <2>1, <2>2 DEF IInv, TypeOK, Numbered
<1>2. CASE n >= top - Size
  <2>1. SlidTo(buf, top, IdAt, n, n, buf') /\ top' = HeadAfter(top, n)
    BY <1>2, InsertTop
  <2>2. top' \in Nat
    BY <1>0, <2>1 DEF HeadAfter
  <2>3. buf' \in Buffers(Ids)
    BY <1>0, SeqOfType, InsertType
  <2> DEFINE new == [i \in Slots |-> IF i = n % Size THEN n ELSE IdAt[i]]
  <2>4. Numbered(buf', top', new)
    <3>1. top - Size <= n
      BY <1>0, <1>2, SizeAssumption
    <3>2. \A i \in Slots : new[i] = IF i = n % Size THEN n ELSE IdAt[i]
      OBVIOUS
    <3> HIDE DEF new
    <3>3. Numbered(Insert(buf, n % SeqSpace, n), HeadAfter(top, n), new)
      BY <1>0, <3>1, <3>2, InsertNumbered
    <3> QED BY <1>0, <2>1, <3>3
  <2>5. ASSUME NEW i \in Slots, buf'.entries[i] # NoEntry
        PROVE  IdAt'[i] = new[i]
    <3>1. IdAt'[i] = buf'.entries[i].data
      BY DEF IdAt
    <3>2. CASE i = n % Size
      BY <2>1, <3>1, <3>2 DEF SlidTo
    <3>3. CASE i # n % Size
      <4>1. buf'.entries[i] = buf.entries[i]
        BY <2>1, <2>5, <3>3 DEF SlidTo
      <4> QED BY <3>1, <3>3, <4>1 DEF IdAt
    <3> QED BY <3>2, <3>3
  <2> HIDE DEF new
  <2>6. Numbered(buf', top', IdAt')
    BY <2>4, <2>5 DEF Numbered
  <2> QED BY <2>2, <2>3, <2>6 DEF IInv, TypeOK, Numbered
<1>3. n < top - Size \/ n >= top - Size
  BY <1>0, SizeAssumption
<1> QED BY <1>1, <1>2, <1>3

\* insert() of an id remembers that id and forgets exactly the ids that fall out of
\* the window.
LEMMA InsertSeen ==
    ASSUME IInv, NEW n \in Ids, InsertId(n), n >= top - Size
    PROVE  Seen' = {m \in Seen \cup {n} : m >= top' - Size}
<1> DEFINE u == HeadAfter(top, n)
           w == n % Size
<1>0. /\ top \in Nat /\ top \in Int /\ n \in Int /\ Size \in Nat \ {0} /\ Size \in Int
  BY IdsAssumption, SizeAssumption DEF IInv, TypeOK
<1>1. SlidTo(buf, top, IdAt, n, n, buf') /\ top' = u
  BY InsertTop
<1>2. u \in Int /\ top <= u /\ n < u /\ u - Size <= n /\ w \in Slots
  <2>1. w \in Slots
    BY <1>0, DivMod DEF Slots
  <2> QED BY <1>0, <2>1 DEF HeadAfter
<1>3. /\ buf'.entries[w] = [sequence |-> n % SeqSpace, data |-> n]
      /\ \A i \in Slots : i # w =>
             buf'.entries[i] = IF buf.entries[i] # NoEntry /\ IdAt[i] < u - Size
                               THEN NoEntry ELSE buf.entries[i]
  BY <1>1 DEF SlidTo
<1>4. buf'.entries[w] # NoEntry /\ buf'.entries[w].data = n
  <2>1. [sequence |-> n % SeqSpace, data |-> n] \in [sequence : SeqNums, data : Ids]
    BY <1>0, SeqOfType
  <2> QED BY <1>3, <2>1, NoEntryAssumption
<1> HIDE DEF u, w
<1>5. ASSUME NEW m \in Seen'
      PROVE  m \in Seen \cup {n} /\ m >= u - Size
  <2>1. PICK i \in Slots : buf'.entries[i] # NoEntry /\ m = buf'.entries[i].data
    BY DEF Seen, Occupied
  <2>2. CASE i = w
    BY <1>0, <1>2, <1>4, <2>1, <2>2
  <2>3. CASE i # w
    <3>1. /\ buf'.entries[i] = buf.entries[i] /\ buf.entries[i] # NoEntry
          /\ ~(IdAt[i] < u - Size) /\ IdAt[i] = m
      BY <1>3, <2>1, <2>3 DEF IdAt
    <3>2. i \in Occupied /\ m \in Seen
      BY <2>1, <3>1 DEF Occupied, Seen
    <3>3. m \in Int
      BY <2>1, <3>1, <3>2, SlotFacts
    <3> QED BY <1>0, <1>2, <3>1, <3>2, <3>3
  <2> QED BY <2>2, <2>3
<1>6. n \in Seen'
  BY <1>2, <1>4 DEF Seen, Occupied
<1>7. ASSUME NEW m \in Seen, m >= u - Size
      PROVE  m \in Seen'
  <2>1. PICK i \in Occupied : m = buf.entries[i].data
    BY DEF Seen
  <2>2. /\ i \in Slots /\ m \in (top - Size) .. (top - 1) /\ m \in Int /\ m % Size = i
    BY <2>1, SlotFacts
  <2>3. CASE i = w
    <3>1. m % Size = n % Size
      BY <2>2, <2>3 DEF w
    <3>2. m = n
      <4>1. CASE m <= n
        <5>1. n - m < Size
          BY <1>0, <1>2, <1>7, <2>2
        <5> QED BY <1>0, <2>2, <3>1, <4>1, <5>1, ModInjective
      <4>2. CASE n <= m
        <5>1. m - n < Size
          BY <1>0, <1>2, <2>2
        <5> QED BY <1>0, <2>2, <3>1, <4>2, <5>1, ModInjective
      <4> QED BY <1>0, <2>2, <4>1, <4>2
    <3> QED BY <1>6, <3>2
  <2>4. CASE i # w
    <3>1. buf.entries[i] # NoEntry /\ IdAt[i] = m
      BY <2>1, <2>2 DEF Occupied, IdAt
    <3>2. ~(m < u - Size)
      BY <1>0, <1>2, <1>7, <2>2
    <3>3. buf'.entries[i] = buf.entries[i]
      BY <1>3, <2>2, <2>4, <3>1, <3>2
    <3> QED BY <2>1, <2>2, <3>1, <3>3 DEF Seen, Occupied
  <2> QED BY <2>3, <2>4
<1>8. n >= u - Size
  BY <1>0, <1>2
<1> QED BY <1>1, <1>5, <1>6, <1>7, <1>8

--------------------------------------------------------------------------------
(* remove() and reset() *)

\* remove() forgets the id it is called for and no other.
LEMMA RemoveSeen ==
    ASSUME IInv, NEW n \in Ids, RemoveId(n)
    PROVE  IInv' /\ Seen' = Seen \ {n} /\ top' = top
<1> DEFINE w == n % Size
           E == [sequence : SeqNums, data : Ids] \cup {NoEntry}
<1>0. /\ top \in Nat /\ top \in Int /\ n \in Int /\ Size \in Nat \ {0} /\ Size \in Int
      /\ top - SeqSpace <= n /\ n < top - Size + SeqSpace /\ top' = top
      /\ buf' = Remove(buf, n % SeqSpace) /\ Numbered(buf, top, IdAt)
      /\ buf \in Buffers(Ids)
  BY IdsAssumption, SizeAssumption, HalfFacts DEF IInv, TypeOK, RemoveId, Reach
<1>1. Exists(buf, n % SeqSpace) <=> n \in Seen
  BY <1>0, LookupOfId
<1>2. CASE n \notin Seen
  <2>1. buf' = buf
    BY <1>0, <1>1, <1>2 DEF Remove
  <2>2. IdAt' = IdAt
    BY <2>1 DEF IdAt
  <2> QED BY <1>0, <1>2, <2>1, <2>2 DEF IInv, TypeOK, Numbered, Seen, Occupied
<1>3. CASE n \in Seen
  <2>1. /\ buf.sequence \in SeqNums /\ buf.entries \in [Slots -> E]
        /\ buf = [sequence |-> buf.sequence, entries |-> buf.entries]
    BY <1>0 DEF Buffers
  <2>2. w \in Slots /\ Index(n % SeqSpace) = w
    BY <1>0, IndexOfNumber, DivMod DEF Slots
  <2>3. w \in Occupied /\ buf.entries[w].data = n
    BY <1>0, <1>3, SeenExact
  <2>4. buf' = [buf EXCEPT !.entries[w] = NoEntry]
    BY <1>0, <1>1, <1>3, <2>2 DEF Remove
  <2> HIDE DEF w, E
  <2>5. /\ buf'.sequence = buf.sequence
        /\ buf'.entries = [buf.entries EXCEPT ![w] = NoEntry]
        /\ buf' = [sequence |-> buf'.sequence, entries |-> buf'.entries]
    BY <2>1, <2>4
  <2>6. buf'.entries[w] = NoEntry /\ \A i \in Slots : i # w => buf'.entries[i] = buf.entries[i]
    BY <2>1, <2>2, <2>5
  <2>7. buf' \in Buffers(Ids)
    <3>1. buf'.entries \in [Slots -> E]
      BY <2>1, <2>2, <2>5 DEF E
    <3> QED BY <2>1, <2>5, <3>1 DEF Buffers, E
  <2>8. Numbered(buf', top', IdAt')
    <3>1. ASSUME NEW i \in Slots, buf'.entries[i] # NoEntry
          PROVE  buf'.entries[i] = buf.entries[i] /\ IdAt'[i] = IdAt[i]
      BY <2>6, <3>1 DEF IdAt
    <3> QED BY <1>0, <2>5, <3>1 DEF Numbered
  <2>9. Seen' = Seen \ {n}
    <3>1. ASSUME NEW i \in Occupied, i # w
          PROVE  buf.entries[i].data # n
      BY <3>1, SlotFacts DEF w
    <3>2. Occupied' = Occupied \ {w}
      BY <2>6 DEF Occupied
    <3>3. Seen' = {buf.entries[i].data : i \in Occupied \ {w}}
      BY <2>6, <3>2 DEF Seen, Occupied
    <3> QED BY <2>3, <3>1, <3>3 DEF Seen
  <2> QED BY <1>0, <2>7, <2>8, <2>9 DEF IInv, TypeOK, Numbered
<1> QED BY <1>2, <1>3

\* A new buffer, at the start and after reset(), remembers nothing.
LEMMA NewBufferFacts ==
    /\ NewBuffer \in Buffers(Ids)
    /\ NewBuffer.sequence = 0 % SeqSpace
    /\ \A i \in Slots : NewBuffer.entries[i] = NoEntry
<1>1. 0 \in SeqNums /\ 0 % SeqSpace = 0
  BY SeqSpaceAssumption, SmallSeq DEF SeqNums
<1> QED BY <1>1 DEF NewBuffer, Buffers

--------------------------------------------------------------------------------
(* The theorems *)

\* IInv is inductive, and every step is a step of the sliding window.
LEMMA SequenceBufferStep ==
    ASSUME IInv, [Next]_vars
    PROVE  IInv' /\ [Window!Next]_(Window!vars)
<1>1. ASSUME NEW n \in Ids, InsertId(n)
      PROVE  IInv' /\ Window!Insert(n)
  <2>1. top \in Int /\ n \in Int
    BY IdsAssumption DEF IInv, TypeOK
  <2>2. CASE n < top - Size
    <3>1. buf' = buf /\ top' = top
      BY <1>1, <2>2, InsertTop
    <3>2. Seen' = Seen
      BY <3>1 DEF Seen, Occupied
    <3> QED BY <1>1, <2>2, <3>1, <3>2, InsertIInv DEF Window!Insert, Window!vars
  <2>3. CASE n >= top - Size
    BY <1>1, <2>3, InsertIInv, InsertTop, InsertSeen DEF Window!Insert, HeadAfter
  <2>4. n < top - Size \/ n >= top - Size
    BY <2>1, SizeAssumption
  <2> QED BY <2>2, <2>3, <2>4
<1>2. ASSUME NEW n \in Ids, RemoveId(n)
      PROVE  IInv' /\ Window!Remove(n)
  BY <1>2, RemoveSeen DEF Window!Remove
<1>3. CASE Reset
  <2>1. buf' = NewBuffer /\ top' = 0
    BY <1>3 DEF Reset
  <2>2. Seen' = {} /\ IInv'
    BY <2>1, NewBufferFacts DEF Seen, Occupied, IInv, TypeOK, Numbered
  <2> QED BY <2>1, <2>2 DEF Window!Next, Window!Reset
<1>4. CASE UNCHANGED vars
  <2>1. buf' = buf /\ top' = top
    BY <1>4 DEF vars
  <2>2. Seen' = Seen /\ IdAt' = IdAt
    BY <2>1 DEF Seen, Occupied, IdAt
  <2> QED BY <2>1, <2>2 DEF IInv, TypeOK, Numbered, Window!vars
<1> QED BY <1>1, <1>2, <1>3, <1>4 DEF Next, Window!Next

\* A new buffer satisfies the invariant and is a new window.
LEMMA SequenceBufferInit ==
    ASSUME Init
    PROVE  IInv /\ Window!Init
  BY NewBufferFacts DEF Init, IInv, TypeOK, Numbered, Window!Init, Seen, Occupied

\* The invariant holds in every state.
LEMMA Inductive == Spec => []IInv
  BY SequenceBufferInit, SequenceBufferStep, PTL DEF Spec

\* The head stays a u16 and the entries stay entries.
THEOREM SequenceBufferTypes == Spec => []TypeOK
<1>1. IInv => TypeOK
  BY DEF IInv
<1> QED BY <1>1, Inductive, PTL

\* A SequenceBuffer keeps its entries in their own slots and in the window below the
\* head: remove_range() leaves no entry behind, whatever is inserted, removed or
\* reset and however often the sequence wraps.
THEOREM SequenceBufferWindow == Spec => []WindowInv
<1>1. ASSUME IInv
      PROVE  WindowInv
  <2>1. ASSUME NEW i \in Slots, buf.entries[i] # NoEntry
        PROVE  /\ Index(buf.entries[i].sequence) = i
               /\ WrappingSub(WrappingSub(buf.sequence, 1), buf.entries[i].sequence) < Size
    <3> DEFINE m == buf.entries[i].data
    <3>1. /\ m \in (top - Size) .. (top - 1) /\ m \in Int /\ m % Size = i
          /\ buf.entries[i].sequence = m % SeqSpace
      BY <1>1, <2>1, SlotFacts DEF Occupied
    <3>2. top \in Int /\ top - 1 \in Int /\ top - 1 - m \in SeqNums /\ top - 1 - m < Size
      BY <1>1, <3>1, SizeAssumption, SeqSpaceAssumption DEF IInv, TypeOK, SeqNums
    <3>3. buf.sequence = top % SeqSpace /\ 1 % SeqSpace = 1
      BY <1>1, SmallSeq, SeqSpaceAssumption DEF IInv, Numbered, SeqNums
    <3> HIDE DEF m
    <3>4. WrappingSub(top % SeqSpace, 1 % SeqSpace) = (top - 1) % SeqSpace
      BY <3>2, WrapSub
    <3>5. WrappingSub((top - 1) % SeqSpace, m % SeqSpace) = (top - 1 - m) % SeqSpace
      BY <3>1, <3>2, WrapSub
    <3>6. (top - 1 - m) % SeqSpace = top - 1 - m
      BY <3>2, SmallSeq
    <3>7. Index(m % SeqSpace) = i
      BY <3>1, IndexOfNumber
    <3> QED BY <3>1, <3>2, <3>3, <3>4, <3>5, <3>6, <3>7
  <2> QED BY <2>1 DEF WindowInv, Windowed
<1> QED BY <1>1, Inductive, PTL

\* Every lookup within reach answers for the packet that was meant: exists() exactly
\* if it was inserted and not yet forgotten, find() with its data, can_insert()
\* exactly if the window has not passed it.
THEOREM SequenceBufferLookup == Spec => []LookupExact
<1>1. ASSUME IInv
      PROVE  LookupExact
  <2> SUFFICES ASSUME NEW n \in Reach
               PROVE  /\ Exists(buf, n % SeqSpace) <=> n \in Seen
                      /\ Exists(buf, n % SeqSpace) => Find(buf, n % SeqSpace) = n
                      /\ CanInsert(buf, n % SeqSpace) <=> n >= top - Size
    BY DEF LookupExact
  <2>1. /\ n \in Int /\ top \in Int
        /\ top - Size - Half < n /\ n < top - Size + Half
        /\ top - SeqSpace <= n /\ n < top - Size + SeqSpace
        /\ buf.sequence = top % SeqSpace
    BY <1>1, IdsAssumption, HalfFacts, SizeAssumption
       DEF Reach, IInv, TypeOK, Numbered
  <2>2. CanInsert(buf, n % SeqSpace) <=> n >= top - Size
    BY <2>1, CanInsertExact
  <2> QED BY <1>1, <2>1, <2>2, LookupOfId
<1> QED BY <1>1, Inductive, PTL

\* The ack header acknowledges exactly what was received: generate_ack_bits() sets
\* bit i for the id i below the newest exactly if that id is in the buffer.
THEOREM SequenceBufferAckBits == Spec => []AckBitsExact
<1>1. ASSUME IInv
      PROVE  AckBitsExact
  <2> DEFINE ack == WrappingSub(buf.sequence, 1)
  <2>0. top \in Int /\ buf.sequence = top % SeqSpace /\ 1 % SeqSpace = 1
    BY <1>1, SmallSeq, SeqSpaceAssumption DEF IInv, TypeOK, Numbered, SeqNums
  <2>1. ack = (top - 1) % SeqSpace
    BY <2>0, WrapSub
  <2>2. (top + SeqSpace - 1) % SeqSpace = (top - 1) % SeqSpace
    <3>1. top - 1 \in Int /\ 1 \in Int /\ SeqSpace \in Nat \ {0}
      BY <2>0, SeqSpaceAssumption
    <3>2. ((top - 1) + 1 * SeqSpace) % SeqSpace = (top - 1) % SeqSpace
      BY ONLY <3>1, ModShift, Zenon
    <3>3. (top - 1) + 1 * SeqSpace = top + SeqSpace - 1
      BY <2>0, SeqSpaceAssumption
    <3> QED BY <3>2, <3>3
  <2> HIDE DEF ack
  <2>3. ASSUME NEW i \in 0 .. (AckWidth - 1)
        PROVE  Exists(buf, WrappingSub(ack, i)) <=> (top - 1 - i) \in Seen
    <3>1. /\ i \in SeqNums /\ i \in Int /\ top - 1 \in Int /\ top - 1 - i \in Int
          /\ top - SeqSpace <= top - 1 - i /\ top - 1 - i < top - Size + SeqSpace
      BY <2>0, AckWidthAssumption, SeqSpaceAssumption, SizeAssumption DEF SeqNums
    <3>2. i % SeqSpace = i
      BY <3>1, SmallSeq
    <3>3. WrappingSub((top - 1) % SeqSpace, i % SeqSpace) = (top - 1 - i) % SeqSpace
      BY <3>1, WrapSub
    <3>4. Exists(buf, (top - 1 - i) % SeqSpace) <=> (top - 1 - i) \in Seen
      BY <1>1, <3>1, LookupOfId
    <3> QED BY <2>1, <3>2, <3>3, <3>4
  <2>4. GenerateAckBits(buf) =
            [ack |-> ack,
             bits |-> {i \in 0 .. (AckWidth - 1) : Exists(buf, WrappingSub(ack, i))}]
    BY DEF GenerateAckBits, ack
  <2>5. {i \in 0 .. (AckWidth - 1) : Exists(buf, WrappingSub(ack, i))} =
            {i \in 0 .. (AckWidth - 1) : (top - 1 - i) \in Seen}
    BY ONLY <2>3, Zenon
  <2> QED BY <2>1, <2>2, <2>4, <2>5 DEF AckBitsExact
<1> QED BY <1>1, Inductive, PTL

\* The ring of wrapping u16 sequences implements the sliding window of absolute ids:
\* insert(), remove() and reset() are its steps and nothing else changes it.
THEOREM SequenceBufferRefinement == Spec => ImplementsWindow
  BY SequenceBufferInit, SequenceBufferStep, Inductive, PTL
     DEF Spec, ImplementsWindow, Window!Spec

================================================================================
