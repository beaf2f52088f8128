----------------------------- MODULE SeqBufferOps -----------------------------
(***************************************************************************)
(* SequenceBuffer<T> of src/sequence_buffer.rs as operators on a value:    *)
(*                                                                         *)
(*   [sequence |-> next expected sequence number,                          *)
(*    entries  |-> slot index -> NoEntry or [sequence, data]]              *)
(*                                                                         *)
(* The three users of the type (sent packets, received packets, reassembly *)
(* tracker) instantiate this module with their own Size.                   *)
(***************************************************************************)
EXTENDS SeqNum

CONSTANTS
    Size,       \* number of slots, a power of two
    AckWidth,   \* number of ack bits; 32 in the code
    NoEntry     \* an empty slot: None

ASSUME SizeAssumption ==
    /\ Size \in Nat \ {0}
    /\ SeqSpace % Size = 0
    /\ 2 * Size <= SeqSpace

Slots == 0 .. (Size - 1)

NewBuffer == [sequence |-> 0, entries |-> [i \in Slots |-> NoEntry]]

\* sequence & (size - 1); Size is a power of two.
Index(seq) == seq % Size

Exists(b, seq) ==
    /\ b.entries[Index(seq)] # NoEntry
    /\ b.entries[Index(seq)].sequence = seq

\* find().data; meaningful only where Exists(b, seq).
Find(b, seq) == b.entries[Index(seq)].data

\* Bug: a window one slot too long.
CanInsertOffByOne(b, seq) ==
    ~SequenceLessThan(seq, WrappingSub(b.sequence, (Size + 1) % SeqSpace))

\* entries.len() is cast to u16 before the subtraction.
CanInsert(b, seq) ==
    ~SequenceLessThan(seq, WrappingSub(b.sequence, Size % SeqSpace))

\* The loop clears start, start+1, ... for as long as the loop condition holds.
RemoveRange(entries, start, end) ==
    LET cleared == {WrappingAdd(start, k) : k \in
            {k \in SeqNums : \A j \in 0 .. k :
                SequenceLessThan(WrappingAdd(start, j), WrappingAdd(end, 1))}}
    IN  [i \in Slots |-> IF \E s \in cleared : Index(s) = i
                         THEN NoEntry ELSE entries[i]]

\* The part of insert() that moves the window up to an entry ahead of it.
Advance(b, seq) ==
    IF SequenceGreaterThan(WrappingAdd(seq, 1), b.sequence)
    THEN [sequence |-> WrappingAdd(seq, 1),
          entries  |-> RemoveRange(b.entries, b.sequence, seq)]
    ELSE b

\* Bug: the window moves but the slots it passed are not cleared.
InsertWithoutClearing(b, seq, d) ==
    IF ~CanInsert(b, seq) THEN b ELSE
    [sequence |-> Advance(b, seq).sequence,
     entries  |-> [b.entries EXCEPT ![Index(seq)] =
                       [sequence |-> seq, data |-> d]]]

\* Bug: an insert behind the head pulls the head back.
InsertMovesHeadBack(b, seq, d) ==
    IF ~CanInsert(b, seq) THEN b ELSE
    [sequence |-> WrappingAdd(seq, 1),
     entries  |-> [Advance(b, seq).entries EXCEPT ![Index(seq)] =
                       [sequence |-> seq, data |-> d]]]

\* insert(), the caller's writes through the returned reference included.  A
\* sequence that cannot be inserted leaves the buffer alone.
Insert(b, seq, d) ==
    IF ~CanInsert(b, seq) THEN b ELSE
    [Advance(b, seq) EXCEPT !.entries[Index(seq)] =
        [sequence |-> seq, data |-> d]]

\* remove(): an entry of another sequence in the same slot is put back.
Remove(b, seq) ==
    IF Exists(b, seq) THEN [b EXCEPT !.entries[Index(seq)] = NoEntry] ELSE b

\* Bug: the field starts at the sequence before ack.
AckBitsFromPrevious(b) ==
    LET ack == WrappingSub(b.sequence, 1)
    IN  [ack  |-> ack,
         bits |-> {i \in 0 .. (AckWidth - 1) :
                      Exists(b, WrappingSub(WrappingSub(ack, 1), i))}]

\* ack_bits is the set of the offsets whose bit is set.
GenerateAckBits(b) ==
    LET ack == WrappingSub(b.sequence, 1)
    IN  [ack  |-> ack,
         bits |-> {i \in 0 .. (AckWidth - 1) : Exists(b, WrappingSub(ack, i))}]

--------------------------------------------------------------------------------

Buffers(Data) ==
    [sequence : SeqNums,
     entries  : [Slots -> [sequence : SeqNums, data : Data] \cup {NoEntry}]]

\* Every entry sits in the slot of its sequence, and that sequence is one of
\* the Size sequences below the head.
Windowed(b) ==
    \A i \in Slots : b.entries[i] # NoEntry =>
        /\ Index(b.entries[i].sequence) = i
        /\ WrappingSub(WrappingSub(b.sequence, 1), b.entries[i].sequence) < Size

\* The head stands for the absolute number t and the entry of slot i for ids[i],
\* one of the Size numbers below t.
Numbered(b, t, ids) ==
    /\ b.sequence = t % SeqSpace
    /\ \A i \in Slots : b.entries[i] # NoEntry =>
           /\ ids[i] \in (t - Size) .. (t - 1)
           /\ b.entries[i].sequence = ids[i] % SeqSpace
           /\ ids[i] % Size = i

================================================================================
