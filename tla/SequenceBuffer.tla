---------------------------- MODULE SequenceBuffer ----------------------------
(***************************************************************************)
(* One SequenceBuffer as a state machine.  Callers name packets by         *)
(* absolute ids; the buffer sees only an id modulo SeqSpace.  Every entry    *)
(* carries its id as data, which is what lets the properties say that a    *)
(* lookup answers for the packet that was meant and not for another one    *)
(* with the same sequence number.                                          *)
(***************************************************************************)
EXTENDS SeqBufferOps

CONSTANT Ids        \* the absolute ids callers may name

ASSUME NoEntryAssumption ==
    NoEntry \notin [sequence : SeqNums, data : Ids]

ASSUME IdsAssumption == Ids \subseteq Nat

\* The ack bits never reach round the sequence space: 32 bits, 65536 sequences.
ASSUME AckWidthAssumption == AckWidth \in Nat /\ AckWidth <= SeqSpace

VARIABLES
    buf,            \* the SequenceBuffer
    top             \* history: the absolute id that buf.sequence stands for

vars == <<buf, top>>

\* The ids the comparison can place: closer than half the sequence space to
\* the window's lower end.  Anything further away is aliased by design.
Reach == {n \in Ids : top - Size - Half < n /\ n < top - Size + Half}

Init == buf = NewBuffer /\ top = 0

InsertId(n) ==
    /\ n \in Reach
    /\ buf' = Insert(buf, n % SeqSpace, n)
    /\ top' = top + WrappingSub(buf'.sequence, buf.sequence)

RemoveId(n) ==
    /\ n \in Reach
    /\ buf' = Remove(buf, n % SeqSpace)
    /\ UNCHANGED top

Reset ==
    /\ buf' = NewBuffer
    /\ top' = 0

Next == Reset \/ \E n \in Ids : InsertId(n) \/ RemoveId(n)

Spec == Init /\ [][Next]_vars

--------------------------------------------------------------------------------

Occupied == {i \in Slots : buf.entries[i] # NoEntry}

\* The ids the buffer remembers.
Seen == {buf.entries[i].data : i \in Occupied}

\* Type invariant of the buffer: a u16 head and Size slots.
TypeOK ==
    /\ buf \in Buffers(Ids)
    /\ top \in Nat

\* insert() and remove_range() together keep every entry in its own slot and
\* inside the window of Size sequences below the head: no entry survives the
\* window that has moved past it, whatever the jump and wherever it wraps.
WindowInv == Windowed(buf)

\* exists() and find() answer for the id that was meant, and can_insert()
\* refuses exactly the ids below the window.
LookupExact ==
    \A n \in Reach :
        /\ Exists(buf, n % SeqSpace) <=> n \in Seen
        /\ Exists(buf, n % SeqSpace) => Find(buf, n % SeqSpace) = n
        /\ CanInsert(buf, n % SeqSpace) <=> n >= top - Size

\* generate_ack_bits() acknowledges exactly the remembered ids among the
\* AckWidth ids below the head: bit i stands for id top - 1 - i.
AckBitsExact ==
    LET a == GenerateAckBits(buf)
    IN  /\ a.ack = (top + SeqSpace - 1) % SeqSpace
        /\ a.bits = {i \in 0 .. (AckWidth - 1) : (top - 1 - i) \in Seen}

Window == INSTANCE SequenceWindow WITH WindowSize <- Size, seen <- Seen

\* The ring of wrapping sequence numbers implements the sliding window of
\* absolute ids.
ImplementsWindow == Window!Spec

================================================================================
