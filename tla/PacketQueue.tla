------------------------------ MODULE PacketQueue ------------------------------
(***************************************************************************)
(* PacketQueue of src/packet_queue.rs: a ring of preallocated slots with   *)
(* free-running head and tail positions and a separate count.  A packet is *)
(* its sequence number and its length; the bytes themselves are copied     *)
(* verbatim and add nothing to the control.                                *)
(***************************************************************************)
EXTENDS Naturals, Sequences

CONSTANTS
    Capacity,       \* number of slots, a power of two
    SlotCapacity,   \* bytes per slot
    UsizeMod,       \* head and tail wrap here: 2^64 in the code
    Seqs,           \* the sequence numbers of the packets
    MaxLen          \* bound: the longest payload pushed

ASSUME CapacityAssumption ==
    /\ Capacity \in Nat \ {0}
    /\ UsizeMod \in Nat \ {0}
    /\ UsizeMod % Capacity = 0

ASSUME SlotAssumption ==
    /\ SlotCapacity \in Nat \ {0}
    /\ MaxLen \in Nat
    /\ 0 \in Seqs

VARIABLES
    slots,          \* slot index -> [sequence, len]
    head,           \* next write position
    tail,           \* next read position
    count,          \* packets held
    ok,             \* whether the last write was accepted
    out             \* what the last drain handed to its callback

vars == <<slots, head, tail, count, ok, out>>

Packets == [sequence : Seqs, len : 0 .. SlotCapacity]

UsizeAdd(a, b) == (a + b) % UsizeMod

\* position & (capacity - 1)
SlotOf(pos) == pos % Capacity

Init ==
    /\ slots = [i \in 0 .. (Capacity - 1) |-> [sequence |-> 0, len |-> 0]]
    /\ head = 0 /\ tail = 0 /\ count = 0
    /\ ok = TRUE /\ out = << >>

\* Bug: the full test admits one packet too many.
WriteSlotOverfull(p) ==
    /\ IF count > Capacity
       THEN ok' = FALSE /\ UNCHANGED <<slots, head, count>>
       ELSE /\ ok' = TRUE
            /\ slots' = [slots EXCEPT ![SlotOf(head)] = p]
            /\ head' = UsizeAdd(head, 1)
            /\ count' = count + 1
    /\ UNCHANGED <<tail, out>>

\* write_slot(): p is what the closure leaves in the slot, at most
\* SlotCapacity bytes (the debug_assert).
WriteSlot(p) ==
    /\ IF count >= Capacity
       THEN ok' = FALSE /\ UNCHANGED <<slots, head, count>>
       ELSE /\ ok' = TRUE
            /\ slots' = [slots EXCEPT ![SlotOf(head)] = p]
            /\ head' = UsizeAdd(head, 1)
            /\ count' = count + 1
    /\ UNCHANGED <<tail, out>>

\* push() copies as much of the payload as the slot holds.
Push(seq, len) ==
    WriteSlot([sequence |-> seq,
               len |-> IF len < SlotCapacity THEN len ELSE SlotCapacity])

\* The packets from tail on, in the order drain() visits them.
Contents == [k \in 1 .. count |-> slots[SlotOf(UsizeAdd(tail, k - 1))]]

\* Bug: the read position stays.
DrainForgetsTail ==
    /\ out' = Contents
    /\ count' = 0
    /\ UNCHANGED <<slots, head, tail, ok>>

Drain ==
    /\ out' = Contents
    /\ tail' = UsizeAdd(tail, count)
    /\ count' = 0
    /\ UNCHANGED <<slots, head, ok>>

\* Bug: the positions are kept apart by a clear.
ClearCountOnly ==
    /\ head' = 0 /\ count' = 0
    /\ UNCHANGED <<slots, tail, ok, out>>

Clear ==
    /\ head' = 0 /\ tail' = 0 /\ count' = 0
    /\ UNCHANGED <<slots, ok, out>>

Next ==
    \/ Drain
    \/ Clear
    \/ \E p \in Packets : WriteSlot(p)
    \/ \E seq \in Seqs, len \in 0 .. MaxLen : Push(seq, len)

Spec == Init /\ [][Next]_vars

--------------------------------------------------------------------------------

\* Type invariant of the ring.
TypeOK ==
    /\ slots \in [0 .. (Capacity - 1) -> Packets]
    /\ head \in 0 .. (UsizeMod - 1)
    /\ tail \in 0 .. (UsizeMod - 1)
    /\ count \in 0 .. Capacity
    /\ ok \in BOOLEAN
    /\ out \in Seq(Packets)

\* The three positions agree, the wrap of head and tail and a clear included:
\* write_slot and drain use head, tail and count without ever comparing them.
PositionsAgree == head = UsizeAdd(tail, count)

Fifo == INSTANCE BoundedFifo WITH queue <- Contents

\* The ring implements a bounded first-in first-out queue: nothing held is
\* overwritten, reordered or handed out twice.
ImplementsFifo == Fifo!Spec

================================================================================
