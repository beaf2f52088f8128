------------------------------ MODULE Reassembly ------------------------------
(***************************************************************************)
(* FragmentReassemblyBuffer of src/fragment.rs: a SequenceBuffer that      *)
(* tracks which sequences are being reassembled, and beside it one         *)
(* preallocated slot per index that collects the fragments.                *)
(*                                                                         *)
(* A fragment's payload is one chunk; a slot maps fragment ids to chunks,  *)
(* which is fragment_data together with fragment_lens.  NoChunk is a       *)
(* length of zero.  The ack and ack_bits that a slot also stores are never *)
(* read and are left out.                                                  *)
(***************************************************************************)
EXTENDS SeqNum, Sequences, FiniteSets

CONSTANTS
    ReassemblySize,     \* fragment_reassembly_buffer_size, a power of two
    MaxFragments,       \* max_fragments, at most 255
    NoEntry,
    NoChunk

\* A power of two, as validate asks.  It sets no upper limit; beyond half of the
\* sequences the comparison has no meaning.
ASSUME ReassemblyAssumption ==
    /\ ReassemblySize \in Nat \ {0}
    /\ SeqSpace % ReassemblySize = 0
    /\ 2 * ReassemblySize <= SeqSpace
    /\ MaxFragments \in Nat

Tracker == INSTANCE SeqBufferOps WITH Size <- ReassemblySize, AckWidth <- 0

FragmentIds == 0 .. (MaxFragments - 1)

EmptySlot ==
    [sequence |-> 0, num_fragments |-> 0, num_fragments_received |-> 0,
     fragment_received |-> {}, chunks |-> [k \in FragmentIds |-> NoChunk]]

NewReassembly ==
    [tracker |-> Tracker!NewBuffer,
     slots   |-> [i \in Tracker!Slots |-> EmptySlot]]

\* ReassemblyData::reset: only the lengths in use are zeroed.
ResetSlot(slot, seq, num) ==
    [sequence |-> seq, num_fragments |-> num, num_fragments_received |-> 0,
     fragment_received |-> {},
     chunks |-> [k \in FragmentIds |-> IF k < num THEN NoChunk ELSE slot.chunks[k]]]

HasFragment(slot, id) == id \in slot.fragment_received

\* Bug: a fragment is counted without being marked.
StoreFragmentUnmarked(slot, id, chunk) ==
    [slot EXCEPT !.chunks[id] = chunk, !.num_fragments_received = @ + 1]

\* store_fragment, mark_fragment and the count.
StoreFragment(slot, id, chunk) ==
    [slot EXCEPT !.chunks[id] = chunk,
                 !.fragment_received = @ \cup {id},
                 !.num_fragments_received = @ + 1]

IsComplete(slot) == slot.num_fragments_received = slot.num_fragments

\* copy_to: the chunks in fragment order.
CopyTo(slot) ==
    [k \in 1 .. slot.num_fragments |-> slot.chunks[k - 1]]

ValidFragment(f) ==
    /\ f.num_fragments # 0
    /\ f.num_fragments <= MaxFragments
    /\ f.fragment_id < f.num_fragments

\* The slot a valid fragment is collected in: reset when its sequence is new.
OpenSlot(r, f) ==
    LET slot == r.slots[Tracker!Index(f.sequence)]
    IN  IF Tracker!Exists(r.tracker, f.sequence)
        THEN slot
        ELSE ResetSlot(slot, f.sequence, f.num_fragments)

\* Whether process_fragment gets as far as storing the fragment.
Accepts(r, f) ==
    /\ ValidFragment(f)
    /\ \/ Tracker!Exists(r.tracker, f.sequence)
       \/ Tracker!CanInsert(r.tracker, f.sequence)
    /\ OpenSlot(r, f).sequence = f.sequence
    /\ OpenSlot(r, f).num_fragments = f.num_fragments
    /\ ~HasFragment(OpenSlot(r, f), f.fragment_id)

\* The tracker entry of a new sequence.  tracker.insert also runs for a new
\* sequence only.
Track(r, f) ==
    IF Tracker!Exists(r.tracker, f.sequence)
    THEN r.tracker
    ELSE Tracker!Insert(r.tracker, f.sequence, {})

Collected(r, f) == StoreFragment(OpenSlot(r, f), f.fragment_id, f.chunk)

\* Bug: the tracker entry outlives the completed packet.
ProcessFragmentKeepsTracking(r, f) ==
    IF ~Accepts(r, f) THEN [reassembly |-> r, complete |-> FALSE] ELSE
    [reassembly |-> [tracker |-> Track(r, f),
                     slots |-> [r.slots EXCEPT ![Tracker!Index(f.sequence)] =
                                    Collected(r, f)]],
     complete   |-> IsComplete(Collected(r, f))]

\* process_fragment up to the completed payload, which the caller writes into
\* the incoming queue.  The tracker forgets a completed packet whether or not
\* the queue had room for it.
ProcessFragment(r, f) ==
    IF ~Accepts(r, f) THEN [reassembly |-> r, complete |-> FALSE] ELSE
    [reassembly |-> [tracker |-> IF IsComplete(Collected(r, f))
                                 THEN Tracker!Remove(Track(r, f), f.sequence)
                                 ELSE Track(r, f),
                     slots |-> [r.slots EXCEPT ![Tracker!Index(f.sequence)] =
                                    Collected(r, f)]],
     complete   |-> IsComplete(Collected(r, f))]

\* Bug: the tracker survives a reset, like the slots.
ResetReassemblyNothing(r) == r

\* reset(): the tracker alone; the slots keep what they held.
ResetReassembly(r) == [r EXCEPT !.tracker = Tracker!NewBuffer]

================================================================================
