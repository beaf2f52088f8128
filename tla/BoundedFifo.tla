------------------------------ MODULE BoundedFifo ------------------------------
(***************************************************************************)
(* What a PacketQueue promises: a first-in first-out queue of at most      *)
(* Capacity packets that refuses a packet when it is full and hands out    *)
(* everything it holds, in order, when it is drained.                      *)
(***************************************************************************)
EXTENDS Naturals, Sequences

CONSTANTS
    Capacity,       \* how many packets the queue holds
    Packets         \* what it holds

VARIABLES
    queue,          \* the packets held, the oldest first
    ok,             \* whether the last write was accepted
    out             \* what the last drain handed to its callback

vars == <<queue, ok, out>>

Init == queue = << >> /\ ok = TRUE /\ out = << >>

Write(p) ==
    /\ \/ Len(queue) < Capacity /\ queue' = Append(queue, p) /\ ok' = TRUE
       \/ Len(queue) >= Capacity /\ UNCHANGED queue /\ ok' = FALSE
    /\ UNCHANGED out

Drain == out' = queue /\ queue' = << >> /\ UNCHANGED ok

Clear == queue' = << >> /\ UNCHANGED <<ok, out>>

Next == Drain \/ Clear \/ \E p \in Packets : Write(p)

Spec == Init /\ [][Next]_vars

================================================================================
