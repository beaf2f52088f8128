---------------------------- MODULE SequenceWindow ----------------------------
(***************************************************************************)
(* What a SequenceBuffer promises, without wrapping and without slots: the *)
(* set of the packet ids it remembers, all of them among the WindowSize    *)
(* ids below top.  Ids are absolute and never wrap.                        *)
(***************************************************************************)
EXTENDS Integers

CONSTANTS
    WindowSize,     \* how many ids the window covers
    Ids             \* the absolute packet ids

VARIABLES
    top,            \* the id after the highest one ever inserted
    seen            \* the ids remembered

vars == <<top, seen>>

Init == top = 0 /\ seen = {}

\* An id below the window is refused; one above it moves the window up, and
\* exactly the ids that fall out of the window are forgotten.
Insert(n) ==
    \/ n < top - WindowSize /\ UNCHANGED vars
    \/ /\ n >= top - WindowSize
       /\ top' = IF n >= top THEN n + 1 ELSE top
       /\ seen' = {m \in seen \cup {n} : m >= top' - WindowSize}

Remove(n) == seen' = seen \ {n} /\ UNCHANGED top

Reset == top' = 0 /\ seen' = {}

Next == Reset \/ \E n \in Ids : Insert(n) \/ Remove(n)

Spec == Init /\ [][Next]_vars

================================================================================
