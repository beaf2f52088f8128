-------------------------------- MODULE SeqNum --------------------------------
(***************************************************************************)
(* Wrapping sequence numbers: src/utils.rs.  The code fixes the width to   *)
(* u16, so SeqSpace is 2^16; the module keeps it a parameter so that TLC can *)
(* use a small modulus and the proofs cover every even one.                *)
(***************************************************************************)
EXTENDS Integers

CONSTANT SeqSpace     \* number of sequence numbers; 65536 in the code

ASSUME SeqSpaceAssumption ==
    /\ SeqSpace \in Nat
    /\ SeqSpace >= 4
    /\ SeqSpace % 2 = 0

SeqNums == 0 .. (SeqSpace - 1)

\* The literal 32768 of the comparison.
Half == SeqSpace \div 2

\* Bug: an addition that does not wrap.
PlainAdd(a, b) == a + b

\* u16::wrapping_add and u16::wrapping_sub, on operands that are u16 already.
WrappingAdd(a, b) == IF a + b < SeqSpace THEN a + b ELSE a + b - SeqSpace

WrappingSub(a, b) == IF a >= b THEN a - b ELSE a - b + SeqSpace

\* Bug: the comparison without its wrap-around arm.
RawGreaterThan(s1, s2) == s1 > s2

SequenceGreaterThan(s1, s2) ==
    \/ s1 > s2 /\ s1 - s2 <= Half
    \/ s1 < s2 /\ s2 - s1 > Half

SequenceLessThan(s1, s2) == SequenceGreaterThan(s2, s1)

================================================================================
