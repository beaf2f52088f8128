--------------------------- MODULE MCSequenceBuffer ---------------------------
(***************************************************************************)
(* SequenceBuffer for TLC.  The ids run past two wraps of the sequence     *)
(* space, so that every jump, gap and re-insertion happens at every place  *)
(* of the wrap.                                                            *)
(***************************************************************************)
EXTENDS SequenceBuffer

CONSTANT MaxId      \* bound: the highest id named

MCIds == 0 .. MaxId

================================================================================
