----------------------------- MODULE MCPacketQueue -----------------------------
(***************************************************************************)
(* PacketQueue for TLC: the positions wrap after a few writes.             *)
(***************************************************************************)
EXTENDS PacketQueue

MCSeqs == 0 .. 1

================================================================================
