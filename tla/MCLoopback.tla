----------------------------- MODULE MCLoopback -------------------------------
(***************************************************************************)
(* Loopback for TLC.                                                       *)
(***************************************************************************)
EXTENDS Loopback

\* A chunk of no packet.
MCNoChunk == [id |-> -1, k |-> 0, len |-> 0]

================================================================================
