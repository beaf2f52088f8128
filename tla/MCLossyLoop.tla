----------------------------- MODULE MCLossyLoop ------------------------------
(***************************************************************************)
(* LossyLoop for TLC.                                                      *)
(***************************************************************************)
EXTENDS LossyLoop

\* A chunk of no packet.
MCNoChunk == [id |-> -1, k |-> 0, len |-> 0]

================================================================================
