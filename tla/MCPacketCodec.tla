----------------------------- MODULE MCPacketCodec -----------------------------
(***************************************************************************)
(* PacketCodec for TLC: sequences and acks whose differences are around 0, *)
(* 255, 256 and the wrap, and every mix of ack_bits bytes left out or not. *)
(***************************************************************************)
EXTENDS PacketCodec

MCPacketHeaders ==
    [sequence : {0, 255, 256, 65535}, ack : {0, 255, 65280, 65281, 65535},
     ack_bits : [1 .. 4 -> {1, 255}]]

MCFragmentHeaders ==
    [sequence : {257}, fragment_id : {0, 1}, num_fragments : {2}]

MCPayloads == {<< >>, <<1, 254>>}

================================================================================
