----------------------------- MODULE MCConnection -----------------------------
(***************************************************************************)
(* Connection for TLC: two endpoints, A the busier one.                    *)
(***************************************************************************)
EXTENDS Connection

CONSTANTS A, B, SendsA, SendsB      \* bounds on what each of them sends

MCEndpoints == {A, B}

\* A chunk of no packet.
MCNoChunk == [id |-> -1, k |-> 0, len |-> 0]

MCMaxSends == (A :> SendsA) @@ (B :> SendsB)

================================================================================
