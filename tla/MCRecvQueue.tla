------------------------------- MODULE MCRecvQueue -------------------------------
(* Instances of RecvQueue for TLC: packets of the two known types, one too  *)
(* short for its type, one of an unknown type, one longer than the block    *)
(* and one with another code.                                               *)
EXTENDS RecvQueue

MCChunk == {<<2, 0, 0>>, <<2, 1, 1, 2>>, <<2, 0, 1>>, <<2, 0, 2>>, <<2, 2, 0, 1, 2>>, <<1, 0, 0>>}

MCPayloadSize == [t \in {0, 1} |-> t]
====
