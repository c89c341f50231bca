------------------------------- MODULE MCSendQueue -------------------------------
(* Instances of SendQueue for TLC: every message of up to MaxLen bytes.     *)
EXTENDS SendQueue

CONSTANT MaxLen

MCMessage == UNION {[1..n -> Byte] : n \in 1..MaxLen}
====
