-------------------------------- MODULE SendQueue --------------------------------
(***************************************************************************)
(* One session's SendQ: SendUniCast queues whole messages at any time, and *)
(* SendPacket hands send() the contiguous bytes at the front, of which it  *)
(* takes what the socket has room for.                                     *)
(***************************************************************************)
EXTENDS RingBuffer

CONSTANT Message    \* the messages sent, sequences of bytes

ASSUME MessageAssumption == Message \subseteq Seq(Byte)

VARIABLES
  in,       \* the message SendUniCast was given last
  out,      \* the bytes send() took last
  open      \* ~isDelete

vars == <<ring, front, rear, in, out, open>>

(* A session that is already marked deleted is queued messages as well:    *)
(* SendUniCast does not look at isDelete.                                  *)
SendUniCast(msg) ==
  /\ in' = msg
  /\ \/ Fits(Len(msg)) /\ Enqueue(msg) /\ UNCHANGED <<out, open>>
     \/ ~Fits(Len(msg)) /\ open' = FALSE /\ UNCHANGED <<ring, front, rear, out>>

(* send() took n of the DirectDequeue() bytes it was given.  NetworkManage *)
(* passes over a session that is marked deleted.                           *)
SendPacket(n) ==
  /\ open
  /\ n \in 1..DirectDequeue
  /\ out' = [i \in 1..n |-> ring[front + i - 1]]
  /\ MoveFront(n)
  /\ UNCHANGED <<in, open>>

Init == RingInit /\ in = <<>> /\ out = <<>> /\ open = TRUE

Next == \/ \E m \in Message : SendUniCast(m)
        \/ \E n \in 1..Size : SendPacket(n)

Spec == Init /\ [][Next]_vars

-----------------------------------------------------------------------------
(* The indices stay inside the array and the array holds bytes.            *)
TypeOK == RingTypeOK /\ in \in Seq(Byte) /\ out \in Seq(Byte) /\ open \in BOOLEAN

(* The ring is the queue of bytes it should be, of one byte less than its  *)
(* size: no wrap of an index, no split copy and no partial send() loses,   *)
(* repeats or reorders a byte, or refuses a message that fits.             *)
BQ == INSTANCE ByteQueue WITH queue <- Read(GetUseSize), Capacity <- Size - 1

ImplementsByteQueue == BQ!Spec
====
