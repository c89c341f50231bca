------------------------------- MODULE SerialBuffer -------------------------------
(***************************************************************************)
(* SerialBuffer.cpp: a block of capacity bytes, a length and the positions *)
(* where the next byte is written and read.  A buffer is a record, its     *)
(* bytes a sequence; an operator returns the buffer after the call.  Only  *)
(* Clear brings the positions back, and << looks at capacity and length,   *)
(* never at the write position.                                            *)
(***************************************************************************)
EXTENDS Integers, Sequences

CONSTANT Junk      \* what new char[] leaves in a byte

SerialBuffer(size) ==
  [capacity |-> size, length |-> 0, writePos |-> 0, readPos |-> 0,
   bytes |-> [i \in 1..size |-> Junk]]

MutantClear(b) == [b EXCEPT !.length = 0, !.writePos = 0]
Clear(b) == [b EXCEPT !.length = 0, !.writePos = 0, !.readPos = 0]

(* The bytes with src copied to the place after the first at of them; what *)
(* lands past the block is not modelled.                                   *)
Copied(bytes, at, src) ==
  [i \in DOMAIN bytes |-> IF i \in at + 1 .. at + Len(src) THEN src[i - at] ELSE bytes[i]]

(* << of one value after the other: the first that does not fit throws.    *)
CanWrite(b, src) == b.capacity - b.length >= Len(src)

Write(b, src) ==
  [b EXCEPT !.bytes = Copied(@, b.writePos, src),
            !.length = @ + Len(src), !.writePos = @ + Len(src)]

CanRead(b, len) == b.length >= len

Read(b, len) == [b EXCEPT !.length = @ - len, !.readPos = @ + len]

(* What Read copies to pDest.                                              *)
Peeked(b, len) == SubSeq(b.bytes, b.readPos + 1, b.readPos + len)

(* Bytes put at GetBufferPtr from outside, then MoveWritePos and           *)
(* SetDataLength.                                                          *)
Filled(b, src) ==
  [b EXCEPT !.bytes = Copied(@, 0, src), !.writePos = @ + Len(src), !.length = Len(src)]

(* GetBufferPtr with GetLength, the way SendUniCast takes a message.       *)
Contents(b) == SubSeq(b.bytes, 1, b.length)

(* No position is past the block.                                          *)
InBounds(b) == b.writePos <= b.capacity /\ b.readPos + b.length <= b.capacity
====
