-------------------------------- MODULE RingBuffer --------------------------------
(***************************************************************************)
(* RingBuffer.cpp: an array of size bytes with two indices.  One place     *)
(* always stays free, so that front = rear means empty.  The operations    *)
(* below are the member functions; the modules that extend this one use    *)
(* them the way NetworkManager uses a session's SendQ and RecvQ.           *)
(***************************************************************************)
EXTENDS Integers, Sequences

CONSTANTS
  Size,       \* size, 4096 for both queues of a Session
  Byte        \* what a char of the buffer may hold

ASSUME SizeAssumption == Size \in Nat \ {0} /\ Byte # {}

VARIABLES ring, front, rear

Index == 0..Size - 1

RingTypeOK == ring \in [Index -> Byte] /\ front \in Index /\ rear \in Index

(* new char[s] leaves the bytes as they are; which ones never matters.     *)
RingInit == ring \in {[i \in Index |-> b] : b \in Byte} /\ front = 0 /\ rear = 0

GetUseSize == IF front <= rear THEN rear - front ELSE Size - front + rear

GetFreeSize == Size - GetUseSize - 1

Lesser(a, b) == IF a < b THEN a ELSE b

(* The room up to the end of the array, or up to front.                    *)
DirectEnqueue ==
  IF GetFreeSize = 0 THEN 0
  ELSE IF front <= rear THEN Size - rear
  ELSE front - rear - 1

DirectDequeue == IF front <= rear THEN rear - front ELSE Size - front

(* The two memcpys of Peek and Dequeue: n bytes from front, then from the  *)
(* start of the array.                                                     *)
Read(n) ==
  LET fLen == Lesser(Size - front, n)
  IN [i \in 1..n |-> IF i <= fLen THEN ring[front + i - 1] ELSE ring[i - fLen - 1]]

(* The two memcpys of Enqueue.                                             *)
MutantWritten(msg) ==
  LET fLen == Lesser(Size - rear, Len(msg))
  IN [i \in Index |-> IF i \in rear .. rear + fLen - 1 THEN msg[i - rear + 1]
                      ELSE IF i < Len(msg) - fLen THEN msg[i + 1]
                      ELSE ring[i]]
Written(msg) ==
  LET fLen == Lesser(Size - rear, Len(msg))
  IN [i \in Index |-> IF i \in rear .. rear + fLen - 1 THEN msg[i - rear + 1]
                      ELSE IF i < Len(msg) - fLen THEN msg[fLen + i + 1]
                      ELSE ring[i]]

Fits(len) == ~(GetFreeSize < len \/ len > Size - 1)

(* Enqueue(msg, len) when it returns len.                                  *)
Enqueue(msg) ==
  /\ ring' = Written(msg)
  /\ rear' = (rear + Len(msg)) % Size
  /\ UNCHANGED front

(* The index wraps over the end of the array.                              *)
MutantMoveFront(n) ==
  front' = (IF front + n >= Size THEN 0 ELSE front + n) /\ UNCHANGED <<ring, rear>>
MoveFront(n) == front' = (front + n) % Size /\ UNCHANGED <<ring, rear>>

MoveRear(n) == rear' = (rear + n) % Size /\ UNCHANGED front
====
