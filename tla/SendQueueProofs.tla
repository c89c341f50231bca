----------------------------- MODULE SendQueueProofs -----------------------------
(***************************************************************************)
(* SendQueue implements ByteQueue, for every size of ring and every set of *)
(* messages.                                                               *)
(***************************************************************************)
EXTENDS SendQueue, SequenceTheorems, TLAPS

-----------------------------------------------------------------------------
(* The ring's indices and copies.                                          *)

(* Indices wrap at most once.                                              *)
LEMMA WrapOnce ==
  ASSUME NEW a \in Nat, a < 2 * Size
  PROVE  a % Size = IF a < Size THEN a ELSE a - Size
BY SizeAssumption, SMTT(30)

(* A wrapped index is one.                                                 *)
LEMMA WrapIndex ==
  ASSUME NEW a \in Nat
  PROVE  a % Size \in Index
BY SizeAssumption DEF Index

(* The place of the j-th byte behind front.                                *)
Place(f, j) == IF f + j < Size THEN f + j ELSE f + j - Size

(* The ring never claims to hold more than it can, and what DirectDequeue  *)
(* offers to send() lies within the array.                                 *)
LEMMA UseSizeBound ==
  ASSUME RingTypeOK
  PROVE  /\ GetUseSize \in 0..Size - 1
         /\ DirectDequeue \in 0..GetUseSize
         /\ DirectDequeue <= Size - front
BY SizeAssumption DEF RingTypeOK, Index, GetUseSize, DirectDequeue

(* The modulus of MoveFront, MoveRear and Enqueue is that wrap.            *)
LEMMA PlaceWraps ==
  ASSUME NEW f \in Index, NEW j \in 0..Size - 1
  PROVE  (f + j) % Size = Place(f, j) /\ Place(f, j) \in Index
<1>1. \E a \in Nat : a = f + j /\ a < 2 * Size
  BY SizeAssumption DEF Index
<1>2. PICK a \in Nat : a = f + j /\ a < 2 * Size
  BY <1>1
<1>3. a % Size = IF a < Size THEN a ELSE a - Size
  BY <1>2, WrapOnce
<1>. QED
  BY <1>2, <1>3, SizeAssumption DEF Place, Index

(* What Read copies, of an array r from place f.                           *)
Copy(r, f, n) ==
  [i \in 1..n |-> IF i <= Lesser(Size - f, n) THEN r[f + i - 1] ELSE r[i - Lesser(Size - f, n) - 1]]

(* Both memcpys together copy the bytes behind front, in order.            *)
LEMMA CopyPlaces ==
  ASSUME NEW r \in [Index -> Byte], NEW f \in Index, NEW n \in 0..Size - 1
  PROVE  /\ Copy(r, f, n) \in Seq(Byte) /\ Len(Copy(r, f, n)) = n
         /\ \A i \in 1..n : Copy(r, f, n)[i] = r[Place(f, i - 1)]
<1>1. \A i \in 1..n : /\ Copy(r, f, n)[i] = r[Place(f, i - 1)]
                      /\ Copy(r, f, n)[i] \in Byte
  BY SizeAssumption DEF Copy, Lesser, Place, Index
<1>2. Copy(r, f, n) = [i \in 1..n |-> Copy(r, f, n)[i]]
  BY DEF Copy
<1>. QED
  BY <1>1, <1>2

-----------------------------------------------------------------------------
(* The indices stay inside the array and the array holds bytes.            *)
THEOREM TypeInv == Spec => []TypeOK
<1>1. Init => TypeOK
  BY SizeAssumption DEF Init, RingInit, TypeOK, RingTypeOK, Index
<1>2. TypeOK /\ [Next]_vars => TypeOK'
  <2>. SUFFICES ASSUME TypeOK, [Next]_vars PROVE TypeOK'
    OBVIOUS
  <2>0. RingTypeOK /\ in \in Seq(Byte) /\ out \in Seq(Byte) /\ open \in BOOLEAN
    BY DEF TypeOK
  <2>1. ASSUME NEW m \in Message, SendUniCast(m) PROVE TypeOK'
    <3>0. in' \in Seq(Byte)
      BY <2>1, MessageAssumption DEF SendUniCast
    <3>1. CASE ~Fits(Len(m)) /\ open' = FALSE /\ UNCHANGED <<ring, front, rear, out>>
      BY <2>0, <3>0, <3>1 DEF TypeOK, RingTypeOK
    <3>2. CASE Fits(Len(m)) /\ Enqueue(m) /\ UNCHANGED <<out, open>>
      <4>1. m \in Seq(Byte) /\ Len(m) \in Nat
        BY MessageAssumption
      <4>2. Len(m) <= Size - 1 /\ rear + Len(m) \in Nat /\ rear + Len(m) < 2 * Size
        BY <2>0, <3>2, <4>1, UseSizeBound, SizeAssumption DEF Fits, GetFreeSize, RingTypeOK, Index
      <4>3. rear' \in Index
        <5>1. (rear + Len(m)) % Size \in Index
          BY <4>2, WrapIndex
        <5>. QED
          BY <3>2, <5>1 DEF Enqueue
      <4>4. ring' \in [Index -> Byte]
        <5>. DEFINE fLen == Lesser(Size - rear, Len(m))
        <5>1. /\ fLen \in 0..Len(m) /\ rear \in Index
              /\ \A j \in 1..Len(m) : m[j] \in Byte
              /\ \A i \in Index : ring[i] \in Byte
          BY <2>0, <4>1, SizeAssumption DEF Lesser, RingTypeOK, Index
        <5>2. ring' = [i \in Index |-> IF i \in rear .. rear + fLen - 1 THEN m[i - rear + 1]
                                       ELSE IF i < Len(m) - fLen THEN m[fLen + i + 1]
                                       ELSE ring[i]]
          BY <3>2 DEF Enqueue, Written
        <5>. HIDE DEF fLen
        <5>3. ASSUME NEW i \in Index
              PROVE  /\ i \in rear .. rear + fLen - 1 => i - rear + 1 \in 1..Len(m)
                     /\ i < Len(m) - fLen => fLen + i + 1 \in 1..Len(m)
          BY <4>1, <5>1, SizeAssumption DEF Index
        <5>. QED
          BY <5>1, <5>2, <5>3
      <4>. QED
        BY <2>0, <3>0, <3>2, <4>3, <4>4 DEF Enqueue, TypeOK, RingTypeOK
    <3>. QED
      BY <2>1, <3>1, <3>2 DEF SendUniCast
  <2>2. ASSUME NEW n \in 1..Size, SendPacket(n) PROVE TypeOK'
    <3>1. n \in 1..DirectDequeue /\ n <= Size - front /\ n \in Nat /\ n < Size
      BY <2>0, <2>2, UseSizeBound, SizeAssumption DEF SendPacket, DirectDequeue, RingTypeOK, Index
    <3>2. front' \in Index
      <4>1. front + n \in Nat /\ front + n < 2 * Size
        BY <2>0, <3>1, SizeAssumption DEF RingTypeOK, Index
      <4>. QED
        <5>1. (front + n) % Size \in Index
          BY <4>1, WrapIndex
        <5>. QED
          BY <2>2, <5>1 DEF SendPacket, MoveFront
    <3>3. out' \in Seq(Byte)
      BY <2>0, <2>2, <3>1, SizeAssumption DEF SendPacket, RingTypeOK, Index
    <3>. QED
      BY <2>0, <2>2, <3>2, <3>3 DEF SendPacket, MoveFront, TypeOK, RingTypeOK
  <2>3. CASE UNCHANGED vars
    BY <2>0, <2>3 DEF vars, TypeOK, RingTypeOK
  <2>. QED
    BY <2>1, <2>2, <2>3 DEF Next
<1>. QED
  BY <1>1, <1>2, PTL DEF Spec

(* Enqueue appends its message to the bytes of the ring.                   *)
LEMMA EnqueueAppends ==
  ASSUME TypeOK, TypeOK', NEW m \in Seq(Byte), Fits(Len(m)), Enqueue(m)
  PROVE  /\ GetUseSize + Len(m) <= Size - 1
         /\ Read(GetUseSize)' = Read(GetUseSize) \o m
<1>. DEFINE use == GetUseSize
            len == Len(m)
<1>1. len \in Nat /\ use \in 0..Size - 1 /\ use + len <= Size - 1
  BY UseSizeBound, SizeAssumption DEF Fits, GetFreeSize, TypeOK
<1>2. rear' = Place(rear, len) /\ front' = front
  BY <1>1, PlaceWraps, SizeAssumption DEF Enqueue, TypeOK, RingTypeOK
<1>3. GetUseSize' = use + len
  BY <1>1, <1>2, SizeAssumption DEF GetUseSize, Place, TypeOK, RingTypeOK, Index
<1>4. /\ front \in Index /\ rear \in Index
      /\ \/ front <= rear /\ rear = front + use
         \/ rear < front /\ rear = front + use - Size
  BY SizeAssumption DEF GetUseSize, TypeOK, RingTypeOK, Index
<1>. DEFINE fLen == Lesser(Size - rear, len)
<1>5. /\ fLen \in 0..len /\ fLen <= Size - rear
      /\ fLen = len \/ fLen = Size - rear
  BY <1>1, <1>4, SizeAssumption DEF Lesser, Index
<1>6. \A p \in Index :
        /\ p \in rear .. rear + fLen - 1 => ring'[p] = m[p - rear + 1]
        /\ p \notin rear .. rear + fLen - 1 /\ p < len - fLen => ring'[p] = m[fLen + p + 1]
        /\ p \notin rear .. rear + fLen - 1 /\ p >= len - fLen => ring'[p] = ring[p]
  BY <1>1, <1>4, <1>5, SizeAssumption DEF Enqueue, Written, Index
<1>. HIDE DEF use, len, fLen
<1>7. ASSUME NEW i \in 1..use
      PROVE  ring'[Place(front, i - 1)] = ring[Place(front, i - 1)]
  <2>. DEFINE p == Place(front, i - 1)
  <2>1. p \in Index /\ p \notin rear .. rear + fLen - 1 /\ p >= len - fLen
    BY <1>1, <1>4, <1>5, SizeAssumption DEF Place, Index
  <2>. QED
    BY <1>6, <2>1
<1>8. ASSUME NEW i \in use + 1 .. use + len
      PROVE  ring'[Place(front, i - 1)] = m[i - use]
  <2>. DEFINE p == Place(front, i - 1)
  <2>1. CASE i - use <= fLen
    <3>1. p \in Index /\ p \in rear .. rear + fLen - 1 /\ p - rear + 1 = i - use
      BY <1>1, <1>4, <1>5, <2>1, SizeAssumption DEF Place, Index
    <3>. QED
      BY <1>6, <3>1
  <2>2. CASE i - use > fLen
    <3>1. /\ p \in Index /\ p \notin rear .. rear + fLen - 1
          /\ p < len - fLen /\ fLen + p + 1 = i - use
      BY <1>1, <1>4, <1>5, <2>2, SizeAssumption DEF Place, Index
    <3>. QED
      BY <1>6, <3>1
  <2>. QED
    BY <1>1, <1>5, <2>1, <2>2
<1>9. /\ Read(use) \in Seq(Byte) /\ Len(Read(use)) = use
      /\ \A i \in 1..use : Read(use)[i] = ring[Place(front, i - 1)]
  <2>1. Read(use) = Copy(ring, front, use)
    BY DEF Read, Copy
  <2>. QED
    <3>1. ring \in [Index -> Byte] /\ front \in Index
      BY DEF TypeOK, RingTypeOK
    <3>. QED
      BY <1>1, <2>1, <3>1, CopyPlaces
<1>10. /\ Read(GetUseSize)' \in Seq(Byte) /\ Len(Read(GetUseSize)') = use + len
       /\ \A i \in 1..use + len : Read(GetUseSize)'[i] = ring'[Place(front, i - 1)]
  <2>1. Read(GetUseSize)' = Copy(ring', front', GetUseSize')
    BY DEF Read, Copy
  <2>2. use + len \in 0..Size - 1 /\ ring' \in [Index -> Byte] /\ front' \in Index
    BY <1>1, SizeAssumption DEF TypeOK, RingTypeOK
  <2>3. Read(GetUseSize)' = Copy(ring', front, use + len)
    BY <1>2, <1>3, <2>1
  <2>. QED
    BY <1>2, <2>2, <2>3, CopyPlaces
<1>. DEFINE old == Read(use)
            now == Read(GetUseSize)'
<1>11. /\ \A i \in 1..use : now[i] = old[i]
       /\ \A i \in use + 1 .. use + len : now[i] = m[i - use]
  <2>1. /\ \A i \in 1..use : i \in 1..use + len
        /\ \A i \in use + 1 .. use + len : i \in 1..use + len
    BY <1>1, SizeAssumption
  <2>2. \A i \in 1..use : now[i] = old[i]
    BY <1>7, <1>9, <1>10, <2>1
  <2>3. \A i \in use + 1 .. use + len : now[i] = m[i - use]
    BY <1>8, <1>10, <2>1
  <2>. QED
    BY <2>2, <2>3
<1>12. old \o m \in Seq(Byte) /\ Len(old \o m) = use + len
  BY <1>9, ConcatProperties DEF len
<1>13. /\ now \in Seq(Byte) /\ Len(now) = use + len
       /\ old \in Seq(Byte) /\ Len(old) = use
  BY <1>9, <1>10
<1>. HIDE DEF old, now
<1>14. \A i \in 1..use + len : now[i] = (old \o m)[i]
  <2>1. \A i \in 1..use + len : (old \o m)[i] = IF i <= use THEN old[i] ELSE m[i - use]
    BY <1>13, ConcatProperties DEF len
  <2>2. \A i \in 1..use + len : IF i <= use THEN i \in 1..use ELSE i \in use + 1 .. use + len
    BY <1>1, SizeAssumption
  <2>. QED
    BY <1>1, <1>11, <2>1, <2>2
<1>15. now = old \o m
  BY <1>12, <1>13, <1>14, SeqEqual
<1>. QED
  BY <1>1, <1>15 DEF old, now, use, len

(* SendPacket hands out the oldest bytes and leaves the others.            *)
LEMMA SendTakesOldest ==
  ASSUME TypeOK, TypeOK', NEW n \in 1..Size, SendPacket(n)
  PROVE  /\ n \in 1..GetUseSize
         /\ out' = SubSeq(Read(GetUseSize), 1, n)
         /\ Read(GetUseSize)' = SubSeq(Read(GetUseSize), n + 1, GetUseSize)
<1>. DEFINE use == GetUseSize
            old == Read(use)
            now == Read(GetUseSize)'
<1>1. /\ use \in 0..Size - 1 /\ n \in Nat /\ n <= use /\ n <= Size - front
      /\ front \in Index /\ rear \in Index /\ front' \in Index
      /\ ring \in [Index -> Byte] /\ rear' = rear /\ ring' = ring
  <2>1. n \in 1..DirectDequeue
    BY DEF SendPacket
  <2>. QED
    BY <2>1, UseSizeBound, SizeAssumption DEF SendPacket, MoveFront, TypeOK, RingTypeOK, Index
<1>2. front' = Place(front, n)
  BY <1>1, PlaceWraps, SizeAssumption DEF SendPacket, MoveFront
<1>3. GetUseSize' = use - n
  BY <1>1, <1>2, SizeAssumption DEF GetUseSize, Place, Index
<1>4. /\ old \in Seq(Byte) /\ Len(old) = use
      /\ \A i \in 1..use : old[i] = ring[Place(front, i - 1)]
  <2>1. old = Copy(ring, front, use)
    BY DEF Read, Copy
  <2>. QED
    BY <1>1, <2>1, CopyPlaces
<1>5. /\ now \in Seq(Byte) /\ Len(now) = use - n
      /\ \A i \in 1..use - n : now[i] = ring[Place(front', i - 1)]
  <2>1. now = Copy(ring', front', GetUseSize')
    BY DEF Read, Copy
  <2>. DEFINE k == use - n
              f == front'
  <2>2. k \in 0..Size - 1 /\ f \in Index /\ ring \in [Index -> Byte]
    BY <1>1, SizeAssumption
  <2>3. now = Copy(ring, f, k)
    BY <1>1, <1>3, <2>1
  <2>. HIDE DEF k, f, now
  <2>4. /\ now \in Seq(Byte) /\ Len(now) = k
        /\ \A i \in 1..k : now[i] = ring[Place(f, i - 1)]
    BY <2>2, <2>3, CopyPlaces
  <2>. QED
    BY <2>4 DEF k, f
<1>6. out' = [i \in 1..n |-> ring[front + i - 1]]
  BY DEF SendPacket
<1>. HIDE DEF use, old, now
<1>7. ASSUME NEW i \in 1..use - n
      PROVE  now[i] = old[i + n]
  <2>1. Place(front', i - 1) = Place(front, i + n - 1)
    BY <1>1, <1>2, SizeAssumption DEF Place, Index
  <2>2. i + n \in 1..use /\ (i + n) - 1 = i + n - 1
    BY <1>1, SizeAssumption
  <2>. QED
    BY <1>4, <1>5, <2>1, <2>2
<1>8. ASSUME NEW i \in 1..n
      PROVE  out'[i] = old[i]
  <2>1. i \in 1..use /\ Place(front, i - 1) = front + i - 1
    BY <1>1, SizeAssumption DEF Place, Index
  <2>. QED
    BY <1>4, <1>6, <2>1
<1>9. now = SubSeq(old, n + 1, use)
  <2>. DEFINE rest == SubSeq(old, n + 1, use)
  <2>1. rest \in Seq(Byte) /\ Len(rest) = use - n /\ \A i \in 1..use - n : rest[i] = old[i + n]
    BY <1>1, <1>4, SizeAssumption
  <2>. HIDE DEF rest
  <2>2. now = rest
    BY <1>5, <1>7, <2>1, SeqEqual
  <2>. QED
    BY <2>2 DEF rest
<1>10. out' = SubSeq(old, 1, n)
  BY <1>1, <1>4, <1>6, <1>8, SizeAssumption
<1>. QED
  BY <1>1, <1>9, <1>10, SizeAssumption DEF use, old, now

-----------------------------------------------------------------------------
(* The two memcpys, the wrapping indices and the partial sends implement a *)
(* plain bounded queue of bytes: for every size of ring and every set of   *)
(* messages, nothing is lost, repeated or reordered, and a message is      *)
(* refused only when the queue has no room for it.                         *)
THEOREM RingIsByteQueue == Spec => ImplementsByteQueue
<1>1. Init => BQ!Init
  <2>. SUFFICES ASSUME Init PROVE BQ!Init
    OBVIOUS
  <2>1. GetUseSize = 0
    BY DEF Init, RingInit, GetUseSize
  <2>2. Read(0) = <<>>
    BY DEF Read
  <2>. QED
    BY <2>1, <2>2 DEF Init, BQ!Init
<1>2. TypeOK /\ TypeOK' /\ [Next]_vars => [BQ!Next]_<<in, Read(GetUseSize), out, open>>
  <2>. SUFFICES ASSUME TypeOK, TypeOK', [Next]_vars
                PROVE  BQ!Next \/ UNCHANGED <<in, Read(GetUseSize), out, open>>
    OBVIOUS
  <2>1. /\ GetUseSize \in 0..Size - 1
        /\ Len(Read(GetUseSize)) = GetUseSize
    <3>1. Read(GetUseSize) = Copy(ring, front, GetUseSize)
      BY DEF Read, Copy
    <3>2. GetUseSize \in 0..Size - 1
      BY UseSizeBound DEF TypeOK
    <3>3. Len(Copy(ring, front, GetUseSize)) = GetUseSize
      BY <3>2, CopyPlaces DEF TypeOK, RingTypeOK
    <3>. QED
      BY <3>1, <3>2, <3>3
  <2>2. ASSUME UNCHANGED <<ring, front, rear>>
        PROVE  Read(GetUseSize)' = Read(GetUseSize)
    BY <2>2 DEF Read, GetUseSize
  <2>3. ASSUME NEW m \in Message, SendUniCast(m) PROVE BQ!Next
    <3>1. m \in Seq(Byte) /\ Len(m) \in Nat
      BY MessageAssumption
    <3>2. CASE Fits(Len(m)) /\ Enqueue(m) /\ UNCHANGED <<out, open>>
      <4>1. BQ!Put(m)
        BY <2>1, <2>3, <3>1, <3>2, EnqueueAppends DEF SendUniCast, BQ!Put
      <4>. QED
        BY <4>1 DEF BQ!Next
    <3>3. CASE ~Fits(Len(m)) /\ open' = FALSE /\ UNCHANGED <<ring, front, rear, out>>
      <4>1. GetUseSize + Len(m) > Size - 1
        BY <2>1, <3>1, <3>3, SizeAssumption DEF Fits, GetFreeSize
      <4>2. BQ!Refuse(m)
        BY <2>1, <2>2, <2>3, <3>3, <4>1 DEF SendUniCast, BQ!Refuse
      <4>. QED
        BY <4>2 DEF BQ!Next
    <3>. QED
      BY <2>3, <3>2, <3>3 DEF SendUniCast
  <2>4. ASSUME NEW n \in 1..Size, SendPacket(n) PROVE BQ!Next
    <3>1. BQ!Take(n)
      BY <2>1, <2>4, SendTakesOldest DEF SendPacket, BQ!Take
    <3>2. n \in 1..Size - 1
      BY <2>1, <2>4, SendTakesOldest, SizeAssumption
    <3>. QED
      BY <3>1, <3>2 DEF BQ!Next
  <2>5. CASE UNCHANGED vars
    BY <2>2, <2>5 DEF vars
  <2>. QED
    BY <2>3, <2>4, <2>5 DEF Next
<1>. QED
  BY <1>1, <1>2, TypeInv, PTL DEF Spec, ImplementsByteQueue, BQ!Spec
====
