------------------------------ MODULE RecvQueueProofs ------------------------------
(***************************************************************************)
(* RecvQueue implements PacketStream, for every size of the ring, every    *)
(* set of chunks and every way TCP cuts their bytes.                       *)
(***************************************************************************)
EXTENDS RecvQueue, SequenceTheorems, TLAPS

-----------------------------------------------------------------------------
(* The ring.                                                               *)

(* Indices wrap at most once.                                              *)
LEMMA WrapOnce ==
  ASSUME NEW a \in Nat, a < 2 * Size
  PROVE  a % Size = IF a < Size THEN a ELSE a - Size
BY SizeAssumption, SMTT(30)

(* A wrapped index is one.                                                 *)
LEMMA WrapIndex ==
  ASSUME NEW a \in Nat
  PROVE  a % Size \in Index
BY SizeAssumption DEF Index

(* The place of the j-th byte behind front.                                *)
Place(f, j) == IF f + j < Size THEN f + j ELSE f + j - Size

(* The ring never claims to hold more than it can, and what DirectDequeue  *)
(* offers to send() lies within the array.                                 *)
LEMMA UseSizeBound ==
  ASSUME RingTypeOK
  PROVE  /\ GetUseSize \in 0..Size - 1
         /\ DirectDequeue \in 0..GetUseSize
         /\ DirectDequeue <= Size - front
BY SizeAssumption DEF RingTypeOK, Index, GetUseSize, DirectDequeue

(* The modulus of MoveFront, MoveRear and Enqueue is that wrap.            *)
LEMMA PlaceWraps ==
  ASSUME NEW f \in Index, NEW j \in 0..Size - 1
  PROVE  (f + j) % Size = Place(f, j) /\ Place(f, j) \in Index
<1>1. \E a \in Nat : a = f + j /\ a < 2 * Size
  BY SizeAssumption DEF Index
<1>2. PICK a \in Nat : a = f + j /\ a < 2 * Size
  BY <1>1
<1>3. a % Size = IF a < Size THEN a ELSE a - Size
  BY <1>2, WrapOnce
<1>. QED
  BY <1>2, <1>3, SizeAssumption DEF Place, Index

(* What Read copies, of an array r from place f.                           *)
Copy(r, f, n) ==
  [i \in 1..n |-> IF i <= Lesser(Size - f, n) THEN r[f + i - 1] ELSE r[i - Lesser(Size - f, n) - 1]]

(* Both memcpys together copy the bytes behind front, in order.            *)
LEMMA CopyPlaces ==
  ASSUME NEW r \in [Index -> Byte], NEW f \in Index, NEW n \in 0..Size - 1
  PROVE  /\ Copy(r, f, n) \in Seq(Byte) /\ Len(Copy(r, f, n)) = n
         /\ \A i \in 1..n : Copy(r, f, n)[i] = r[Place(f, i - 1)]
<1>1. \A i \in 1..n : /\ Copy(r, f, n)[i] = r[Place(f, i - 1)]
                      /\ Copy(r, f, n)[i] \in Byte
  BY SizeAssumption DEF Copy, Lesser, Place, Index
<1>2. Copy(r, f, n) = [i \in 1..n |-> Copy(r, f, n)[i]]
  BY DEF Copy
<1>. QED
  BY <1>1, <1>2

(* The bytes of the ring, as a copy.                                       *)
LEMMA ReadIsCopy ==
  ASSUME NEW n \in Nat
  PROVE  Read(n) = Copy(ring, front, n)
BY DEF Read, Copy

(* A shorter copy is the beginning of a longer one.                        *)
LEMMA CopyPrefix ==
  ASSUME NEW r \in [Index -> Byte], NEW f \in Index, NEW k \in 0..Size - 1, NEW n \in 0..k
  PROVE  Copy(r, f, n) = SubSeq(Copy(r, f, k), 1, n)
<1> DEFINE old == Copy(r, f, k)
           now == Copy(r, f, n)
<1>1. /\ n \in 0..Size - 1 /\ n \in Nat /\ k \in Nat
      /\ \A i \in 1..n : i \in 1..k
  BY SizeAssumption
<1>2. old \in Seq(Byte) /\ Len(old) = k /\ \A i \in 1..k : old[i] = r[Place(f, i - 1)]
  BY CopyPlaces
<1>3. now \in Seq(Byte) /\ Len(now) = n /\ \A i \in 1..n : now[i] = r[Place(f, i - 1)]
  BY <1>1, CopyPlaces
<1> HIDE DEF old, now
<1>4. SubSeq(old, 1, n) \in Seq(Byte) /\ Len(SubSeq(old, 1, n)) = n
      /\ \A i \in 1..n : SubSeq(old, 1, n)[i] = old[i]
  BY <1>1, <1>2
<1>5. now = SubSeq(old, 1, n)
  BY <1>1, <1>2, <1>3, <1>4, SeqEqual
<1> QED
  BY <1>5 DEF old, now

(* A copy from n places further on is the rest of it.                      *)
LEMMA CopySuffix ==
  ASSUME NEW r \in [Index -> Byte], NEW f \in Index, NEW k \in 0..Size - 1, NEW n \in 0..k
  PROVE  Copy(r, Place(f, n), k - n) = SubSeq(Copy(r, f, k), n + 1, k)
<1> DEFINE old == Copy(r, f, k)
           now == Copy(r, Place(f, n), k - n)
<1>1. /\ k - n \in 0..Size - 1 /\ k - n \in Nat /\ n \in Nat /\ k \in Nat
      /\ \A i \in 1..k - n : i + n \in 1..k /\ (i + n) - 1 = n + (i - 1)
  BY SizeAssumption
<1>2. Place(f, n) \in Index
  <2>1. n \in 0..Size - 1
    BY <1>1, SizeAssumption
  <2> QED
    BY <2>1, PlaceWraps
<1>3. old \in Seq(Byte) /\ Len(old) = k /\ \A i \in 1..k : old[i] = r[Place(f, i - 1)]
  BY CopyPlaces
<1>4. now \in Seq(Byte) /\ Len(now) = k - n
      /\ \A i \in 1..k - n : now[i] = r[Place(Place(f, n), i - 1)]
  BY <1>1, <1>2, CopyPlaces
<1> HIDE DEF old, now
<1>5. ASSUME NEW i \in 1..k - n PROVE now[i] = old[i + n]
  <2>1. Place(Place(f, n), i - 1) = Place(f, (i + n) - 1)
    BY <1>1, SizeAssumption DEF Place, Index
  <2> QED
    BY <1>1, <1>3, <1>4, <2>1
<1>6. SubSeq(old, n + 1, k) \in Seq(Byte) /\ Len(SubSeq(old, n + 1, k)) = k - n
      /\ \A i \in 1..k - n : SubSeq(old, n + 1, k)[i] = old[i + n]
  BY <1>1, <1>3
<1>7. now = SubSeq(old, n + 1, k)
  BY <1>1, <1>4, <1>5, <1>6, SeqEqual
<1> QED
  BY <1>7 DEF old, now

(* Bytes put behind those in the ring follow them in a copy.               *)
LEMMA CopyExtended ==
  ASSUME NEW r \in [Index -> Byte], NEW r2 \in [Index -> Byte], NEW f \in Index,
         NEW k \in Nat, NEW w \in Seq(Byte), k + Len(w) <= Size - 1,
         \A i \in 1..k : r2[Place(f, i - 1)] = r[Place(f, i - 1)],
         \A i \in 1..Len(w) : r2[Place(f, (k + i) - 1)] = w[i]
  PROVE  Copy(r2, f, k + Len(w)) = Copy(r, f, k) \o w
<1> DEFINE n == Len(w)
           old == Copy(r, f, k)
           now == Copy(r2, f, k + n)
<1>1. n \in Nat /\ k \in 0..Size - 1 /\ k + n \in 0..Size - 1
  BY SizeAssumption
<1> HIDE DEF n
<1>2. old \in Seq(Byte) /\ Len(old) = k /\ \A i \in 1..k : old[i] = r[Place(f, i - 1)]
  BY <1>1, CopyPlaces
<1>3. now \in Seq(Byte) /\ Len(now) = k + n /\ \A i \in 1..k + n : now[i] = r2[Place(f, i - 1)]
  BY <1>1, CopyPlaces
<1> HIDE DEF old, now
<1>4. old \o w \in Seq(Byte) /\ Len(old \o w) = k + n
      /\ \A i \in 1..k + n : (old \o w)[i] = IF i <= k THEN old[i] ELSE w[i - k]
  BY <1>2, ConcatProperties DEF n
<1>5. ASSUME NEW i \in 1..k + n PROVE now[i] = (old \o w)[i]
  <2>1. CASE i <= k
    <3>1. i \in 1..k
      BY <1>1, <2>1
    <3> QED
      BY <1>2, <1>3, <1>4, <2>1, <3>1
  <2>2. CASE i > k
    <3>1. i - k \in 1..Len(w) /\ k + (i - k) = i /\ ~(i <= k)
      BY <1>1, <2>2 DEF n
    <3>2. r2[Place(f, i - 1)] = w[i - k]
      BY <3>1
    <3> QED
      BY <1>3, <1>4, <3>1, <3>2
  <2>3. i \in Nat /\ k \in Nat
    BY <1>1
  <2>4. i <= k \/ i > k
    BY <2>3
  <2> QED
    BY <2>1, <2>2, <2>4
<1>6. now = old \o w
  BY <1>3, <1>4, <1>5, SeqEqual
<1> QED
  BY <1>6 DEF old, now, n

(* MoveFront drops the first n bytes.                                      *)
LEMMA MoveFrontDrops ==
  ASSUME RingTypeOK, NEW n \in 0..GetUseSize, MoveFront(n)
  PROVE  /\ RingTypeOK' /\ GetUseSize' = GetUseSize - n
         /\ Read(GetUseSize)' = SubSeq(Read(GetUseSize), n + 1, GetUseSize)
<1> DEFINE k == GetUseSize
<1>1. k \in 0..Size - 1 /\ n \in 0..k /\ n \in 0..Size - 1 /\ k - n \in Nat /\ k \in Nat
  BY UseSizeBound, SizeAssumption
<1>2. front \in Index /\ rear \in Index /\ ring \in [Index -> Byte]
  BY DEF RingTypeOK
<1>3. front' = Place(front, n) /\ front' \in Index /\ ring' = ring /\ rear' = rear
  <2>1. front' = (front + n) % Size /\ ring' = ring /\ rear' = rear
    BY DEF MoveFront
  <2>2. (front + n) % Size = Place(front, n) /\ Place(front, n) \in Index
    BY <1>1, <1>2, PlaceWraps
  <2> QED
    BY <2>1, <2>2
<1>4. RingTypeOK'
  BY <1>2, <1>3 DEF RingTypeOK
<1>5. GetUseSize' = k - n
  BY <1>1, <1>2, <1>3, SizeAssumption DEF GetUseSize, Place, Index
<1> HIDE DEF k
<1>6. Read(k) = Copy(ring, front, k)
  BY <1>1, ReadIsCopy
<1>7. Read(GetUseSize)' = Copy(ring, Place(front, n), k - n)
  BY <1>1, <1>3, <1>5 DEF Read, Copy
<1>8. Copy(ring, Place(front, n), k - n) = SubSeq(Copy(ring, front, k), n + 1, k)
  BY <1>1, <1>2, CopySuffix
<1> QED
  BY <1>4, <1>5, <1>6, <1>7, <1>8 DEF k

(* recv() puts what it takes off the wire behind the bytes of the ring, as *)
(* long as it does not fill the last place.                                *)
LEMMA RecvAppends ==
  ASSUME RingTypeOK, wire \in Seq(Byte), NEW n \in 1..Size, Recv(n),
         GetUseSize + n < Size
  PROVE  /\ RingTypeOK' /\ wire' \in Seq(Byte)
         /\ GetUseSize' = GetUseSize + n /\ Len(wire') = Len(wire) - n
         /\ Read(GetUseSize)' \o wire' = Read(GetUseSize) \o wire
<1> DEFINE k == GetUseSize  w == SubSeq(wire, 1, n)
<1>1. k \in 0..Size - 1 /\ k \in Nat /\ Len(wire) \in Nat
  BY UseSizeBound, SizeAssumption, LenProperties
<1>2. front \in Index /\ rear \in Index /\ ring \in [Index -> Byte]
  BY DEF RingTypeOK
<1>3. n \in 1..DirectEnqueue /\ n \in 1..Len(wire) /\ n \in 0..Size - 1 /\ k + n <= Size - 1
  <2>1. n \in 1..Lesser(DirectEnqueue, Len(wire))
    BY DEF Recv
  <2>2. DirectEnqueue \in Int
    BY <1>2, SizeAssumption DEF DirectEnqueue, GetFreeSize, GetUseSize, Index
  <2>3. n <= DirectEnqueue /\ n <= Len(wire) /\ n \in Nat /\ n >= 1
    BY <1>1, <2>1, <2>2 DEF Lesser
  <2> QED
    BY <1>1, <2>2, <2>3, SizeAssumption
<1>4. rear + n <= Size /\ (front > rear => rear + n < front)
  BY <1>2, <1>3, SizeAssumption DEF DirectEnqueue, GetFreeSize, GetUseSize, Index
<1>5. rear' = Place(rear, n) /\ rear' \in Index /\ front' = front
  <2>1. rear' = (rear + n) % Size /\ front' = front
    BY DEF Recv, MoveRear
  <2>2. (rear + n) % Size = Place(rear, n) /\ Place(rear, n) \in Index
    BY <1>2, <1>3, PlaceWraps
  <2> QED
    BY <2>1, <2>2
<1>6. GetUseSize' = k + n
  BY <1>1, <1>2, <1>3, <1>4, <1>5, SizeAssumption DEF GetUseSize, Place, Index
<1>7. /\ w \in Seq(Byte) /\ Len(w) = n /\ \A i \in 1..n : w[i] = wire[i]
  BY <1>1, <1>3, SubSeqProperties
<1>8. wire' = SubSeq(wire, n + 1, Len(wire))
  BY DEF Recv
<1>9. /\ wire' \in Seq(Byte) /\ Len(wire') = Len(wire) - n /\ w \o wire' = wire
  <2>1. /\ wire' \in Seq(Byte) /\ Len(wire') = Len(wire) - n
        /\ \A i \in 1..Len(wire) - n : wire'[i] = wire[n + i]
    BY <1>1, <1>3, <1>8
  <2>2. /\ w \o wire' \in Seq(Byte) /\ Len(w \o wire') = Len(w) + Len(wire')
        /\ \A i \in 1..Len(w) + Len(wire') :
             (w \o wire')[i] = IF i <= Len(w) THEN w[i] ELSE wire'[i - Len(w)]
    <3> HIDE DEF w
    <3> QED
      BY <1>7, <2>1, ConcatProperties
  <2> HIDE DEF w
  <2>3. Len(w) + Len(wire') = Len(wire)
    BY <1>1, <1>3, <1>7, <2>1
  <2>4. ASSUME NEW i \in 1..Len(wire) PROVE (w \o wire')[i] = wire[i]
    <3>1. CASE i <= n
      <4>1. i \in 1..n
        BY <1>3, <3>1
      <4> QED
        BY <1>7, <2>2, <2>3, <3>1, <4>1
    <3>2. CASE i > n
      <4>1. i - n \in 1..Len(wire) - n /\ n + (i - n) = i /\ ~(i <= n)
        BY <1>1, <1>3, <3>2
      <4> QED
        BY <1>7, <2>1, <2>2, <2>3, <4>1
    <3>3. i <= n \/ i > n
      BY <1>3
    <3> QED
      BY <3>1, <3>2, <3>3
  <2>5. w \o wire' = wire
    BY <2>2, <2>3, <2>4, SeqEqual
  <2> QED
    BY <2>1, <2>5
<1>10. ring' = [i \in Index |-> IF i \in rear .. rear + n - 1 THEN wire[i - rear + 1] ELSE ring[i]]
  BY DEF Recv
<1>11. ring' \in [Index -> Byte]
  <2>1. \A i \in Index : i \in rear .. rear + n - 1 => i - rear + 1 \in 1..Len(wire)
    BY <1>1, <1>2, <1>3 DEF Index
  <2>2. \A i \in 1..Len(wire) : wire[i] \in Byte
    BY ElementOfSeq
  <2> QED
    BY <1>2, <1>10, <2>1, <2>2
<1>12. ASSUME NEW i \in 1..k
       PROVE  ring'[Place(front, i - 1)] = ring[Place(front, i - 1)]
  <2>1. Place(front, i - 1) \in Index /\ ~(Place(front, i - 1) \in rear .. rear + n - 1)
    BY <1>1, <1>2, <1>3, <1>4, SizeAssumption DEF Place, Index, GetUseSize
  <2> QED
    BY <1>10, <2>1
<1>13. ASSUME NEW i \in 1..Len(w)
       PROVE  ring'[Place(front, (k + i) - 1)] = w[i]
  <2>1. i \in 1..n
    BY <1>7
  <2>2. /\ Place(front, (k + i) - 1) = rear + i - 1
        /\ rear + i - 1 \in Index /\ rear + i - 1 \in rear .. rear + n - 1
        /\ (rear + i - 1) - rear + 1 = i
    BY <1>1, <1>2, <1>3, <1>4, <2>1, SizeAssumption DEF Place, Index, GetUseSize
  <2> QED
    BY <1>7, <1>10, <2>1, <2>2
<1> HIDE DEF k, w
<1>14. Copy(ring', front, k + Len(w)) = Copy(ring, front, k) \o w
  <2>1. k + Len(w) <= Size - 1
    BY <1>3, <1>7
  <2> QED
    BY <1>1, <1>2, <1>7, <1>11, <1>12, <1>13, <2>1, CopyExtended
<1>15. Read(k) = Copy(ring, front, k) /\ Read(k) \in Seq(Byte)
  BY <1>1, <1>2, ReadIsCopy, CopyPlaces
<1>16. Read(GetUseSize)' = Copy(ring', front, k + Len(w))
  BY <1>1, <1>5, <1>6, <1>7 DEF Read, Copy
<1>17. (Read(k) \o w) \o wire' = Read(k) \o (w \o wire')
  <2>1. \A x, y, z \in Seq(Byte) : (x \o y) \o z = x \o (y \o z)
    BY ConcatAssociative
  <2> QED
    BY <1>7, <1>9, <1>15, <2>1
<1> QED
  BY <1>2, <1>5, <1>6, <1>9, <1>11, <1>14, <1>15, <1>16, <1>17 DEF k, RingTypeOK


(* A read that fills the ring from its first place leaves it empty: rear   *)
(* wraps to front.  The bytes of the ring and those read are Size bytes.   *)
LEMMA RecvWraps ==
  ASSUME RingTypeOK, wire \in Seq(Byte), NEW n \in 1..Size, Recv(n),
         ~(GetUseSize + n < Size)
  PROVE  /\ RingTypeOK' /\ wire' \in Seq(Byte)
         /\ GetUseSize + n = Size /\ GetUseSize' = 0 /\ n \in 1..Len(wire)
         /\ wire' = SubSeq(wire, n + 1, Len(wire))
<1>1. GetUseSize \in 0..Size - 1 /\ Len(wire) \in Nat
  BY UseSizeBound, LenProperties
<1>2. front \in Index /\ rear \in Index /\ ring \in [Index -> Byte]
  BY DEF RingTypeOK
<1>3. n \in 1..DirectEnqueue /\ n \in 1..Len(wire)
  <2>1. n \in 1..Lesser(DirectEnqueue, Len(wire))
    BY DEF Recv
  <2>2. DirectEnqueue \in Int
    BY <1>2, SizeAssumption DEF DirectEnqueue, GetFreeSize, GetUseSize, Index
  <2> QED
    BY <1>1, <2>1, <2>2 DEF Lesser
<1>4. front = 0 /\ rear + n = Size /\ GetUseSize = rear
  BY <1>1, <1>2, <1>3, SizeAssumption DEF DirectEnqueue, GetFreeSize, GetUseSize, Index
<1>5. rear' = 0 /\ front' = front
  <2>1. rear' = (rear + n) % Size /\ front' = front
    BY DEF Recv, MoveRear
  <2>2. Size % Size = 0
    BY SizeAssumption
  <2> QED
    BY <1>4, <2>1, <2>2
<1>6. GetUseSize' = 0
  BY <1>4, <1>5 DEF GetUseSize
<1>7. wire' = SubSeq(wire, n + 1, Len(wire)) /\ wire' \in Seq(Byte)
  BY <1>1, <1>3 DEF Recv
<1>8. ring' \in [Index -> Byte]
  <2>1. ring' = [i \in Index |-> IF i \in rear .. rear + n - 1 THEN wire[i - rear + 1] ELSE ring[i]]
    BY DEF Recv
  <2>2. \A i \in Index : i \in rear .. rear + n - 1 => i - rear + 1 \in 1..Len(wire)
    BY <1>1, <1>2, <1>3 DEF Index
  <2>3. \A i \in 1..Len(wire) : wire[i] \in Byte
    BY ElementOfSeq
  <2> QED
    BY <1>2, <2>1, <2>2, <2>3
<1> QED
  BY <1>1, <1>3, <1>4, <1>5, <1>6, <1>7, <1>8, SizeAssumption DEF RingTypeOK, Index

(* The bytes up to a place m of a \o w, within a or beyond its end.        *)
LEMMA CutConcat ==
  ASSUME NEW a \in Seq(Byte), NEW w \in Seq(Byte)
  PROVE  LET u == a \o w
         IN /\ u \in Seq(Byte) /\ Len(u) = Len(a) + Len(w)
            /\ \A i \in 1..Len(a) : u[i] = a[i]
            /\ \A m \in 0..Len(a) : /\ SubSeq(u, 1, m) = SubSeq(a, 1, m)
                                    /\ SubSeq(u, m + 1, Len(u)) = SubSeq(a, m + 1, Len(a)) \o w
            /\ \A m \in 0..Len(w) :
                 SubSeq(u, Len(a) + m + 1, Len(u)) = SubSeq(w, m + 1, Len(w))
<1> DEFINE u == a \o w  k == Len(a)  l == Len(w)
<1>1. k \in Nat /\ l \in Nat /\ k = Len(a) /\ l = Len(w)
  BY LenProperties
<1>2. /\ u \in Seq(Byte) /\ Len(u) = k + l
      /\ \A i \in 1..k + l : u[i] = IF i <= k THEN a[i] ELSE w[i - k]
  BY ConcatProperties
<1> HIDE DEF u, k, l
<1>3. \A i \in 1..k : u[i] = a[i]
  <2> TAKE i \in 1..k
  <2>1. i \in 1..k + l /\ i <= k
    BY <1>1
  <2> QED
    BY <1>2, <2>1
<1>4. ASSUME NEW m \in 0..k PROVE SubSeq(u, 1, m) = SubSeq(a, 1, m)
  <2>1. m \in Nat /\ m <= k + l /\ m <= k /\ \A i \in 1..m : i \in 1..k
    BY <1>1
  <2>2. SubSeq(u, 1, m) \in Seq(Byte) /\ Len(SubSeq(u, 1, m)) = m
        /\ \A i \in 1..m : SubSeq(u, 1, m)[i] = u[i]
    BY <1>1, <1>2, <2>1
  <2>3. SubSeq(a, 1, m) \in Seq(Byte) /\ Len(SubSeq(a, 1, m)) = m
        /\ \A i \in 1..m : SubSeq(a, 1, m)[i] = a[i]
    BY <1>1, <2>1
  <2> QED
    BY <1>3, <2>1, <2>2, <2>3, SeqEqual
<1>5. ASSUME NEW m \in 0..k PROVE SubSeq(u, m + 1, k + l) = SubSeq(a, m + 1, k) \o w
  <2> DEFINE x == SubSeq(a, m + 1, k)  y == SubSeq(u, m + 1, k + l)  n == (k - m) + l
  <2>1. m \in Nat /\ m <= k /\ k - m \in Nat /\ n \in Nat /\ n = (k - m) + l
    BY <1>1
  <2>2. x \in Seq(Byte) /\ Len(x) = k - m /\ \A i \in 1..k - m : x[i] = a[m + i]
    BY <1>1, <2>1
  <2>3. y \in Seq(Byte) /\ Len(y) = n /\ \A i \in 1..n : y[i] = u[m + i]
    BY <1>1, <1>2, <2>1
  <2> HIDE DEF x, y, n
  <2>4. /\ x \o w \in Seq(Byte) /\ Len(x \o w) = n
        /\ \A i \in 1..n : (x \o w)[i] = IF i <= k - m THEN x[i] ELSE w[i - (k - m)]
    <3>1. /\ x \o w \in Seq(Byte) /\ Len(x \o w) = Len(x) + Len(w)
          /\ \A i \in 1..Len(x) + Len(w) : (x \o w)[i] = IF i <= Len(x) THEN x[i] ELSE w[i - Len(x)]
      BY <2>2, ConcatProperties
    <3>2. Len(x) + Len(w) = n
      BY <1>1, <2>1, <2>2
    <3> QED
      BY <2>2, <3>1, <3>2
  <2>5. ASSUME NEW i \in 1..n PROVE y[i] = (x \o w)[i]
    <3>1. m + i \in 1..k + l /\ (m + i) - k = i - (k - m) /\ (m + i <= k <=> i <= k - m)
          /\ (i <= k - m => i \in 1..k - m)
      BY <1>1, <2>1
    <3> QED
      BY <1>2, <2>2, <2>3, <2>4, <3>1
  <2>6. y = x \o w
    BY <2>3, <2>4, <2>5, SeqEqual
  <2> QED
    BY <2>6 DEF x, y
<1>6. ASSUME NEW m \in 0..l PROVE SubSeq(u, k + m + 1, k + l) = SubSeq(w, m + 1, l)
  <2> DEFINE x == SubSeq(w, m + 1, l)  y == SubSeq(u, k + m + 1, k + l)
  <2>1. m \in Nat /\ m <= l /\ l - m \in Nat
    BY <1>1
  <2>2. x \in Seq(Byte) /\ Len(x) = l - m /\ \A i \in 1..l - m : x[i] = w[m + i]
    BY <1>1, <2>1
  <2>3. y \in Seq(Byte) /\ Len(y) = l - m /\ \A i \in 1..l - m : y[i] = u[(k + m) + i]
    BY <1>1, <1>2, <2>1
  <2> HIDE DEF x, y
  <2>4. ASSUME NEW i \in 1..l - m PROVE y[i] = x[i]
    <3>1. (k + m) + i \in 1..k + l /\ ((k + m) + i) - k = m + i /\ ~((k + m) + i <= k)
      BY <1>1, <2>1
    <3> QED
      BY <1>2, <2>2, <2>3, <3>1
  <2>5. y = x
    BY <2>2, <2>3, <2>4, SeqEqual
  <2> QED
    BY <2>5 DEF x, y
<1> QED
  BY <1>1, <1>2, <1>3, <1>4, <1>5, <1>6 DEF u, k, l


-----------------------------------------------------------------------------
(* The session.  Between two reads of an open session the ring holds less  *)
(* than a packet, so recv() always has room.                               *)
Inv ==
  /\ RingTypeOK /\ wire \in Seq(Byte) /\ end \in Ending
  /\ loop => end # "stopped"
  /\ end = "no" /\ ~loop => GetUseSize < Size - 1

(* What is unhandled begins with the bytes of the ring, and a packet cut   *)
(* from the ring is cut from it.                                           *)
LEMMA Heads ==
  ASSUME Inv
  PROVE  LET k == GetUseSize
         IN /\ k \in 0..Size - 1 /\ Unhandled \in Seq(Byte)
            /\ Read(k) \in Seq(Byte) /\ Len(Read(k)) = k
            /\ Len(Unhandled) = k + Len(wire) /\ Len(wire) \in Nat
            /\ \A n \in 0..k :
                 /\ Read(n) = SubSeq(Unhandled, 1, n)
                 /\ SubSeq(Read(k), n + 1, k) \o wire = SubSeq(Unhandled, n + 1, Len(Unhandled))
            /\ \A m \in 0..Len(wire) :
                 SubSeq(Unhandled, k + m + 1, Len(Unhandled)) = SubSeq(wire, m + 1, Len(wire))
<1> DEFINE k == GetUseSize  a == Read(k)
<1>1. k \in 0..Size - 1 /\ k \in Nat /\ ring \in [Index -> Byte] /\ front \in Index
      /\ wire \in Seq(Byte) /\ Len(wire) \in Nat
  BY UseSizeBound, LenProperties, SizeAssumption DEF Inv, RingTypeOK
<1>2. a \in Seq(Byte) /\ Len(a) = k
  BY <1>1, ReadIsCopy, CopyPlaces
<1>3. ASSUME NEW n \in 0..k PROVE Read(n) = SubSeq(a, 1, n)
  <2>1. n \in Nat
    BY <1>1
  <2> QED
    BY <1>1, <2>1, ReadIsCopy, CopyPrefix
<1>4. Unhandled = a \o wire
  BY DEF Unhandled
<1>5. \A n \in 0..k : Read(n) = SubSeq(a, 1, n)
  BY <1>3
<1>6. k = GetUseSize /\ a = Read(k)
  OBVIOUS
<1> HIDE DEF a, k
<1>7. /\ Unhandled \in Seq(Byte) /\ Len(Unhandled) = k + Len(wire)
      /\ \A m \in 0..k : /\ SubSeq(Unhandled, 1, m) = SubSeq(a, 1, m)
                         /\ SubSeq(Unhandled, m + 1, Len(Unhandled)) = SubSeq(a, m + 1, k) \o wire
      /\ \A m \in 0..Len(wire) :
           SubSeq(Unhandled, k + m + 1, Len(Unhandled)) = SubSeq(wire, m + 1, Len(wire))
  BY <1>1, <1>2, <1>4, CutConcat
<1>8. \A n \in 0..k : /\ Read(n) = SubSeq(Unhandled, 1, n)
                       /\ SubSeq(a, n + 1, k) \o wire = SubSeq(Unhandled, n + 1, Len(Unhandled))
  BY <1>5, <1>7
<1> QED
  BY <1>1, <1>2, <1>6, <1>7, <1>8

(* The header in the ring is that of what is unhandled.                    *)
LEMMA HeaderFirst ==
  ASSUME Inv, HasHeader
  PROVE  /\ Header[1] = Unhandled[1] /\ Header[2] = Unhandled[2]
         /\ Unhandled[2] \in Byte /\ Unhandled[2] \in Nat
         /\ HeaderSize + Unhandled[2] < Size /\ PS!HasHeader
<1>1. GetUseSize \in Nat /\ GetUseSize >= 3 /\ Unhandled \in Seq(Byte)
      /\ Len(Unhandled) \in Nat /\ Len(Unhandled) >= 3
  BY Heads, SizeAssumption DEF HasHeader, HeaderSize
<1>2. Header = SubSeq(Unhandled, 1, 3)
  <2>1. 3 \in 0..GetUseSize
    BY <1>1
  <2> QED
    BY <2>1, Heads DEF Header, HeaderSize
<1>3. Header[1] = Unhandled[1] /\ Header[2] = Unhandled[2]
  BY <1>1, <1>2
<1>4. Unhandled[2] \in Byte
  <2>1. 2 \in 1..Len(Unhandled)
    BY <1>1
  <2> QED
    BY <1>1, <2>1, ElementOfSeq
<1> QED
  BY <1>1, <1>3, <1>4, ChunkAssumption DEF PS!HasHeader, HeaderSize

(* Steps that move no byte leave what is unhandled alone.                  *)
LEMMA SameUnhandled ==
  ASSUME UNCHANGED <<ring, front, rear>>
  PROVE  GetUseSize' = GetUseSize /\ Read(GetUseSize)' = Read(GetUseSize)
BY DEF GetUseSize, Read

(* An invariant step of the parts Inv speaks of.                           *)
LEMMA InvKept ==
  ASSUME Inv, UNCHANGED <<ring, front, rear>>, wire' \in Seq(Byte), end' \in Ending,
         loop' => end' # "stopped",
         end' = "no" /\ ~loop' => GetUseSize < Size - 1
  PROVE  Inv'
<1>1. GetUseSize' = GetUseSize
  BY SameUnhandled
<1> QED
  BY <1>1 DEF Inv, RingTypeOK

(* Nothing has been sent.                                                  *)
LEMMA InitEmpty == Init => Inv /\ Unhandled = <<>>
<1> SUFFICES ASSUME Init PROVE Inv /\ Unhandled = <<>>
  OBVIOUS
<1>1. RingTypeOK /\ GetUseSize = 0
  BY SizeAssumption DEF Init, RingInit, RingTypeOK, GetUseSize, Index
<1>2. 0 < Size - 1
  BY SizeAssumption, ChunkAssumption DEF HeaderSize
<1>3. Inv
  BY <1>1, <1>2 DEF Init, Inv, Ending
<1>4. Read(GetUseSize) = <<>>
  <2>1. Len(Read(GetUseSize)) = 0 /\ Read(GetUseSize) \in Seq(Byte)
    BY <1>1, <1>3, Heads
  <2> QED
    BY <2>1, EmptySeq
<1>5. <<>> \o <<>> = <<>>
  OBVIOUS
<1> QED
  BY <1>3, <1>4, <1>5 DEF Init, Unhandled

(* What a client sends comes last.                                         *)
LEMMA SendAppends ==
  ASSUME Inv, NEW c \in Chunk, ClientSend(c)
  PROVE  Inv' /\ Unhandled' = Unhandled \o c
<1>1. c \in Seq(Byte) /\ wire \in Seq(Byte)
  BY ChunkAssumption DEF Inv
<1>2. wire' = wire \o c /\ wire' \in Seq(Byte) /\ UNCHANGED <<ring, front, rear>>
      /\ loop' = loop /\ end' = end
  BY <1>1 DEF ClientSend
<1>3. Inv'
  BY <1>2, InvKept DEF Inv
<1>4. Read(GetUseSize)' = Read(GetUseSize) /\ Read(GetUseSize) \in Seq(Byte)
  BY <1>2, SameUnhandled, Heads
<1>5. \A x, y, z \in Seq(Byte) : (x \o y) \o z = x \o (y \o z)
  BY ConcatAssociative
<1>6. Read(GetUseSize) \o (wire \o c) = (Read(GetUseSize) \o wire) \o c
  BY <1>1, <1>4, <1>5
<1> QED
  BY <1>2, <1>3, <1>4, <1>6 DEF Unhandled

(* recv() loses nothing, or Size bytes.                                    *)
LEMMA RecvKeepsOrLoses ==
  ASSUME Inv, NEW n \in 1..Size, Recv(n)
  PROVE  /\ Inv'
         /\ \/ Unhandled' = Unhandled
            \/ /\ Size <= Len(Unhandled)
               /\ Unhandled' = SubSeq(Unhandled, Size + 1, Len(Unhandled))
<1>1. /\ RingTypeOK /\ wire \in Seq(Byte) /\ loop' = TRUE /\ end' = end /\ end = "no"
  BY DEF Inv, Recv
<1>2. RingTypeOK' /\ wire' \in Seq(Byte)
  BY <1>1, RecvAppends, RecvWraps
<1>3. Inv'
  BY <1>1, <1>2 DEF Inv, Ending
<1>4. CASE GetUseSize + n < Size
  <2>1. Read(GetUseSize)' \o wire' = Read(GetUseSize) \o wire
    BY <1>1, <1>4, RecvAppends
  <2> QED
    BY <1>3, <2>1 DEF Unhandled
<1>5. CASE ~(GetUseSize + n < Size)
  <2> DEFINE k == GetUseSize
  <2>1. /\ k + n = Size /\ GetUseSize' = 0 /\ n \in 1..Len(wire)
        /\ wire' = SubSeq(wire, n + 1, Len(wire))
    BY <1>1, <1>5, RecvWraps
  <2>2. /\ k \in Nat /\ Len(wire) \in Nat /\ Len(Unhandled) = k + Len(wire)
        /\ \A m \in 0..Len(wire) :
             SubSeq(Unhandled, k + m + 1, Len(Unhandled)) = SubSeq(wire, m + 1, Len(wire))
    <3>1. /\ GetUseSize \in 0..Size - 1 /\ Len(wire) \in Nat
          /\ Len(Unhandled) = GetUseSize + Len(wire)
          /\ \A m \in 0..Len(wire) :
               SubSeq(Unhandled, GetUseSize + m + 1, Len(Unhandled)) = SubSeq(wire, m + 1, Len(wire))
      BY Heads
    <3>2. GetUseSize \in Nat
      BY <3>1
    <3> QED
      BY <3>1, <3>2
  <2>3. Read(GetUseSize)' = <<>>
    <3>1. Len(Read(GetUseSize)') = 0 /\ Read(GetUseSize)' \in Seq(Byte)
      BY <2>1 DEF Read
    <3> QED
      BY <3>1, EmptySeq
  <2>4. Unhandled' = wire'
    <3>1. <<>> \o wire' = wire'
      BY <1>2, ConcatEmptySeq
    <3> QED
      BY <2>3, <3>1 DEF Unhandled
  <2>5. SubSeq(Unhandled, k + n + 1, Len(Unhandled)) = SubSeq(wire, n + 1, Len(wire))
    <3>1. n \in 0..Len(wire)
      BY <2>1, <2>2
    <3> QED
      BY <2>2, <3>1
  <2>6. Size <= Len(Unhandled)
    BY <2>1, <2>2
  <2> QED
    BY <1>3, <2>1, <2>4, <2>5, <2>6
<1> QED
  BY <1>3, <1>4, <1>5


(* A packet handled is the first of what is unhandled.                     *)
LEMMA Handled ==
  ASSUME Inv, HandlePacket
  PROVE  Inv' /\ PS!Handle
<1> DEFINE k == GetUseSize  len == HeaderSize + Header[2]  u == Unhandled
<1>1. /\ loop /\ HasHeader /\ Header[1] = PacketCode /\ k >= len /\ last' = Read(len)
      /\ MoveFront(len) /\ PacketProc(last') /\ loop' = (end' # "stopped")
      /\ wire' = wire /\ peer' = peer
  BY DEF HandlePacket, Complete, BadCode
<1>2. /\ u[1] = PacketCode /\ len = HeaderSize + u[2] /\ len \in Nat /\ len >= 3
      /\ PS!HasHeader
  BY <1>1, HeaderFirst DEF HeaderSize
<1>3. /\ RingTypeOK /\ wire \in Seq(Byte) /\ end \in Ending /\ end # "stopped"
  BY <1>1 DEF Inv
<1>4. /\ k \in 0..Size - 1 /\ u \in Seq(Byte) /\ Len(wire) \in Nat /\ Len(u) = k + Len(wire)
  BY Heads
<1> HIDE DEF len
<1>5. len \in 0..k
  BY <1>1, <1>2, <1>4
<1>6. /\ last' = SubSeq(u, 1, len)
      /\ SubSeq(Read(k), len + 1, k) \o wire = SubSeq(u, len + 1, Len(u))
  BY <1>1, <1>5, Heads
<1>7. RingTypeOK' /\ Read(GetUseSize)' = SubSeq(Read(k), len + 1, k)
  BY <1>1, <1>3, <1>5, MoveFrontDrops
<1>8. Unhandled' = SubSeq(u, len + 1, Len(u))
  BY <1>1, <1>6, <1>7 DEF Unhandled
<1>9. len <= Len(u)
  BY <1>4, <1>5
<1>10. last' = PS!First
  BY <1>2, <1>6 DEF PS!First
<1>11. last'[3] = u[3]
  <2>1. u \in Seq(Byte) /\ len \in 0..Len(u) /\ 3 \in 1..len
    BY <1>2, <1>4, <1>5
  <2> HIDE DEF u
  <2> QED
    BY <1>6, <2>1
<1>12. /\ end' \in Ending
       /\ \/ end' = end
          \/ end' = "unknown_type" /\ end = "no" /\ u[3] \notin DOMAIN PayloadSize
          \/ end' = "elsewhere" /\ end = "no" /\ u[3] \in DOMAIN PayloadSize
          \/ end' = "stopped" /\ ((end # "no" /\ u[3] \in DOMAIN PayloadSize) \/ ~Sound(last'))
  <2> DEFINE p == last'
  <2>1. PacketProc(p) /\ p[3] = u[3]
    BY <1>1, <1>11
  <2> HIDE DEF p
  <2>2. /\ end' \in Ending
        /\ \/ end' = end
           \/ end' = "unknown_type" /\ end = "no" /\ p[3] \notin DOMAIN PayloadSize
           \/ end' = "elsewhere" /\ end = "no" /\ p[3] \in DOMAIN PayloadSize
           \/ end' = "stopped" /\ ((end # "no" /\ p[3] \in DOMAIN PayloadSize) \/ ~Sound(p))
    BY <1>3, <2>1 DEF PacketProc, Ending
  <2> QED
    BY <2>1, <2>2 DEF p
<1>13. Inv'
  <2>1. (loop' => end' # "stopped") /\ (end' = "no" => loop')
    BY <1>1
  <2> QED
    BY <1>1, <1>3, <1>7, <1>12, <2>1 DEF Inv
<1>14. PS!Handle
  BY <1>1, <1>2, <1>3, <1>8, <1>9, <1>10, <1>12 DEF PS!Handle, PS!DropFirst
<1> QED
  BY <1>13, <1>14

(* The loop ends with less than a packet in the ring.                      *)
LEMMA LoopEnds ==
  ASSUME Inv, RecvEnd
  PROVE  GetUseSize < Size - 1
<1>1. GetUseSize \in 0..Size - 1
  BY Heads
<1>2. CASE ~HasHeader
  BY <1>1, <1>2, SizeAssumption, ChunkAssumption DEF HasHeader, HeaderSize
<1>3. CASE HasHeader
  <2>1. ~(GetUseSize >= HeaderSize + Header[2])
    BY <1>3 DEF RecvEnd, Complete
  <2>2. Header[2] \in Nat /\ HeaderSize + Header[2] < Size
    BY <1>3, HeaderFirst
  <2> QED
    BY <1>1, <2>1, <2>2, SizeAssumption DEF HeaderSize
<1> QED
  BY <1>2, <1>3

(* Between two reads recv() is never called without room.                  *)
LEMMA RoomToReceive ==
  ASSUME Inv, end = "no", ~loop
  PROVE  DirectEnqueue # 0
<1>1. GetUseSize < Size - 1 /\ front \in Index /\ rear \in Index
  BY DEF Inv, RingTypeOK
<1> QED
  BY <1>1, SizeAssumption DEF DirectEnqueue, Index, GetFreeSize, GetUseSize

(* RecvPacket cuts a client's bytes into packets as PacketStream says and  *)
(* closes the session only for a reason PacketStream names: the safety of  *)
(* ImplementsPacketStream.                                                 *)
THEOREM RecvQueueImplements == Spec => PS!Spec
<1> DEFINE stream == <<Unhandled, last, peer, end>>
<1>1. Init => Inv /\ PS!Init
  BY InitEmpty DEF Init, PS!Init
<1>2. Inv /\ [Next]_vars => Inv' /\ [PS!Next]_stream
  <2> SUFFICES ASSUME Inv, [Next]_vars PROVE Inv' /\ [PS!Next]_stream
    OBVIOUS
  <2>1. ASSUME NEW c \in Chunk, ClientSend(c) PROVE Inv' /\ PS!Next
    BY <2>1, SendAppends DEF ClientSend, PS!Next, PS!Send
  <2>2. ASSUME UNCHANGED <<ring, front, rear, wire>>
        PROVE  Unhandled' = Unhandled
    BY <2>2, SameUnhandled DEF Unhandled
  <2>3. CASE ClientLeave
    <3>1. Inv'
      BY <2>3, InvKept DEF ClientLeave, Inv
    <3> QED
      BY <2>2, <2>3, <3>1 DEF ClientLeave, PS!Next, PS!Leave
  <2>4. ASSUME NEW n \in 1..Size, Recv(n) PROVE Inv' /\ [PS!Next]_stream
    BY <2>4, RecvKeepsOrLoses DEF Recv, PS!Next, PS!Lose, PS!DropFirst
  <2>5. CASE RecvClosed
    <3>1. Inv'
      BY <2>5, InvKept DEF RecvClosed, Inv, Ending
    <3> QED
      BY <2>2, <2>5, <3>1, RoomToReceive DEF RecvClosed, PS!Next, PS!GiveUp
  <2>6. CASE HandlePacket
    BY <2>6, Handled DEF PS!Next
  <2>7. CASE BadPacketCode
    <3>1. Inv'
      BY <2>7, InvKept DEF BadPacketCode, Inv, Ending
    <3>2. PS!HasHeader /\ Unhandled[1] # PacketCode
      BY <2>7, HeaderFirst DEF BadPacketCode, BadCode
    <3> QED
      BY <2>2, <2>7, <3>1, <3>2 DEF BadPacketCode, PS!Next, PS!GiveUp
  <2>8. CASE RecvEnd
    <3>1. Inv'
      BY <2>8, InvKept, LoopEnds DEF RecvEnd, Inv
    <3> QED
      BY <2>2, <2>8, <3>1 DEF RecvEnd
  <2>9. CASE DisconnectElsewhere
    <3>1. Inv'
      BY <2>9, InvKept DEF DisconnectElsewhere, Inv, Ending
    <3> QED
      BY <2>2, <2>9, <3>1 DEF DisconnectElsewhere, PS!Next, PS!GiveUp
  <2>10. CASE UNCHANGED vars
    <3>1. Inv'
      BY <2>10, InvKept DEF vars, Inv
    <3> QED
      BY <2>2, <2>10, <3>1 DEF vars
  <2> QED
    BY <2>1, <2>3, <2>4, <2>5, <2>6, <2>7, <2>8, <2>9, <2>10 DEF Next, Client, RecvPacket, Loop
<1> QED
  BY <1>1, <1>2, PTL DEF Spec, PS!Spec

====
