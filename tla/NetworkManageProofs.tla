-------------------------- MODULE NetworkManageProofs --------------------------
(***************************************************************************)
(* The walk of NetworkManage over a map that changes under it, for any     *)
(* number of sessions and any size of batch.                               *)
(***************************************************************************)
EXTENDS NetworkManage, FiniteSetTheorems, SequenceTheorems, TLAPS

-----------------------------------------------------------------------------
(* Insertion and removal, element by element.                              *)

(* Elements from position p on move one place up.                          *)
LEMMA InsertAtProperties ==
  ASSUME NEW s \in Seq(Session), NEW e \in Session, NEW p \in 1..Len(s) + 1
  PROVE  /\ InsertAt(s, p, e) \in Seq(Session)
         /\ Len(InsertAt(s, p, e)) = Len(s) + 1
         /\ \A i \in 1..Len(s) + 1 :
              InsertAt(s, p, e)[i] =
                IF i < p THEN s[i] ELSE IF i = p THEN e ELSE s[i - 1]
<1>. DEFINE a == SubSeq(s, 1, p - 1)  b == SubSeq(s, p, Len(s))  h == a \o <<e>>
<1>1. /\ a \in Seq(Session) /\ Len(a) = p - 1
      /\ \A i \in 1..p - 1 : a[i] = s[i]
  BY SubSeqProperties
<1>2. /\ b \in Seq(Session) /\ Len(b) = Len(s) - p + 1
      /\ \A i \in 1..Len(s) - p + 1 : b[i] = s[p + i - 1]
  BY SubSeqProperties
<1>3. <<e>> \in Seq(Session) /\ Len(<<e>>) = 1 /\ <<e>>[1] = e
  OBVIOUS
<1>4. /\ h \in Seq(Session) /\ Len(h) = p
      /\ \A i \in 1..p : h[i] = IF i < p THEN s[i] ELSE e
  <2>. HIDE DEF a
  <2>. QED  BY <1>1, <1>3, ConcatProperties
<1>5. /\ h \o b \in Seq(Session) /\ Len(h \o b) = Len(s) + 1
      /\ \A i \in 1..Len(s) + 1 : (h \o b)[i] = IF i <= p THEN h[i] ELSE b[i - p]
  <2>. HIDE DEF h, b
  <2>1. Len(h) + Len(b) = Len(s) + 1
    BY <1>2, <1>4, LenProperties
  <2>2. /\ h \o b \in Seq(Session) /\ Len(h \o b) = Len(h) + Len(b)
        /\ \A i \in 1..Len(h) + Len(b) : (h \o b)[i] = IF i <= Len(h) THEN h[i] ELSE b[i - Len(h)]
    BY <1>2, <1>4, ConcatProperties
  <2>. QED  BY <1>4, <2>1, <2>2
<1>6. InsertAt(s, p, e) = h \o b
  BY DEF InsertAt
<1>. HIDE DEF h, b
<1>. QED  BY <1>2, <1>4, <1>5, <1>6

(* Elements behind position p move one place down.                         *)
LEMMA RemoveAtProperties ==
  ASSUME NEW S, NEW s \in Seq(S), NEW p \in 1..Len(s)
  PROVE  /\ RemoveAt(s, p) \in Seq(S)
         /\ Len(RemoveAt(s, p)) = Len(s) - 1
         /\ \A i \in 1..Len(s) - 1 :
              RemoveAt(s, p)[i] = IF i < p THEN s[i] ELSE s[i + 1]
<1>. DEFINE a == SubSeq(s, 1, p - 1)  b == SubSeq(s, p + 1, Len(s))
<1>1. /\ a \in Seq(S) /\ Len(a) = p - 1
      /\ \A i \in 1..p - 1 : a[i] = s[i]
  BY SubSeqProperties
<1>2. /\ b \in Seq(S) /\ Len(b) = Len(s) - p
      /\ \A i \in 1..Len(s) - p : b[i] = s[p + i]
  BY SubSeqProperties
<1>3. RemoveAt(s, p) = a \o b
  BY DEF RemoveAt
<1>. HIDE DEF a, b
<1>4. Len(a) + Len(b) = Len(s) - 1
  BY <1>1, <1>2, LenProperties
<1>5. /\ a \o b \in Seq(S) /\ Len(a \o b) = Len(a) + Len(b)
      /\ \A i \in 1..Len(a) + Len(b) : (a \o b)[i] = IF i <= Len(a) THEN a[i] ELSE b[i - Len(a)]
  BY <1>1, <1>2, ConcatProperties
<1>6. Len(s) \in Nat
  BY LenProperties
<1>7. ASSUME NEW i \in 1..Len(s) - 1
      PROVE  (a \o b)[i] = IF i < p THEN s[i] ELSE s[i + 1]
  <2>1. CASE i < p
    BY <1>1, <1>4, <1>5, <1>6, <2>1
  <2>2. CASE i >= p
    <3>1. (a \o b)[i] = b[i - (p - 1)]
      BY <1>1, <1>4, <1>5, <1>6, <2>2
    <3>2. i - (p - 1) \in 1..Len(s) - p /\ p + (i - (p - 1)) = i + 1
      BY <1>6, <2>2
    <3>. QED  BY <1>2, <3>1, <3>2, <2>2
  <2>3. i < p \/ i >= p
    BY <1>6
  <2>. QED  BY <2>1, <2>2, <2>3
<1>. QED  BY <1>3, <1>4, <1>5, <1>7

(* A sequence without repetitions, as long as a finite set is large, of    *)
(* elements of that set, holds all of them.                                *)
LEMMA EnumerationIsOnto ==
  ASSUME NEW S, IsFiniteSet(S), NEW s \in SetToSeqs(S)
  PROVE  /\ s \in Seq(S) /\ Len(s) = Cardinality(S) /\ ToSet(s) = S
         /\ \A i, j \in DOMAIN s : s[i] = s[j] => i = j
<1>. DEFINE n == Cardinality(S)
<1>1. n \in Nat
  BY FS_CardinalityType
<1>2. s \in [1..n -> S] /\ \A i, j \in 1..n : i # j => s[i] # s[j]
  BY DEF SetToSeqs
<1>3. ASSUME NEW e \in S, \A i \in 1..n : s[i] # e PROVE FALSE
  <2>1. IsFiniteSet(S \ {e}) /\ Cardinality(S \ {e}) = n - 1
    BY FS_RemoveElement
  <2>2. IsFiniteSet(1..n) /\ Cardinality(1..n) = n
    BY <1>1, FS_Interval
  <2>3. s \in [1..n -> S \ {e}]
    BY <1>2, <1>3
  <2>4. \E i, j \in 1..n : i # j /\ s[i] = s[j]
    <3>. HIDE DEF n
    <3>1. Cardinality(S \ {e}) < Cardinality(1..n)
      BY <1>1, <2>1, <2>2
    <3>. QED  BY <2>1, <2>2, <2>3, <3>1, FS_PigeonHole
  <2>. QED  BY <1>2, <2>4
<1>. QED  BY <1>1, <1>2, <1>3 DEF ToSet

-----------------------------------------------------------------------------
(* The inductive invariant.                                                *)

(* The first loop has put into rset exactly what it walked over.           *)
Built ==
  pc = "build" =>
    /\ selectIt <= it /\ rset = Ahead /\ wset \subseteq rset
    /\ Cardinality(rset) = clientNum /\ rset \cap isDelete = {}

(* What select() reported, the listening socket included, or its failure.  *)
Selected ==
  pc = "accept" =>
    /\ selectIt <= it /\ rset \subseteq Ahead /\ wset \subseteq Ahead
    /\ (rset \cup wset) \cap isDelete = {}
    /\ selectRet < 0 \/ selectRet = Cardinality(rset) + Cardinality(wset) + 1

(* Everything from selectIt on, whether `it' stands before it or after it. *)
Rest == {order[i] : i \in selectIt .. Len(order)}

(* selectRet never falls below what is left to serve, or is below 0 since  *)
(* select() failed.                                                        *)
Counted ==
  pc = "serve" /\ selectIt # it =>
    /\ selectRet < 0 \/ Cardinality(rset \cap Rest) + Cardinality(wset \cap Rest) <= selectRet
    /\ Rest \cap (rset \cup wset) \cap isDelete = {}

(* A batch ends at end() or leaves more sessions than it could hold.       *)
Covered == pc \in {"accept", "serve"} => it = End \/ Len(order) > BatchSize

(* Only growth leads an iterator astray, and only past the end.            *)
Tracked ==
  /\ selectIt >= 1
  /\ pc = "dead" <=> fault # "none"
  /\ fault # "none" => fault = "past_end" /\ Len(order) > BatchSize
  /\ ~grown => fault = "none" /\ selectIt <= it

Inv ==
  /\ TypeOK /\ Cardinality(rset) <= BatchSize
  /\ Built /\ Selected /\ Counted /\ Covered /\ Tracked
-----------------------------------------------------------------------------
(* What every step needs to know of the state before it.                   *)
LEMMA Finite ==
  ASSUME TypeOK
  PROVE  /\ Len(order) \in Nat /\ DOMAIN order = 1..Len(order) /\ End \in Nat
         /\ InMap \subseteq Session /\ IsFiniteSet(InMap)
         /\ IsFiniteSet(rset) /\ IsFiniteSet(wset)
         /\ Cardinality(rset) \in Nat /\ Cardinality(wset) \in Nat
         /\ \A i \in 1..Len(order) : order[i] \in InMap
<1>1. Len(order) \in Nat /\ DOMAIN order = 1..Len(order)
  BY LenProperties DEF TypeOK
<1>2. \A i \in 1..Len(order) : order[i] \in Session
  BY ElementOfSeq DEF TypeOK
<1>3. InMap \subseteq Session /\ \A i \in 1..Len(order) : order[i] \in InMap
  BY <1>1, <1>2 DEF InMap, ToSet
<1>4. IsFiniteSet(InMap)
  BY <1>3, BatchAssumption, FS_Subset
<1>5. IsFiniteSet(rset) /\ IsFiniteSet(wset)
  BY <1>4, FS_Subset DEF TypeOK
<1>. QED  BY <1>1, <1>3, <1>4, <1>5, FS_CardinalityType DEF End

(* Nothing has happened yet.                                               *)
LEMMA InvInit == Init => Inv
<1>. SUFFICES ASSUME Init PROVE Inv
  OBVIOUS
<1>. USE DEF Init
<1>1. order \in Seq(Session) /\ Len(order) = 0 /\ DOMAIN order = {} /\ InMap = {} /\ End = 1
  BY EmptySeq DEF InMap, ToSet, End
<1>2. Cardinality({}) = 0
  BY FS_EmptySet
<1>3. TypeOK
  <2>1. grown \in BOOLEAN
    BY Zenon
  <2>. QED  BY <1>1, <2>1, BatchAssumption DEF TypeOK
<1>. QED  BY <1>1, <1>2, <1>3, BatchAssumption DEF Inv, Built, Selected, Counted, Covered, Tracked

(* Erasing the element `it' is on disturbs nothing the walk has passed.    *)
LEMMA InvEraseDeleted == Inv /\ EraseDeleted => Inv'
<1>. SUFFICES ASSUME Inv, EraseDeleted PROVE Inv'
  OBVIOUS
<1>1. /\ TypeOK /\ pc = "build" /\ it # End
      /\ order[it] \in isDelete /\ selectIt <= it /\ selectIt >= 1
  BY DEF Inv, EraseDeleted, Building, Built, Tracked
<1>. USE Finite, <1>1
<1>2. it \in 1..Len(order) /\ selectIt \in 1..it
  BY DEF TypeOK, End
<1>3. /\ order' \in Seq(Session) /\ Len(order') = Len(order) - 1
      /\ \A i \in 1..Len(order) - 1 : order'[i] = IF i < it THEN order[i] ELSE order[i + 1]
  <2>1. order \in Seq(Session) /\ order' = RemoveAt(order, it)
    BY DEF TypeOK, EraseDeleted
  <2>. QED  BY <1>2, <2>1, RemoveAtProperties
<1>4. DOMAIN order' = 1..Len(order) - 1 /\ End' = End - 1
  BY <1>3, LenProperties DEF End
<1>5. selectIt' = selectIt /\ it' = it
  BY <1>2 DEF EraseDeleted, StepOff
<1>6. \A i, j \in 1..Len(order) : order[i] = order[j] => i = j
  BY DEF TypeOK
<1>7. InMap' = InMap \ {order[it]}
  <2>1. ASSUME NEW i \in 1..Len(order), i # it PROVE order[i] \in InMap'
    <3>1. CASE i < it
      <4>1. i \in 1..Len(order) - 1 /\ order'[i] = order[i]
        BY <1>2, <1>3, <3>1
      <4>. QED  BY <1>4, <4>1 DEF InMap, ToSet
    <3>2. CASE i > it
      <4>1. i - 1 \in 1..Len(order) - 1 /\ order'[i - 1] = order[i]
        BY <1>2, <1>3, <3>2
      <4>. QED  BY <1>4, <4>1 DEF InMap, ToSet
    <3>. QED  BY <1>2, <2>1, <3>1, <3>2
  <2>2. ASSUME NEW i \in 1..Len(order) - 1 PROVE order'[i] \in InMap \ {order[it]}
    <3>1. CASE i < it  BY <1>2, <1>3, <1>6, <3>1
    <3>2. CASE i >= it
      <4>1. i + 1 \in 1..Len(order) /\ i + 1 # it /\ order'[i] = order[i + 1]
        BY <1>2, <1>3, <3>2
      <4>. QED  BY <1>2, <1>6, <4>1
    <3>. QED  BY <1>2, <3>1, <3>2
  <2>. QED  BY <1>4, <2>1, <2>2 DEF InMap, ToSet
<1>8. Ahead' = Ahead
  <2>1. \A i \in selectIt..it - 1 : order'[i] = order[i]
    BY <1>2, <1>3
  <2>. QED  BY <1>5, <2>1 DEF Ahead
<1>9. order[it] \notin rset
  BY <1>2 DEF Inv, Built
<1>10. TypeOK'
  <2>1. \A i, j \in DOMAIN order' : order'[i] = order'[j] => i = j
    <3>1. ASSUME NEW i \in 1..Len(order) - 1, NEW j \in 1..Len(order) - 1, order'[i] = order'[j]
          PROVE  i = j
      <4>. DEFINE From(k) == IF k < it THEN k ELSE k + 1
      <4>1. From(i) \in 1..Len(order) /\ From(j) \in 1..Len(order)
        BY <1>2
      <4>2. order'[i] = order[From(i)] /\ order'[j] = order[From(j)]
        BY <1>2, <1>3
      <4>3. From(i) = From(j)
        <5>. HIDE DEF From
        <5>. QED  BY <1>6, <3>1, <4>1, <4>2
      <4>. QED  BY <1>2, <4>3
    <3>. QED  BY <1>4, <3>1
  <2>. QED  BY <1>2, <1>3, <1>4, <1>5, <1>7, <1>9, <2>1 DEF TypeOK, EraseDeleted, Inv, Built
<1>. QED
  BY <1>2, <1>5, <1>8, <1>10 DEF Inv, EraseDeleted, Built, Selected, Counted, Covered, Tracked

(* A batch begins with empty sets and nothing behind it.                   *)
LEMMA InvBegin ==
  ASSUME TypeOK', it' \in Nat, it' = selectIt', selectIt' >= 1, BatchBegin, fault' = "none"
  PROVE  Inv'
<1>1. Ahead' = {}
  <2>0. \A n \in Nat : n .. n - 1 = {}
    OBVIOUS
  <2>1. selectIt' .. it' - 1 = {}
    BY <2>0
  <2>. QED  BY <2>1 DEF Ahead
<1>2. Cardinality({}) = 0
  BY FS_EmptySet
<1>3. rset' = {} /\ wset' = {} /\ clientNum' = 0 /\ pc' = "build"
  BY DEF BatchBegin
<1>4. Built'
  BY <1>1, <1>2, <1>3 DEF Built
<1>5. Cardinality(rset') <= BatchSize
  BY <1>2, <1>3, BatchAssumption
<1>. QED
  BY <1>3, <1>4, <1>5 DEF Inv, Selected, Counted, Covered, Tracked

(* A round begins at the first session, or at end().                       *)
LEMMA InvRoundBegin == Inv /\ RoundBegin => Inv'
<1>. SUFFICES ASSUME Inv, RoundBegin PROVE Inv'
  OBVIOUS
<1>1. TypeOK /\ fault = "none"
  BY DEF Inv, Tracked, RoundBegin
<1>2. End \in Nat \ {0}
  BY <1>1, Finite DEF End
<1>3. TypeOK'
  <2>1. grown' \in BOOLEAN
    BY Zenon DEF RoundBegin
  <2>. QED  BY <1>1, <1>2, <2>1, BatchAssumption DEF TypeOK, RoundBegin, BatchBegin, world, InMap, End
<1>. QED
  BY <1>1, <1>3, InvBegin DEF RoundBegin

(* The next batch begins where this one ended, and the round ends at end(). *)
LEMMA InvBatchEnd == Inv /\ BatchEnd => Inv'
<1>. SUFFICES ASSUME Inv, BatchEnd PROVE Inv'
  OBVIOUS
<1>1. TypeOK /\ fault = "none" /\ selectIt >= 1
  BY DEF Inv, Tracked, BatchEnd
<1>2. TypeOK'
  BY <1>1, BatchAssumption DEF TypeOK, BatchEnd, BatchBegin, world, InMap, End
<1>3. CASE it # End /\ BatchBegin
  <2>1. it' \in Nat /\ it' = selectIt' /\ selectIt' >= 1 /\ fault' = "none"
    BY <1>1, Finite DEF BatchEnd, TypeOK
  <2>. QED  BY <1>2, <1>3, <2>1, InvBegin
<1>4. CASE it = End /\ rset' = {} /\ wset' = {} /\ clientNum' = 0 /\ pc' = "idle"
  BY <1>1, <1>2, <1>4, FS_EmptySet, BatchAssumption
  DEF Inv, BatchEnd, world, Built, Selected, Counted, Covered, Tracked, End
<1>. QED
  BY <1>3, <1>4 DEF BatchEnd

(* A session joins the batch and is counted once.                          *)
LEMMA InvAddToSets == Inv /\ AddToSets => Inv'
<1>. SUFFICES ASSUME Inv, AddToSets PROVE Inv'
  OBVIOUS
<1>1. /\ TypeOK /\ pc = "build" /\ it # End /\ clientNum < BatchSize
      /\ order[it] \notin isDelete /\ selectIt <= it /\ selectIt >= 1 /\ fault = "none"
  BY DEF Inv, AddToSets, Building, Built, Tracked
<1>. USE Finite, <1>1
<1>2. it \in 1..Len(order) /\ selectIt \in 1..it /\ order[it] \in InMap
  BY DEF TypeOK, End
<1>3. Ahead' = Ahead \cup {order[it]}
  <2>1. selectIt .. it' - 1 = (selectIt .. it - 1) \cup {it}
    BY <1>2 DEF AddToSets
  <2>. QED  BY <2>1 DEF Ahead, AddToSets, world
<1>4. order[it] \notin Ahead
  BY <1>2 DEF Ahead, TypeOK
<1>5. rset = Ahead /\ wset \subseteq rset /\ Cardinality(rset) = clientNum /\ rset \cap isDelete = {}
  BY DEF Inv, Built
<1>6. Cardinality(rset') = clientNum + 1
  BY <1>4, <1>5, FS_AddElement DEF AddToSets
<1>7. /\ rset' = rset \cup {order[it]} /\ wset' \subseteq wset \cup {order[it]}
      /\ clientNum' = clientNum + 1 /\ it' = it + 1
      /\ UNCHANGED <<order, isDelete, fresh, readable, selectIt, selectRet, pc, fault, grown>>
  BY DEF AddToSets, world
<1>8. clientNum' \in 0..BatchSize
  BY <1>7, BatchAssumption DEF TypeOK
<1>9. TypeOK'
  BY <1>2, <1>7, <1>8 DEF TypeOK, InMap, End
<1>10. Built' /\ Cardinality(rset') <= BatchSize
  BY <1>2, <1>3, <1>5, <1>6, <1>7, <1>8, BatchAssumption DEF Built
<1>11. Selected' /\ Counted' /\ Covered'
  BY <1>7 DEF Selected, Counted, Covered
<1>12. Tracked'
  BY <1>2, <1>7 DEF Tracked, Inv
<1>. QED  BY <1>9, <1>10, <1>11, <1>12 DEF Inv

(* A batch holds at most as many sessions as lie between the iterators.    *)
LEMMA AheadBound ==
  ASSUME TypeOK, selectIt >= 1, selectIt <= it
  PROVE  IsFiniteSet(Ahead) /\ Cardinality(Ahead) <= it - selectIt
<1>. USE Finite
<1>. DEFINE I == selectIt .. it - 1  f == [i \in I |-> order[i]]
<1>1. f \in Surjection(I, Ahead)
  BY DEF Ahead, Surjection
<1>2. IsFiniteSet(I) /\ Cardinality(I) = it - selectIt
  <2>1. selectIt \in Int /\ it \in Int /\ it - 1 \in Int
    BY DEF TypeOK
  <2>2. IsFiniteSet(I) /\ Cardinality(I) = IF selectIt > it - 1 THEN 0 ELSE (it - 1) - selectIt + 1
    BY <2>1, FS_Interval
  <2>. QED  BY <2>1, <2>2
<1>. QED
  BY <1>1, <1>2, FS_Surjection

(* select() only takes sessions out of the sets, and counts what it leaves.*)
LEMMA InvSelect == Inv /\ Select => Inv'
<1>. SUFFICES ASSUME Inv, Select PROVE Inv'
  OBVIOUS
<1>1. /\ TypeOK /\ pc = "build" /\ (it = End \/ clientNum = BatchSize)
      /\ selectIt <= it /\ selectIt >= 1 /\ fault = "none"
      /\ rset = Ahead /\ wset \subseteq rset /\ Cardinality(rset) = clientNum
      /\ rset \cap isDelete = {}
  BY DEF Inv, Select, BatchBuilt, Built, Tracked
<1>. USE <1>1, Finite
<1>2. PICK connecting \in BOOLEAN :
        /\ rset' \subseteq rset /\ wset' \subseteq wset
        /\ selectRet' = Cardinality(rset') + Cardinality(wset') + IF connecting THEN 1 ELSE 0
        /\ pc' = IF connecting THEN "accept" ELSE "serve"
  BY DEF Select, BatchBuilt
<1>3. UNCHANGED <<order, isDelete, fresh, readable, it, selectIt, clientNum, fault, grown>>
  BY DEF Select, BatchBuilt, world
<1>4. /\ IsFiniteSet(rset') /\ Cardinality(rset') \in Nat /\ Cardinality(rset') <= Cardinality(rset)
      /\ IsFiniteSet(wset') /\ Cardinality(wset') \in Nat
  BY <1>2, FS_Subset, FS_CardinalityType
<1>5. TypeOK'
  <2>1. selectRet' \in Int /\ pc' \in {"accept", "serve"}
    BY <1>2, <1>4
  <2>. QED  BY <1>2, <1>3, <2>1 DEF TypeOK, InMap, End
<1>6. Cardinality(rset') <= BatchSize
  BY <1>4, BatchAssumption DEF Inv
<1>7. Ahead' = Ahead /\ Rest' = Rest /\ End' = End
  BY <1>3 DEF Ahead, Rest, End
<1>8. Ahead \subseteq Rest
  BY DEF Ahead, Rest, TypeOK, End
<1>9. Selected'
  BY <1>2, <1>3, <1>4, <1>7 DEF Selected
<1>10. Counted'
  <2>1. rset' \cap Rest = rset' /\ wset' \cap Rest = wset'
    BY <1>2, <1>8
  <2>2. (rset \cap Rest)' = rset' /\ (wset \cap Rest)' = wset'
    BY <1>7, <2>1
  <2>3. pc' = "serve" => selectRet' = Cardinality(rset') + Cardinality(wset')
    BY <1>2, <1>4
  <2>4. (Rest \cap (rset \cup wset) \cap isDelete)' = {}
    BY <1>2, <1>3
  <2>5. pc' = "serve" => Cardinality((rset \cap Rest)') + Cardinality((wset \cap Rest)') <= selectRet'
    <3>1. Cardinality(rset') + Cardinality(wset') \in Nat
      BY <1>4
    <3>2. Cardinality((rset \cap Rest)') + Cardinality((wset \cap Rest)') = Cardinality(rset') + Cardinality(wset')
      BY <2>2
    <3>. QED  BY <2>3, <3>1, <3>2
  <2>. QED  BY <2>4, <2>5 DEF Counted
<1>11. Covered'
  <2>1. ASSUME it # End PROVE Len(order) > BatchSize
    <3>1. Cardinality(rset) <= it - selectIt
      BY AheadBound
    <3>. QED  BY <2>1, <3>1, BatchAssumption DEF TypeOK, End
  <2>. QED  BY <1>3, <1>7, <2>1 DEF Covered
<1>. QED
  BY <1>2, <1>3, <1>5, <1>6, <1>9, <1>10, <1>11 DEF Inv, Built, Tracked

-----------------------------------------------------------------------------
(* A failed select() leaves the sets as the first loop built them.         *)
LEMMA InvSelectFails == Inv /\ SelectFails => Inv'
<1>. SUFFICES ASSUME Inv, SelectFails PROVE Inv'
  OBVIOUS
<1>1. /\ TypeOK /\ pc = "build" /\ (it = End \/ clientNum = BatchSize)
      /\ selectIt <= it /\ selectIt >= 1 /\ fault = "none"
      /\ rset = Ahead /\ wset \subseteq rset /\ Cardinality(rset) = clientNum
      /\ rset \cap isDelete = {}
  BY DEF Inv, SelectFails, BatchBuilt, Built, Tracked
<1>. USE <1>1, Finite
<1>2. /\ selectRet' = -1 /\ pc' = "accept"
      /\ UNCHANGED <<order, isDelete, fresh, readable, it, selectIt, clientNum, rset, wset, fault, grown>>
  BY DEF SelectFails, world
<1>3. TypeOK' /\ Ahead' = Ahead /\ End' = End
  BY <1>2 DEF TypeOK, InMap, Ahead, End
<1>4. Covered'
  <2>1. ASSUME it # End PROVE Len(order) > BatchSize
    <3>1. Cardinality(rset) <= it - selectIt
      BY AheadBound
    <3>. QED  BY <2>1, <3>1, BatchAssumption DEF TypeOK, End
  <2>. QED  BY <1>2, <1>3, <2>1 DEF Covered
<1>5. Selected'
  BY <1>2, <1>3 DEF Selected
<1>. QED
  BY <1>2, <1>3, <1>4, <1>5 DEF Inv, Built, Counted, Tracked

-----------------------------------------------------------------------------
(* Steps in which the map may grow.                                        *)

(* The map holds as many sessions as it has places.                        *)
LEMMA MapSize == TypeOK => Cardinality(InMap) = Len(order)
<1>. SUFFICES ASSUME TypeOK PROVE Cardinality(InMap) = Len(order)
  OBVIOUS
<1>. USE Finite
<1>1. order \in Surjection(1..Len(order), InMap) /\ order \in Injection(1..Len(order), InMap)
  <2>1. order \in [1..Len(order) -> InMap]
    BY LenProperties DEF TypeOK
  <2>2. \A i, j \in 1..Len(order) : order[i] = order[j] => i = j
    BY DEF TypeOK
  <2>3. \A e \in InMap : \E i \in 1..Len(order) : order[i] = e
    BY DEF InMap, ToSet
  <2>. QED  BY <2>1, <2>2, <2>3 DEF Surjection, Injection, IsInjective
<1>2. IsFiniteSet(1..Len(order)) /\ Cardinality(1..Len(order)) = Len(order)
  <2>1. 1 \in Int /\ Len(order) \in Int
    OBVIOUS
  <2>2. IsFiniteSet(1..Len(order)) /\ Cardinality(1..Len(order)) = IF 1 > Len(order) THEN 0 ELSE Len(order) - 1 + 1
    BY <2>1, FS_Interval
  <2>. QED  BY <2>2
<1>. QED
  BY <1>1, <1>2, FS_Surjection

(* AcceptProc with a client: whichever place the new session takes, and    *)
(* wherever growth leaves the iterators, nothing ready is forgotten.       *)
LEMMA InvJoin ==
  ASSUME Inv, NEW s \in fresh, AcceptProc(s),
         TypeOK', selectIt' >= 1, Len(order') = Len(order) + 1,
         it = End => it' = End',
         ~grown' => selectIt' <= it'
  PROVE  Inv'
<1>1. /\ TypeOK /\ fault = "none"
      /\ (rset \cup wset) \cap isDelete = {}
      /\ selectRet < 0 \/ selectRet = Cardinality(rset) + Cardinality(wset) + 1
      /\ (it = End \/ Len(order) > BatchSize)
  BY DEF Inv, AcceptProc, Selected, Tracked, Covered
<1>2. /\ selectRet' = selectRet - 1 /\ pc' = "serve"
      /\ UNCHANGED <<isDelete, readable, clientNum, rset, wset, fault>>
  BY DEF AcceptProc
<1>3. Counted'
  <2>1. /\ Cardinality(rset \cap Rest') <= Cardinality(rset) /\ Cardinality(rset \cap Rest') \in Nat
        /\ Cardinality(wset \cap Rest') <= Cardinality(wset) /\ Cardinality(wset \cap Rest') \in Nat
    BY <1>1, Finite, FS_Intersection, FS_CardinalityType
  <2>2. selectRet' < 0 \/ Cardinality(rset \cap Rest') + Cardinality(wset \cap Rest') <= selectRet'
    BY <1>1, <1>2, <2>1, Finite DEF TypeOK
  <2>3. Rest' \cap (rset \cup wset) \cap isDelete = {}
    BY <1>1
  <2>. QED  BY <1>2, <2>2, <2>3 DEF Counted
<1>4. Covered' /\ Tracked'
  BY <1>1, <1>2, Finite, BatchAssumption DEF Covered, Tracked, Inv
<1>. QED  BY <1>2, <1>3, <1>4 DEF Inv, Built, Selected

(* Without growth, both iterators stay on their elements, in their order.  *)
LEMMA InvInsert ==
  ASSUME Inv, NEW s \in fresh, AcceptProc(s), NEW p \in 1..End, Insert(s, p)
  PROVE  Inv'
<1>1. /\ TypeOK /\ pc = "accept" /\ selectIt <= it /\ selectIt >= 1
      /\ s \in Session \ InMap
  BY DEF Inv, AcceptProc, Selected, Tracked, TypeOK
<1>2. /\ order' \in Seq(Session) /\ Len(order') = Len(order) + 1
      /\ \A i \in 1..Len(order) + 1 :
           order'[i] = IF i < p THEN order[i] ELSE IF i = p THEN s ELSE order[i - 1]
  <2>1. /\ order \in Seq(Session) /\ s \in Session /\ p \in 1..Len(order) + 1
        /\ order' = InsertAt(order, p, s)
    BY <1>1 DEF TypeOK, Insert, End
  <2>2. /\ InsertAt(order, p, s) \in Seq(Session) /\ Len(InsertAt(order, p, s)) = Len(order) + 1
        /\ \A i \in 1..Len(order) + 1 :
             InsertAt(order, p, s)[i] =
               IF i < p THEN order[i] ELSE IF i = p THEN s ELSE order[i - 1]
    BY ONLY <2>1, InsertAtProperties
  <2>. QED  BY <2>1, <2>2, Zenon
<1>. USE <1>1, Finite
<1>3. DOMAIN order' = 1..Len(order) + 1 /\ End' = End + 1
  BY <1>2, LenProperties DEF End
<1>4. InMap' = InMap \cup {s}
  <2>0. p \in 1..Len(order) + 1
    BY DEF End
  <2>1. ASSUME NEW i \in 1..Len(order) PROVE order[i] \in InMap'
    <3>. DEFINE k == IF i < p THEN i ELSE i + 1
    <3>1. k \in 1..Len(order) + 1 /\ order'[k] = order[i]
      BY <1>2, <2>0
    <3>. QED  BY <1>3, <3>1 DEF InMap, ToSet
  <2>2. p \in DOMAIN order' /\ order'[p] = s
    BY <1>2, <1>3 DEF End
  <2>3. ASSUME NEW i \in 1..Len(order) + 1 PROVE order'[i] \in InMap \cup {s}
    <3>1. CASE i < p
      <4>1. i \in 1..Len(order) /\ order'[i] = order[i]
        BY <1>2, <3>1 DEF End
      <4>. QED  BY <4>1
    <3>2. CASE i > p
      <4>1. i - 1 \in 1..Len(order) /\ order'[i] = order[i - 1]
        BY <1>2, <3>2 DEF End
      <4>. QED  BY <4>1
    <3>3. i < p \/ i = p \/ i > p
      OBVIOUS
    <3>. QED  BY <2>2, <3>1, <3>2, <3>3
  <2>. QED  BY <1>3, <2>1, <2>2, <2>3 DEF InMap, ToSet
<1>5. \A i, j \in DOMAIN order' : order'[i] = order'[j] => i = j
  <2>1. ASSUME NEW i \in 1..Len(order) + 1, NEW j \in 1..Len(order) + 1, i < j
        PROVE  order'[i] # order'[j]
    <3>. DEFINE From(k) == IF k < p THEN k ELSE k - 1
    <3>1. ASSUME i # p, j # p PROVE order'[i] # order'[j]
      <4>1. /\ From(i) \in 1..Len(order) /\ From(j) \in 1..Len(order) /\ From(i) # From(j)
            /\ order'[i] = order[From(i)] /\ order'[j] = order[From(j)]
        BY <1>2, <2>1, <3>1 DEF End
      <4>. HIDE DEF From
      <4>. QED  BY <4>1 DEF TypeOK
    <3>2. ASSUME NEW k \in 1..Len(order) + 1, k # p PROVE order'[k] \in InMap
      <4>1. From(k) \in 1..Len(order) /\ order'[k] = order[From(k)]
        BY <1>2, <3>2 DEF End
      <4>. HIDE DEF From
      <4>. QED  BY <4>1
    <3>3. order'[p] = s
      BY <1>2 DEF End
    <3>. QED  BY <2>1, <3>1, <3>2, <3>3
  <2>. QED  BY <1>3, <2>1
<1>6. it' \in 1..End' /\ selectIt' \in 1..it' /\ (it = End => it' = End')
  BY <1>3 DEF Insert, After, TypeOK
<1>7. TypeOK'
  <2>1. selectRet' \in Int /\ selectIt' \in 0..End'
    BY <1>3, <1>6 DEF AcceptProc, TypeOK
  <2>. QED  BY <1>2, <1>4, <1>5, <1>6, <2>1 DEF TypeOK, AcceptProc, NextId, Insert
<1>. QED  BY <1>2, <1>6, <1>7, InvJoin

(* Growth leaves the iterators on their elements, in any order; an iterator *)
(* at end() stays there.                                                   *)
LEMMA InvGrow ==
  ASSUME Inv, NEW s \in fresh, AcceptProc(s), InsertAndGrow(s)
  PROVE  Inv'
<1>1. /\ TypeOK /\ selectIt >= 1 /\ s \in Session \ InMap
  BY DEF Inv, AcceptProc, Tracked, TypeOK
<1>. USE <1>1, Finite
<1>2. IsFiniteSet(InMap \cup {s}) /\ Cardinality(InMap \cup {s}) = Len(order) + 1
  BY MapSize, FS_AddElement
<1>3. /\ order' \in Seq(InMap \cup {s}) /\ Len(order') = Len(order) + 1
      /\ InMap' = InMap \cup {s}
      /\ \A i, j \in DOMAIN order' : order'[i] = order'[j] => i = j
  BY <1>2, EnumerationIsOnto DEF InsertAndGrow, InMap
<1>4. order' \in Seq(Session) /\ DOMAIN order' = 1..Len(order') /\ End' = Len(order') + 1
  BY <1>3, SeqMonotonic, LenProperties DEF End
<1>5. ASSUME NEW at \in 1..End
      PROVE  Follow(order', at) \in 1..End' /\ (at = End => Follow(order', at) = End')
  <2>1. CASE at = End
    BY <1>3, <1>4, <2>1 DEF Follow
  <2>2. CASE at # End
    <3>1. order[at] \in InMap'
      BY <1>3, <2>2 DEF End
    <3>2. \E i \in 1..Len(order') : order'[i] = order[at]
      BY <1>4, <3>1 DEF InMap, ToSet
    <3>3. Follow(order', at) \in 1..Len(order')
      <4>1. at \in DOMAIN order /\ Follow(order', at) = CHOOSE i \in 1..Len(order') : order'[i] = order[at]
        BY <2>2 DEF Follow, End
      <4>. QED  BY <3>2, <4>1
    <3>. QED  BY <1>3, <1>4, <2>2, <3>3
  <2>. QED  BY <2>1, <2>2
<1>6. it' \in 1..End' /\ selectIt' \in 1..End' /\ (it = End => it' = End')
  <2>1. it \in 1..End /\ selectIt \in 1..End
    BY DEF TypeOK
  <2>. QED  BY <1>5, <2>1 DEF InsertAndGrow
<1>7. TypeOK'
  <2>1. selectRet' \in Int /\ selectIt' \in 0..End'
    BY <1>3, <1>4, <1>6 DEF AcceptProc, TypeOK
  <2>. QED  BY <1>3, <1>4, <1>6, <2>1 DEF TypeOK, AcceptProc, NextId, InsertAndGrow
<1>. QED  BY <1>3, <1>6, <1>7, InvJoin DEF InsertAndGrow

(* The two cases of an insertion together.                                 *)
LEMMA InvAcceptProc == \A s \in Session : Inv /\ AcceptProc(s) => Inv'
<1>. SUFFICES ASSUME NEW s \in Session, Inv, AcceptProc(s) PROVE Inv'
  OBVIOUS
<1>1. s \in fresh
  BY DEF AcceptProc
<1>2. (\E p \in 1..End : Insert(s, p)) \/ InsertAndGrow(s)
  BY DEF AcceptProc
<1>. QED  BY <1>1, <1>2, InvInsert, InvGrow

(* The listening socket was counted, and nobody is inserted.               *)
LEMMA InvAcceptFails == Inv /\ AcceptFails => Inv'
<1>. SUFFICES ASSUME Inv, AcceptFails PROVE Inv'
  OBVIOUS
<1>1. /\ TypeOK /\ fault = "none" /\ selectIt >= 1 /\ selectIt <= it
      /\ rset \subseteq Ahead /\ wset \subseteq Ahead
      /\ (rset \cup wset) \cap isDelete = {}
      /\ selectRet < 0 \/ selectRet = Cardinality(rset) + Cardinality(wset) + 1
      /\ (it = End \/ Len(order) > BatchSize)
  BY DEF Inv, AcceptFails, Selected, Tracked, Covered
<1>. USE <1>1, Finite
<1>2. /\ selectRet' = selectRet - 1 /\ pc' = "serve"
      /\ UNCHANGED <<order, isDelete, fresh, readable, it, selectIt, clientNum, rset, wset, fault, grown>>
  BY DEF AcceptFails, world
<1>3. Rest' = Rest /\ End' = End
  BY <1>2 DEF Rest, End
<1>4. Ahead \subseteq Rest
  BY DEF Ahead, Rest, TypeOK, End
<1>5. Counted'
  <2>1. rset \cap Rest = rset /\ wset \cap Rest = wset
    BY <1>4
  <2>2. (rset \cap Rest)' = rset /\ (wset \cap Rest)' = wset
    BY <1>2, <1>3, <2>1
  <2>3. selectRet' < 0 \/ selectRet' = Cardinality(rset) + Cardinality(wset)
    BY <1>2 DEF TypeOK
  <2>4. selectRet' < 0 \/ Cardinality((rset \cap Rest)') + Cardinality((wset \cap Rest)') <= selectRet'
    <3>1. Cardinality(rset) + Cardinality(wset) \in Nat
      OBVIOUS
    <3>2. Cardinality((rset \cap Rest)') + Cardinality((wset \cap Rest)') = Cardinality(rset) + Cardinality(wset)
      BY <2>2
    <3>. QED  BY <2>3, <3>1, <3>2
  <2>. QED  BY <1>2, <2>4 DEF Counted
<1>6. TypeOK'
  BY <1>2 DEF TypeOK, InMap, End
<1>. QED
  BY <1>2, <1>3, <1>5, <1>6 DEF Inv, Built, Selected, Covered, Tracked

-----------------------------------------------------------------------------
(* The second loop.                                                        *)

(* Leaving early needs no count: nothing is left between the iterators.    *)
LEMMA InvServedAll == Inv /\ ServedAll => Inv'
<1>. SUFFICES ASSUME Inv, ServedAll PROVE Inv'
  OBVIOUS
<1>1. /\ TypeOK /\ fault = "none" /\ pc = "serve" /\ (it = End \/ Len(order) > BatchSize)
      /\ Cardinality(rset) <= BatchSize
  BY DEF Inv, ServedAll, Serving, Tracked, Covered
<1>2. /\ selectIt' = it
      /\ UNCHANGED <<order, isDelete, fresh, readable, it, clientNum, rset, wset, selectRet, pc, fault, grown>>
  BY DEF ServedAll, world
<1>3. it \in 1..End /\ End \in Nat /\ End' = End
  BY <1>1, <1>2, Finite DEF TypeOK, End
<1>4. TypeOK'
  BY <1>1, <1>2, <1>3 DEF TypeOK, InMap
<1>. QED
  BY <1>1, <1>2, <1>3, <1>4 DEF Inv, Built, Selected, Counted, Covered, Tracked

(* The session served leaves Rest, and takes its readiness with it.        *)
LEMMA ServeCount ==
  ASSUME TypeOK, selectIt \in 1..Len(order), selectIt' = selectIt + 1, order' = order,
         NEW T, T \subseteq InMap
  PROVE  /\ Cardinality(T \cap Rest') \in Nat
         /\ Cardinality(T \cap Rest) =
              Cardinality(T \cap Rest') + IF order[selectIt] \in T THEN 1 ELSE 0
<1>. USE Finite
<1>1. Rest = Rest' \cup {order[selectIt]}
  <2>1. selectIt .. Len(order) = (selectIt + 1 .. Len(order)) \cup {selectIt}
    OBVIOUS
  <2>. QED  BY <2>1 DEF Rest
<1>2. order[selectIt] \notin Rest'
  BY DEF Rest, TypeOK
<1>3. IsFiniteSet(T \cap Rest') /\ Cardinality(T \cap Rest') \in Nat
  BY FS_Subset, FS_CardinalityType
<1>4. CASE order[selectIt] \in T
  <2>1. T \cap Rest = (T \cap Rest') \cup {order[selectIt]}
    BY <1>1, <1>4
  <2>. QED  BY <1>2, <1>3, <1>4, <2>1, FS_AddElement
<1>5. CASE order[selectIt] \notin T
  <2>1. T \cap Rest = T \cap Rest'
    BY <1>1, <1>5
  <2>2. Cardinality(T \cap Rest) = Cardinality(T \cap Rest')
    BY <2>1
  <2>. QED  BY <1>3, <1>5, <2>2
<1>. QED  BY <1>4, <1>5

(* Serving a session takes its readiness off the count.                    *)
LEMMA InvServeNext == Inv /\ ServeNext => Inv'
<1>. SUFFICES ASSUME Inv, ServeNext PROVE Inv'
  OBVIOUS
<1>. DEFINE s == order[selectIt]
<1>1. /\ TypeOK /\ fault = "none" /\ pc = "serve" /\ selectIt # it
      /\ selectIt \in DOMAIN order
      /\ (it = End \/ Len(order) > BatchSize)
      /\ Cardinality(rset) <= BatchSize
      /\ selectRet < 0 \/ Cardinality(rset \cap Rest) + Cardinality(wset \cap Rest) <= selectRet
      /\ Rest \cap (rset \cup wset) \cap isDelete = {}
      /\ ~grown => selectIt <= it
  BY DEF Inv, ServeNext, Serving, Tracked, Covered, Counted
<1>2. /\ selectRet' = selectRet - Readiness(s) /\ selectIt' = selectIt + 1
      /\ UNCHANGED <<order, fresh, it, clientNum, rset, wset, pc, fault, grown>>
  BY DEF ServeNext
<1>3. selectIt \in 1..Len(order) /\ it \in 1..End /\ End = Len(order) + 1 /\ Len(order) \in Nat /\ s \in InMap
  BY <1>1, Finite DEF TypeOK, End
<1>4. isDelete' \subseteq isDelete \cup {s} /\ readable' \subseteq readable
  <2>1. Serve(s)
    BY DEF ServeNext
  <2>. QED  BY <2>1 DEF Serve
<1>5. /\ Cardinality(rset \cap Rest') \in Nat /\ Cardinality(wset \cap Rest') \in Nat
      /\ Cardinality(rset \cap Rest) = Cardinality(rset \cap Rest') + IF s \in rset THEN 1 ELSE 0
      /\ Cardinality(wset \cap Rest) = Cardinality(wset \cap Rest') + IF s \in wset THEN 1 ELSE 0
  BY <1>1, <1>2, <1>3, ServeCount DEF TypeOK
<1>6. selectRet' < 0 \/ Cardinality(rset \cap Rest') + Cardinality(wset \cap Rest') <= selectRet'
  BY <1>1, <1>2, <1>5 DEF Readiness, TypeOK
<1>7. Rest' \cap (rset \cup wset) \cap isDelete' = {}
  <2>1. Rest' \subseteq Rest /\ s \notin Rest'
    BY <1>1, <1>2, <1>3, Finite DEF Rest, TypeOK
  <2>. QED  BY <1>1, <1>4, <2>1
<1>8. TypeOK'
  <2>1. selectRet' \in Int
    BY <1>1, <1>2 DEF Readiness, TypeOK
  <2>2. selectIt' \in 0..End' /\ End' = End
    BY <1>2, <1>3 DEF End
  <2>3. isDelete' \subseteq InMap /\ readable' \subseteq InMap
    BY <1>1, <1>3, <1>4 DEF TypeOK, Open
  <2>. HIDE DEF s
  <2>. QED  BY <1>1, <1>2, <2>1, <2>2, <2>3 DEF TypeOK, InMap
<1>9. Counted'
  BY <1>2, <1>6, <1>7 DEF Counted
<1>10. Covered' /\ Tracked'
  BY <1>1, <1>2, <1>3, Finite DEF Covered, Tracked, End
<1>. QED
  BY <1>1, <1>2, <1>8, <1>9, <1>10 DEF Inv, Built, Selected

(* selectIt can only have run past the end.                                *)
LEMMA InvAstray == Inv /\ Astray => Inv'
<1>. SUFFICES ASSUME Inv, Astray PROVE Inv'
  OBVIOUS
<1>1. /\ TypeOK /\ fault = "none" /\ selectIt # it /\ selectIt \notin DOMAIN order
      /\ (it = End \/ Len(order) > BatchSize)
      /\ Cardinality(rset) <= BatchSize
      /\ selectIt >= 1 /\ (~grown => selectIt <= it)
  BY DEF Inv, Astray, Serving, Tracked, Covered
<1>2. /\ fault' = IF selectIt = 0 THEN "erased" ELSE "past_end"
      /\ pc' = "dead"
      /\ UNCHANGED <<order, isDelete, fresh, readable, it, selectIt, clientNum, rset, wset, selectRet, grown>>
  BY DEF Astray, world, round
<1>3. selectIt = End /\ it \in 1..End /\ End \in Nat
  BY <1>1, Finite DEF TypeOK, End
<1>4. Len(order) > BatchSize /\ grown /\ fault' = "past_end"
  BY <1>1, <1>2, <1>3, BatchAssumption
<1>5. TypeOK'
  BY <1>1, <1>2 DEF TypeOK, InMap, End
<1>. QED
  BY <1>1, <1>2, <1>4, <1>5 DEF Inv, Built, Selected, Counted, Covered, Tracked

-----------------------------------------------------------------------------
(* The rest of the program touches neither the order nor the iterators,    *)
(* and marks sessions only between rounds.                                 *)
LEMMA InvElsewhere == Inv /\ Elsewhere => Inv'
<1>. SUFFICES ASSUME NEW s \in Session, Inv, Arrive(s) \/ UpdateDisconnects(s)
              PROVE  Inv'
  BY DEF Elsewhere
<1>1. UNCHANGED <<order, fresh, it, selectIt, clientNum, rset, wset, selectRet, pc, fault, grown>>
  BY DEF Arrive, BatchBuilt, UpdateDisconnects, round
<1>2. TypeOK /\ (pc # "idle" => isDelete' = isDelete)
  BY DEF Inv, Arrive, BatchBuilt, UpdateDisconnects
<1>3. TypeOK'
  BY <1>1, <1>2 DEF TypeOK, InMap, End, Open, Arrive, BatchBuilt, UpdateDisconnects
<1>4. Ahead' = Ahead /\ Rest' = Rest /\ End' = End
  BY <1>1 DEF Ahead, Rest, End
<1>. QED
  BY <1>1, <1>2, <1>3, <1>4 DEF Inv, Built, Selected, Counted, Covered, Tracked

(* Inv is an invariant: Init implies it and every step preserves it.       *)
THEOREM WalkInvariant == Spec => []Inv
<1>1. Inv /\ [Next]_vars => Inv'
  <2>. SUFFICES ASSUME Inv, [Next]_vars PROVE Inv'
    OBVIOUS
  <2>1. CASE Thread
    BY <2>1, InvRoundBegin, InvEraseDeleted, InvAddToSets, InvSelect, InvSelectFails, InvAcceptProc,
       InvAcceptFails, InvServedAll, InvServeNext, InvAstray, InvBatchEnd DEF Thread
  <2>2. CASE Elsewhere
    BY <2>2, InvElsewhere
  <2>3. CASE UNCHANGED vars
    BY <2>3 DEF vars, world, round, Inv, TypeOK, InMap, End, Built, Selected, Counted, Covered,
       Tracked, Ahead, Rest
  <2>. QED  BY <2>1, <2>2, <2>3 DEF Next
<1>. QED  BY <1>1, InvInit, PTL DEF Spec

(* Every variable keeps its type, and no session is ever twice in the map, *)
(* in any number of batches and however the table grows.                   *)
THEOREM TypeCorrect == Spec => []TypeOK
BY WalkInvariant, PTL DEF Inv

(* A batch and the listening socket always fit an FD_SET.                  *)
THEOREM BatchFits == Spec => []SetsFit
<1>1. Inv => SetsFit
  <2>. SUFFICES ASSUME Inv PROVE SetsFit
    OBVIOUS
  <2>1. Cardinality(rset) \in Nat
    BY Finite DEF Inv
  <2>. QED  BY <2>1, BatchAssumption DEF Inv, SetsFit
<1>. QED  BY <1>1, WalkInvariant, PTL

(* The walk goes astray only when the table grows while the sessions need  *)
(* more than one batch, and then only past the end.                        *)
THEOREM AstrayIsGrowth == Spec => []AstrayOnlyInBatches
<1>1. Inv => AstrayOnlyInBatches
  BY DEF Inv, Tracked, AstrayOnlyInBatches
<1>. QED  BY <1>1, WalkInvariant, PTL

(* In a round without growth, erasing, inserting and disconnecting leave   *)
(* both iterators where they belong.                                       *)
THEOREM IteratorsStayValid == Spec => []IteratorsValid
<1>1. Inv => IteratorsValid
  BY DEF Inv, Tracked, IteratorsValid
<1>. QED  BY <1>1, WalkInvariant, PTL

(* Leaving the second loop when selectRet reaches 0 skips no ready socket, *)
(* even when the table grows.                                              *)
THEOREM NobodySkipped == Spec => []NoneSkipped
<1>1. Inv => NoneSkipped
  <2>. SUFFICES ASSUME Inv, pc = "serve", selectRet = 0 PROVE Ahead \cap (rset \cup wset) = {}
    BY DEF NoneSkipped
  <2>. USE Finite DEF Inv
  <2>1. CASE selectIt = it
    <3>1. selectIt .. it - 1 = {}
      BY <2>1 DEF TypeOK
    <3>. QED  BY <3>1 DEF Ahead
  <2>2. CASE selectIt # it
    <3>1. Ahead \subseteq Rest
      BY DEF Ahead, Rest, TypeOK, End
    <3>2. /\ IsFiniteSet(rset \cap Rest) /\ Cardinality(rset \cap Rest) \in Nat
          /\ IsFiniteSet(wset \cap Rest) /\ Cardinality(wset \cap Rest) \in Nat
      BY FS_Intersection, FS_CardinalityType
    <3>3. Cardinality(rset \cap Rest) = 0 /\ Cardinality(wset \cap Rest) = 0
      BY <2>2, <3>2 DEF Counted
    <3>4. rset \cap Rest = {} /\ wset \cap Rest = {}
      BY <3>2, <3>3, FS_EmptySet
    <3>. QED  BY <3>1, <3>4
  <2>. QED  BY <2>1, <2>2
<1>. QED  BY <1>1, WalkInvariant, PTL

(* No closed socket is served, even when the table grows.                  *)
THEOREM ClosedNeverServed == Spec => []OnlyOpenServed
<1>1. Inv => OnlyOpenServed
  <2>. SUFFICES ASSUME Inv, pc = "serve" PROVE Ahead \cap (rset \cup wset) \cap isDelete = {}
    BY DEF OnlyOpenServed
  <2>. USE Finite DEF Inv
  <2>1. CASE selectIt = it
    <3>1. selectIt .. it - 1 = {}
      BY <2>1 DEF TypeOK
    <3>. QED  BY <3>1 DEF Ahead
  <2>2. CASE selectIt # it
    <3>1. Ahead \subseteq Rest
      BY DEF Ahead, Rest, TypeOK, End
    <3>. QED  BY <2>2, <3>1 DEF Counted
  <2>. QED  BY <2>1, <2>2
<1>. QED  BY <1>1, WalkInvariant, PTL
====
