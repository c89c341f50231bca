------------------------------ MODULE MemoryPoolProofs ------------------------------
(***************************************************************************)
(* MemoryPool implements Allocator, for every EXPAND_SIZE and every set of *)
(* addresses.  The free list is a chain of pointers; what is needed of it  *)
(* is FreeListExact, whose witness, the list of its blocks, is given anew  *)
(* for every step: its tail, its extension, or the blocks new gave.        *)
(***************************************************************************)
EXTENDS MemoryPool, FiniteSetTheorems, TLAPS

USE DEF Pointer

Elements(list, n) == {list[i] : i \in 1..n}

(* A chain without its head is a chain one block shorter.                  *)
LEMMA ChainTail ==
  ASSUME NEW head, NEW next, NEW n \in Nat, n > 0, NEW list \in [1..n -> Node],
         Chain(head, next, list, n)
  PROVE  /\ head = list[1] /\ head \in Elements(list, n) /\ head \in Node
         /\ \E t \in [1..n - 1 -> Node] :
              /\ Chain(next[head], next, t, n - 1)
              /\ Elements(t, n - 1) = Elements(list, n) \ {head}
<1> DEFINE t == [i \in 1..n - 1 |-> list[i + 1]]
<1>1. head = list[1] /\ 1 \in 1..n
  BY DEF Chain
<1>2. \A i \in 1..n - 1 : i + 1 \in 1..n /\ t[i] = list[i + 1]
  OBVIOUS
<1>3. t \in [1..n - 1 -> Node]
  BY <1>2
<1>4. next[head] = IF n - 1 = 0 THEN NullPtr ELSE t[1]
  <2>1. CASE n = 1
    BY <1>1, <2>1 DEF Chain
  <2>2. CASE n # 1
    <3>1. 1 \in 1..n - 1 /\ t[1] = list[2]
      BY <2>2
    <3> QED
      BY <1>1, <2>2, <3>1 DEF Chain
  <2> QED
    BY <2>1, <2>2
<1>5. \A i \in 1..n - 1 : next[t[i]] = IF i = n - 1 THEN NullPtr ELSE t[i + 1]
  <2> SUFFICES ASSUME NEW i \in 1..n - 1
               PROVE next[t[i]] = IF i = n - 1 THEN NullPtr ELSE t[i + 1]
    OBVIOUS
  <2>1. next[list[i + 1]] = IF i + 1 = n THEN NullPtr ELSE list[(i + 1) + 1]
    BY <1>2 DEF Chain
  <2>2. i # n - 1 => i + 1 \in 1..n - 1 /\ t[i + 1] = list[(i + 1) + 1]
    OBVIOUS
  <2> QED
    BY <1>2, <2>1, <2>2
<1>6. \A i, j \in 1..n - 1 : t[i] = t[j] => i = j
  BY <1>2 DEF Chain
<1>7. Elements(t, n - 1) = Elements(list, n) \ {head}
  <2>1. ASSUME NEW i \in 1..n - 1 PROVE t[i] \in Elements(list, n) /\ t[i] # head
    BY <1>1, <1>2 DEF Chain, Elements
  <2>2. ASSUME NEW j \in 1..n, list[j] # head PROVE list[j] \in Elements(t, n - 1)
    <3>1. j - 1 \in 1..n - 1 /\ t[j - 1] = list[j]
      BY <1>1, <2>2
    <3> QED
      BY <3>1 DEF Elements
  <2> QED
    BY <2>1, <2>2 DEF Elements
<1>8. Chain(next[head], next, t, n - 1)
  BY <1>4, <1>5, <1>6 DEF Chain
<1> QED
  BY <1>1, <1>3, <1>7, <1>8 DEF Elements

(* next2 differs from next in that p points to head.                       *)
Relinked(next2, p, head, next) ==
  next2[p] = head /\ \A q \in Node \ {p} : next2[q] = next[q]

(* A block outside a chain, linked to its head, makes a chain one longer.  *)
LEMMA ChainCons ==
  ASSUME NEW head, NEW next, NEW n \in Nat, NEW list \in [1..n -> Node],
         Chain(head, next, list, n), NEW p \in Node, p \notin Elements(list, n),
         NEW next2, Relinked(next2, p, head, next)
  PROVE  \E t \in [1..n + 1 -> Node] :
           /\ Chain(p, next2, t, n + 1)
           /\ Elements(t, n + 1) = Elements(list, n) \cup {p}
<1> DEFINE t == [i \in 1..n + 1 |-> IF i = 1 THEN p ELSE list[i - 1]]
<1>1. \A i \in 1..n : i + 1 \in 1..n + 1 /\ t[i + 1] = list[i] /\ list[i] \in Node /\ list[i] # p
  BY DEF Elements
<1>2. 1 \in 1..n + 1 /\ t[1] = p
  OBVIOUS
<1>3. t \in [1..n + 1 -> Node]
  OBVIOUS
<1>4. \A i \in 1..n + 1 : i # 1 => i - 1 \in 1..n /\ t[i] = list[i - 1]
  OBVIOUS
<1>5. \A i \in 1..n + 1 : next2[t[i]] = IF i = n + 1 THEN NullPtr ELSE t[i + 1]
  <2> SUFFICES ASSUME NEW i \in 1..n + 1
               PROVE next2[t[i]] = IF i = n + 1 THEN NullPtr ELSE t[i + 1]
    OBVIOUS
  <2>1. CASE i = 1
    <3>1. next2[p] = head
      BY DEF Relinked
    <3>2. n # 0 => t[2] = list[1]
      BY <1>1
    <3> QED
      BY <1>2, <2>1, <3>1, <3>2 DEF Chain
  <2>2. CASE i # 1
    <3>1. i - 1 \in 1..n /\ t[i] = list[i - 1] /\ list[i - 1] # p /\ list[i - 1] \in Node
      BY <1>1, <1>4, <2>2
    <3>2. next2[t[i]] = next[list[i - 1]]
      BY <3>1 DEF Relinked
    <3>3. next[list[i - 1]] = IF i - 1 = n THEN NullPtr ELSE list[(i - 1) + 1]
      BY <3>1 DEF Chain
    <3>4. i # n + 1 => t[i + 1] = list[(i - 1) + 1]
      OBVIOUS
    <3> QED
      BY <3>2, <3>3, <3>4
  <2> QED
    BY <2>1, <2>2
<1>6. \A i, j \in 1..n + 1 : t[i] = t[j] => i = j
  <2> SUFFICES ASSUME NEW i \in 1..n + 1, NEW j \in 1..n + 1, t[i] = t[j] PROVE i = j
    OBVIOUS
  <2>1. CASE i # 1 /\ j # 1
    <3>1. list[i - 1] = list[j - 1] /\ i - 1 \in 1..n /\ j - 1 \in 1..n
      BY <1>4, <2>1
    <3>2. i - 1 = j - 1
      BY <3>1 DEF Chain
    <3> QED
      BY <3>2
  <2>2. CASE i = 1
    BY <1>1, <1>2, <1>4, <2>2
  <2>3. CASE j = 1
    BY <1>1, <1>2, <1>4, <2>3
  <2> QED
    BY <2>1, <2>2, <2>3
<1>7. Elements(t, n + 1) = Elements(list, n) \cup {p}
  <2>1. ASSUME NEW i \in 1..n + 1 PROVE t[i] \in Elements(list, n) \cup {p}
    BY <1>2, <1>4 DEF Elements
  <2>2. ASSUME NEW j \in 1..n PROVE list[j] \in Elements(t, n + 1)
    BY <1>1 DEF Elements
  <2>3. p \in Elements(t, n + 1)
    BY <1>2 DEF Elements
  <2> QED
    BY <2>1, <2>2, <2>3 DEF Elements
<1>8. Chain(p, next2, t, n + 1)
  BY <1>2, <1>5, <1>6 DEF Chain
<1> QED
  BY <1>3, <1>7, <1>8

(* The blocks new gives ExpandPool are linked from the last to the first.  *)
LEMMA LinkedAt ==
  ASSUME NEW f \in Fresh, NEW i \in 1..ExpandSize
  PROVE  Linked(f)[f[i]] = IF i = 1 THEN pHead ELSE f[i - 1]
<1>1. f[i] \in Node /\ \A j \in 1..ExpandSize : f[j] = f[i] => j = i
  BY DEF Fresh
<1>2. (CHOOSE j \in 1..ExpandSize : f[j] = f[i]) = i
  BY <1>1
<1> QED
  BY <1>1, <1>2 DEF Linked

(* What ExpandPool and the Allocate it serves leave of them: all but the   *)
(* last.                                                                   *)
LEMMA ChainFresh ==
  ASSUME NEW f \in Fresh, pHead = NullPtr
  PROVE  \E t \in [1..ExpandSize - 1 -> Node] :
           /\ Chain(Linked(f)[f[ExpandSize]], Linked(f), t, ExpandSize - 1)
           /\ Elements(t, ExpandSize - 1) = {f[i] : i \in 1..ExpandSize} \ {f[ExpandSize]}
<1> DEFINE m == ExpandSize - 1
           t == [i \in 1..m |-> f[ExpandSize - i]]
<1>1. m \in Nat /\ ExpandSize \in 1..ExpandSize /\ f \in [1..ExpandSize -> Node]
  BY PoolAssumption DEF Fresh
<1>2. \A i \in 1..m : ExpandSize - i \in 1..ExpandSize /\ ExpandSize - i # ExpandSize
                      /\ t[i] = f[ExpandSize - i]
  BY <1>1, PoolAssumption
<1>3. t \in [1..m -> Node]
  BY <1>1, <1>2
<1>4. Linked(f)[f[ExpandSize]] = IF m = 0 THEN NullPtr ELSE t[1]
  <2>1. Linked(f)[f[ExpandSize]] = IF ExpandSize = 1 THEN pHead ELSE f[ExpandSize - 1]
    BY <1>1, LinkedAt
  <2>2. m # 0 => t[1] = f[ExpandSize - 1]
    BY <1>1
  <2> QED
    BY <2>1, <2>2, PoolAssumption
<1>5. \A i \in 1..m : Linked(f)[t[i]] = IF i = m THEN NullPtr ELSE t[i + 1]
  <2> SUFFICES ASSUME NEW i \in 1..m
               PROVE Linked(f)[t[i]] = IF i = m THEN NullPtr ELSE t[i + 1]
    OBVIOUS
  <2>1. Linked(f)[f[ExpandSize - i]]
          = IF ExpandSize - i = 1 THEN pHead ELSE f[(ExpandSize - i) - 1]
    BY <1>2, LinkedAt
  <2>2. i # m => t[i + 1] = f[(ExpandSize - i) - 1]
    <3>1. i # m => i + 1 \in 1..m /\ ExpandSize - (i + 1) = (ExpandSize - i) - 1
      BY <1>1, PoolAssumption
    <3> QED
      BY <3>1
  <2> QED
    BY <1>2, <2>1, <2>2, PoolAssumption
<1>6. \A i, j \in 1..m : t[i] = t[j] => i = j
  <2> SUFFICES ASSUME NEW i \in 1..m, NEW j \in 1..m, t[i] = t[j] PROVE i = j
    OBVIOUS
  <2>1. ExpandSize - i = ExpandSize - j
    BY <1>2 DEF Fresh
  <2> QED
    BY <2>1, PoolAssumption
<1>7. Elements(t, m) = {f[i] : i \in 1..ExpandSize} \ {f[ExpandSize]}
  <2>1. ASSUME NEW i \in 1..m
        PROVE t[i] \in {f[j] : j \in 1..ExpandSize} /\ t[i] # f[ExpandSize]
    BY <1>1, <1>2 DEF Fresh
  <2>2. ASSUME NEW j \in 1..ExpandSize, f[j] # f[ExpandSize] PROVE f[j] \in Elements(t, m)
    <3>1. ExpandSize - j \in 1..m /\ ExpandSize - (ExpandSize - j) = j
      BY <1>1, <2>2, PoolAssumption
    <3>2. t[ExpandSize - j] = f[j]
      BY <3>1
    <3> QED
      BY <3>1, <3>2 DEF Elements
  <2> QED
    BY <2>1, <2>2 DEF Elements
<1>8. Chain(Linked(f)[f[ExpandSize]], Linked(f), t, m)
  BY <1>4, <1>5, <1>6 DEF Chain
<1> QED
  BY <1>3, <1>7, <1>8

-----------------------------------------------------------------------------
(* A free block means a chain of at least one block, which begins with it; *)
(* an empty list means that every block is in use.                         *)
LEMMA FreeHead ==
  ASSUME TypeOK, FreeListExact
  PROVE  /\ allocNum <= poolSize
         /\ pHead \in (owned \ held) \cup {NullPtr}
         /\ pHead = NullPtr => owned = held /\ (~dying => poolSize = allocNum)
<1>0. PICK n \in 0..poolSize - allocNum : \E list \in [1..n -> Node] :
             /\ Chain(pHead, pNext, list, n)
             /\ {list[i] : i \in 1..n} = owned \ held
             /\ ~dying => n = poolSize - allocNum
  BY Zenon DEF FreeListExact
<1>1. PICK list \in [1..n -> Node] :
             /\ Chain(pHead, pNext, list, n)
             /\ {list[i] : i \in 1..n} = owned \ held
             /\ ~dying => n = poolSize - allocNum
  BY <1>0
<1>2. n \in Nat /\ n <= poolSize - allocNum
  BY DEF TypeOK
<1>3. CASE n = 0
  <2>1. owned \ held = {} /\ pHead = NullPtr
    BY <1>1, <1>3 DEF Chain
  <2>2. ~dying => poolSize = allocNum
    BY <1>1, <1>3 DEF TypeOK
  <2>3. owned = held
    BY <2>1 DEF TypeOK
  <2> QED
    BY <1>2, <1>3, <2>1, <2>2, <2>3 DEF TypeOK
<1>4. CASE n # 0
  <2>1. pHead = list[1] /\ 1 \in 1..n
    BY <1>1, <1>2, <1>4 DEF Chain
  <2>2. pHead \in owned \ held
    BY <1>1, <2>1
  <2> QED
    BY <1>2, <2>2, PoolAssumption DEF TypeOK
<1> QED
  BY <1>3, <1>4

(* Fresh blocks: as many as asked for, none of them owned before.          *)
LEMMA FreshBlocks ==
  ASSUME NEW f \in Fresh
  PROVE  LET S == {f[i] : i \in 1..ExpandSize}
         IN /\ S \subseteq Node \ owned /\ f[ExpandSize] \in S
            /\ IsFiniteSet(S) /\ Cardinality(S) = ExpandSize
<1> DEFINE S == {f[i] : i \in 1..ExpandSize}
<1>1. ExpandSize \in 1..ExpandSize /\ f \in [1..ExpandSize -> Node \ owned]
  BY PoolAssumption DEF Fresh
<1>2. S \subseteq Node \ owned /\ f[ExpandSize] \in S
  BY <1>1
<1>3. f \in Bijection(1..ExpandSize, S)
  <2>1. f \in [1..ExpandSize -> S]
    BY <1>1
  <2>2. f \in Injection(1..ExpandSize, S)
    BY <2>1 DEF Fresh, Injection, IsInjective
  <2>3. f \in Surjection(1..ExpandSize, S)
    BY <2>1 DEF Surjection
  <2> QED
    BY <2>2, <2>3 DEF Bijection
<1>4. ExistsBijection(1..ExpandSize, S)
  BY <1>3 DEF ExistsBijection
<1>5. IsFiniteSet(1..ExpandSize)
      /\ Cardinality(1..ExpandSize) = IF 1 > ExpandSize THEN 0 ELSE ExpandSize - 1 + 1
  BY FS_Interval, PoolAssumption
<1>6. Cardinality(1..ExpandSize) = ExpandSize
  BY <1>5, PoolAssumption
<1>7. IsFiniteSet(S) /\ Cardinality(S) = ExpandSize
  BY <1>4, <1>5, <1>6, FS_Bijection
<1> QED
  BY <1>2, <1>7

-----------------------------------------------------------------------------
Inv == TypeOK /\ FreeListExact /\ IsFiniteSet(owned) /\ CountersExact /\ NoOvergrowth

(* What ExpandPool with its Allocate does to the sets and the counters.    *)
LEMMA Expanded ==
  ASSUME TypeOK, FreeListExact, ExpandPool
  PROVE  \E f \in Fresh : LET S == {f[i] : i \in 1..ExpandSize} IN
           /\ pNext' = Linked(f) /\ owned' = owned \cup S
           /\ Take(f[ExpandSize], Linked(f)[f[ExpandSize]])
           /\ pHead = NullPtr /\ ~dying /\ owned = held /\ poolSize = allocNum
           /\ poolSize' = poolSize + ExpandSize
<1>1. PICK f \in Fresh :
           /\ pNext' = Linked(f) /\ owned' = owned \cup {f[i] : i \in 1..ExpandSize}
           /\ Take(f[ExpandSize], pNext'[f[ExpandSize]])
  BY DEF ExpandPool
<1>2. pHead = NullPtr /\ ~dying /\ poolSize' = poolSize + ExpandSize
  BY DEF ExpandPool
<1>3. owned = held /\ poolSize = allocNum
  BY <1>2, FreeHead
<1> QED
  BY <1>1, <1>2, <1>3

(* A block in use is counted.                                              *)
LEMMA Counted ==
  ASSUME TypeOK, IsFiniteSet(owned), CountersExact
  PROVE  IsFiniteSet(held) /\ (held # {} => allocNum > 0)
<1>1. IsFiniteSet(held)
  BY FS_Subset DEF TypeOK
<1>2. Cardinality(held) = 0 <=> held = {}
  BY <1>1, FS_EmptySet
<1> QED
  BY <1>1, <1>2 DEF CountersExact, TypeOK

(* Types, and that only the pool's own blocks are handed out.              *)
LEMMA TypeStep ==
  ASSUME Inv, [Next]_vars
  PROVE  TypeOK'
<1> USE DEF TypeOK
<1>0. TypeOK /\ FreeListExact /\ IsFiniteSet(owned) /\ CountersExact
  BY DEF Inv
<1>1. CASE Allocate
  <2>1. pHead \in owned /\ pHead \in Node /\ pNext[pHead] \in Pointer
    BY <1>0, <1>1, FreeHead DEF Allocate
  <2>2. allocNum' \in Nat /\ peak' \in Nat
    BY <1>0, <1>1 DEF Allocate, Take
  <2> QED
    BY <1>0, <1>1, <2>1, <2>2 DEF Allocate, Take
<1>2. CASE ExpandPool
  <2>1. PICK f \in Fresh : LET S == {f[i] : i \in 1..ExpandSize} IN
           /\ pNext' = Linked(f) /\ owned' = owned \cup S
           /\ Take(f[ExpandSize], Linked(f)[f[ExpandSize]])
           /\ ~dying /\ poolSize' = poolSize + ExpandSize
    BY <1>0, <1>2, Expanded
  <2>2. f \in [1..ExpandSize -> Node]
    BY DEF Fresh
  <2>3. Linked(f) \in [Node -> Pointer]
    <3> SUFFICES ASSUME NEW p \in Node PROVE Linked(f)[p] \in Pointer
      BY DEF Linked
    <3>1. CASE \E i \in 1..ExpandSize : f[i] = p
      <4>1. PICK i \in 1..ExpandSize : f[i] = p
        BY <3>1
      <4>2. i # 1 => i - 1 \in 1..ExpandSize
        BY PoolAssumption
      <4>3. Linked(f)[p] = IF i = 1 THEN pHead ELSE f[i - 1]
        BY <4>1, LinkedAt
      <4> QED
        BY <1>0, <2>2, <4>2, <4>3
    <3>2. CASE ~\E i \in 1..ExpandSize : f[i] = p
      BY <1>0, <3>2 DEF Linked
    <3> QED
      BY <3>1, <3>2
  <2>4. f[ExpandSize] \in Node /\ f[ExpandSize] \in owned' /\ owned' \subseteq Node
    BY <1>0, <2>1, FreshBlocks
  <2>5. pHead' \in Pointer
    BY <2>1, <2>3, <2>4 DEF Take
  <2>6. poolSize' \in Nat /\ allocNum' \in Nat /\ peak' \in Nat
    BY <1>0, <2>1, PoolAssumption DEF Take
  <2>7. block' \in Pointer /\ held' \subseteq owned' /\ dying' \in BOOLEAN
    BY <1>0, <2>1, <2>4 DEF Take
  <2> QED
    BY <2>1, <2>3, <2>4, <2>5, <2>6, <2>7
<1>3. CASE \E p \in Node : Free(p)
  <2>1. PICK p \in Node : Free(p)
    BY <1>3
  <2>2. allocNum - 1 \in Nat
    BY <1>0, <2>1, Counted DEF Free
  <2> QED
    BY <1>0, <2>1, <2>2 DEF Free
<1>4. CASE Destroy
  <2>1. pHead # NullPtr => pHead \in Node /\ pHead \notin held /\ pNext[pHead] \in Pointer
    BY <1>0, FreeHead
  <2> QED
    BY <1>0, <1>4, <2>1 DEF Destroy
<1>5. CASE UNCHANGED vars
  BY <1>0, <1>5 DEF vars
<1> QED
  BY <1>1, <1>2, <1>3, <1>4, <1>5 DEF Next

-----------------------------------------------------------------------------
(* Two steps shorten the chain, Allocate and Destroy; Free makes it one    *)
(* block longer, and ExpandPool makes a new one.                           *)
LEMMA FreeListIntro ==
  ASSUME NEW n \in 0..poolSize - allocNum, NEW list \in [1..n -> Node],
         Chain(pHead, pNext, list, n), Elements(list, n) = owned \ held,
         ~dying => n = poolSize - allocNum
  PROVE  FreeListExact
BY Zenon DEF FreeListExact, Elements

(* What FreeListExact gives.                                               *)
LEMMA FreeListElim ==
  ASSUME FreeListExact
  PROVE  \E n \in 0..poolSize - allocNum : \E list \in [1..n -> Node] :
           /\ Chain(pHead, pNext, list, n)
           /\ Elements(list, n) = owned \ held
           /\ ~dying => n = poolSize - allocNum
BY Zenon DEF FreeListExact, Elements

(* Every step leaves the free list exact.                                  *)
LEMMA FreeListStep ==
  ASSUME Inv, [Next]_vars
  PROVE  FreeListExact'
<1>0. TypeOK /\ FreeListExact /\ IsFiniteSet(owned) /\ CountersExact
  BY DEF Inv
<1>a. PICK n \in 0..poolSize - allocNum : \E list \in [1..n -> Node] :
           /\ Chain(pHead, pNext, list, n)
           /\ Elements(list, n) = owned \ held
           /\ ~dying => n = poolSize - allocNum
  BY <1>0, FreeListElim
<1>b. PICK list \in [1..n -> Node] :
           /\ Chain(pHead, pNext, list, n)
           /\ Elements(list, n) = owned \ held
           /\ ~dying => n = poolSize - allocNum
  BY <1>a
<1>c. n \in Nat /\ n <= poolSize - allocNum /\ poolSize \in Nat /\ allocNum \in Nat
  BY <1>0 DEF TypeOK
<1>d. pHead # NullPtr => n > 0
  BY <1>b, <1>c DEF Chain
<1>e. pHead # NullPtr =>
        \E t \in [1..n - 1 -> Node] :
           /\ Chain(pNext[pHead], pNext, t, n - 1)
           /\ Elements(t, n - 1) = (owned \ held) \ {pHead}
  <2> SUFFICES ASSUME pHead # NullPtr
               PROVE \E t \in [1..n - 1 -> Node] :
                       /\ Chain(pNext[pHead], pNext, t, n - 1)
                       /\ Elements(t, n - 1) = (owned \ held) \ {pHead}
    OBVIOUS
  <2>1. n \in Nat /\ n > 0 /\ Chain(pHead, pNext, list, n)
    BY <1>b, <1>c, <1>d
  <2>2. \E t \in [1..n - 1 -> Node] :
          /\ Chain(pNext[pHead], pNext, t, n - 1)
          /\ Elements(t, n - 1) = Elements(list, n) \ {pHead}
    BY <2>1, ChainTail, Zenon
  <2> QED
    BY <1>b, <2>2
<1>1. CASE Allocate
  <2>1. PICK t \in [1..n - 1 -> Node] :
           /\ Chain(pNext[pHead], pNext, t, n - 1)
           /\ Elements(t, n - 1) = (owned \ held) \ {pHead}
    BY <1>1, <1>e DEF Allocate
  <2>2. /\ pHead' = pNext[pHead] /\ pNext' = pNext /\ poolSize' = poolSize /\ owned' = owned
        /\ held' = held \cup {pHead} /\ allocNum' = allocNum + 1 /\ dying' = dying /\ ~dying
    BY <1>1 DEF Allocate, Take
  <2>3. n - 1 = poolSize' - allocNum' /\ n - 1 \in 0..poolSize' - allocNum'
    BY <1>1, <1>b, <1>c, <1>d, <2>2 DEF Allocate
  <2>4. Chain(pHead', pNext', t, n - 1) /\ Elements(t, n - 1) = owned' \ held'
    BY <2>1, <2>2
  <2> QED
    BY <2>3, <2>4, Zenon DEF FreeListExact, Elements
<1>2. CASE ExpandPool
  <2>1. PICK f \in Fresh : LET S == {f[i] : i \in 1..ExpandSize} IN
           /\ pNext' = Linked(f) /\ owned' = owned \cup S
           /\ Take(f[ExpandSize], Linked(f)[f[ExpandSize]])
           /\ pHead = NullPtr /\ ~dying /\ owned = held /\ poolSize = allocNum
           /\ poolSize' = poolSize + ExpandSize
    BY <1>0, <1>2, Expanded
  <2> DEFINE S == {f[i] : i \in 1..ExpandSize}
             m == ExpandSize - 1
  <2>2. PICK t \in [1..m -> Node] :
           /\ Chain(Linked(f)[f[ExpandSize]], Linked(f), t, m)
           /\ Elements(t, m) = S \ {f[ExpandSize]}
    BY <2>1, ChainFresh
  <2>3. S \cap owned = {} /\ f[ExpandSize] \in S
    BY FreshBlocks
  <2> HIDE DEF S
  <2>4. Elements(t, m) = owned' \ held'
    <3>1. owned' = owned \cup S /\ held' = held \cup {f[ExpandSize]} /\ owned = held
      BY <2>1 DEF Take, S
    <3> QED
      BY <2>2, <2>3, <3>1
  <2>5. m = poolSize' - allocNum' /\ m \in 0..poolSize' - allocNum'
    BY <1>c, <2>1, PoolAssumption DEF Take
  <2>6. Chain(pHead', pNext', t, m)
    BY <2>1, <2>2 DEF Take
  <2> HIDE DEF m
  <2> QED
    BY <2>4, <2>5, <2>6, Zenon DEF FreeListExact, Elements
<1>3. CASE \E p \in Node : Free(p)
  <2>1. PICK p \in Node : Free(p)
    BY <1>3
  <2>2. p \in held /\ p \notin Elements(list, n)
    BY <1>b, <2>1 DEF Free
  <2>3. PICK t \in [1..n + 1 -> Node] :
           /\ Chain(p, pNext', t, n + 1)
           /\ Elements(t, n + 1) = Elements(list, n) \cup {p}
    <3>1. n \in Nat /\ Chain(pHead, pNext, list, n)
      BY <1>b, <1>c
    <3>2. Relinked(pNext', p, pHead, pNext)
      BY <1>0, <2>1 DEF Free, TypeOK, Relinked
    <3> QED
      BY <2>2, <3>1, <3>2, ChainCons, SMT
  <2>4. allocNum > 0
    BY <1>0, <2>2, Counted
  <2>5. /\ pHead' = p /\ pNext' = [pNext EXCEPT ![p] = pHead] /\ owned' = owned
        /\ held' = held \ {p} /\ poolSize' = poolSize /\ allocNum' = allocNum - 1
        /\ ~dying /\ dying' = dying
    BY <2>1 DEF Free
  <2>6. n + 1 = poolSize' - allocNum' /\ n + 1 \in 0..poolSize' - allocNum'
    BY <1>b, <1>c, <2>4, <2>5
  <2>7. Chain(pHead', pNext', t, n + 1) /\ Elements(t, n + 1) = owned' \ held'
    <3>1. p \in owned
      BY <1>0, <2>2 DEF TypeOK
    <3> QED
      BY <1>b, <2>2, <2>3, <2>5, <3>1
  <2> QED
    BY <2>6, <2>7, Zenon DEF FreeListExact, Elements
<1>4. CASE Destroy
  <2>1. pNext' = pNext /\ poolSize' = poolSize /\ allocNum' = allocNum /\ held' = held /\ dying'
    BY <1>4 DEF Destroy
  <2>2. CASE pHead = NullPtr
    <3>1. pHead' = pHead /\ owned' = owned
      BY <1>4, <2>2 DEF Destroy
    <3>2. n \in 0..poolSize' - allocNum' /\ Chain(pHead', pNext', list, n)
          /\ Elements(list, n) = owned' \ held'
      BY <1>b, <2>1, <3>1
    <3> QED
      BY <2>1, <3>2, Zenon DEF FreeListExact, Elements
  <2>3. CASE pHead # NullPtr
    <3>1. PICK t \in [1..n - 1 -> Node] :
             /\ Chain(pNext[pHead], pNext, t, n - 1)
             /\ Elements(t, n - 1) = (owned \ held) \ {pHead}
      BY <1>e, <2>3
    <3>2. pHead' = pNext[pHead] /\ owned' = owned \ {pHead}
      BY <1>4, <2>3 DEF Destroy
    <3>3. n - 1 \in 0..poolSize' - allocNum'
      BY <1>c, <1>d, <2>1, <2>3
    <3>4. Chain(pHead', pNext', t, n - 1) /\ Elements(t, n - 1) = owned' \ held'
      BY <2>1, <3>1, <3>2
    <3> QED
      BY <2>1, <3>3, <3>4, Zenon DEF FreeListExact, Elements
  <2> QED
    BY <2>2, <2>3
<1>5. CASE UNCHANGED vars
  BY <1>0, <1>5 DEF vars, FreeListExact
<1> QED
  BY <1>1, <1>2, <1>3, <1>4, <1>5 DEF Next

(* The two counters follow the two sets.                                   *)
LEMMA CountersStep ==
  ASSUME Inv, [Next]_vars
  PROVE  IsFiniteSet(owned)' /\ CountersExact'
<1>0. TypeOK /\ FreeListExact /\ IsFiniteSet(owned) /\ CountersExact /\ IsFiniteSet(held)
  BY Counted DEF Inv
<1> USE DEF CountersExact
<1>1. CASE Allocate
  <2>1. pHead \notin held
    BY <1>0, <1>1, FreeHead DEF Allocate
  <2>2. Cardinality(held \cup {pHead}) = Cardinality(held) + 1
    BY <1>0, <2>1, FS_AddElement
  <2> QED
    BY <1>0, <1>1, <2>2 DEF Allocate, Take
<1>2. CASE ExpandPool
  <2>1. PICK f \in Fresh : LET S == {f[i] : i \in 1..ExpandSize} IN
           /\ pNext' = Linked(f) /\ owned' = owned \cup S
           /\ Take(f[ExpandSize], Linked(f)[f[ExpandSize]])
           /\ pHead = NullPtr /\ ~dying /\ owned = held /\ poolSize = allocNum
           /\ poolSize' = poolSize + ExpandSize
    BY <1>0, <1>2, Expanded
  <2> DEFINE S == {f[i] : i \in 1..ExpandSize}
  <2>2. S \cap owned = {} /\ f[ExpandSize] \in S /\ IsFiniteSet(S) /\ Cardinality(S) = ExpandSize
    BY FreshBlocks
  <2>3. owned' = owned \cup S /\ held' = held \cup {f[ExpandSize]}
    BY <2>1 DEF Take
  <2> HIDE DEF S
  <2>4. f[ExpandSize] \notin held
    BY <2>1, <2>2
  <2>5. Cardinality(held') = Cardinality(held) + 1
    BY <1>0, <2>3, <2>4, FS_AddElement
  <2>6. IsFiniteSet(owned')
        /\ Cardinality(owned') = Cardinality(owned) + Cardinality(S) - Cardinality(owned \cap S)
    BY <1>0, <2>2, <2>3, FS_Union
  <2>7. Cardinality(owned \cap S) = 0
    <3>1. owned \cap S = {}
      BY <2>2
    <3> QED
      BY <3>1, FS_EmptySet
  <2>8. Cardinality(owned) \in Nat
    BY <1>0, FS_CardinalityType
  <2>9. poolSize' = Cardinality(owned')
    <3>1. poolSize = Cardinality(owned)
      BY <1>0, <2>1
    <3>2. Cardinality(owned') = Cardinality(owned) + ExpandSize
      BY <2>2, <2>6, <2>7, <2>8, PoolAssumption
    <3> QED
      BY <2>1, <3>1, <3>2
  <2>10. allocNum' = Cardinality(held')
    <3>1. allocNum' = allocNum + 1
      BY <2>1 DEF Take
    <3> QED
      BY <1>0, <2>5, <3>1
  <2> QED
    BY <2>6, <2>9, <2>10
<1>3. CASE \E p \in Node : Free(p)
  <2>1. PICK p \in Node : Free(p)
    BY <1>3
  <2>2. Cardinality(held \ {p}) = Cardinality(held) - 1
    BY <1>0, <2>1, FS_RemoveElement DEF Free
  <2> QED
    BY <1>0, <2>1, <2>2 DEF Free
<1>4. CASE Destroy
  <2>1. IsFiniteSet(owned')
    <3>1. IsFiniteSet(owned \ {pHead})
      BY <1>0, FS_RemoveElement
    <3> QED
      BY <1>0, <1>4, <3>1 DEF Destroy
  <2> QED
    BY <1>0, <1>4, <2>1 DEF Destroy
<1>5. CASE UNCHANGED vars
  BY <1>0, <1>5 DEF vars
<1> QED
  BY <1>1, <1>2, <1>3, <1>4, <1>5 DEF Next

(* Only ExpandPool adds blocks, and only when none is free.                *)
LEMMA GrowthStep ==
  ASSUME Inv, [Next]_vars
  PROVE  NoOvergrowth'
<1>0. TypeOK /\ FreeListExact /\ NoOvergrowth
  BY DEF Inv
<1> USE PoolAssumption DEF TypeOK, NoOvergrowth
<1>1. CASE Allocate
  BY <1>0, <1>1 DEF Allocate, Take
<1>2. CASE ExpandPool
  <2>1. /\ poolSize = allocNum /\ poolSize' = poolSize + ExpandSize
        /\ peak' = IF allocNum + 1 > peak THEN allocNum + 1 ELSE peak
    BY <1>0, <1>2, Expanded DEF Take
  <2>2. allocNum < peak'
    BY <1>0, <2>1
  <2>3. peak' \in Nat
    BY <1>0, <2>1
  <2> QED
    BY <1>0, <2>1, <2>2, <2>3
<1>3. CASE \E p \in Node : Free(p)
  BY <1>0, <1>3 DEF Free
<1>4. CASE Destroy
  BY <1>0, <1>4 DEF Destroy
<1>5. CASE UNCHANGED vars
  BY <1>0, <1>5 DEF vars
<1> QED
  BY <1>1, <1>2, <1>3, <1>4, <1>5 DEF Next

(* An empty pool.                                                          *)
LEMMA InitInv == Init => Inv
<1> SUFFICES ASSUME Init PROVE Inv
  OBVIOUS
<1>1. TypeOK
  BY DEF Init, TypeOK
<1>2. FreeListExact
  <2> DEFINE none == [i \in 1..0 |-> NullPtr]
  <2>1. none \in [1..0 -> Node] /\ Elements(none, 0) = {} /\ Chain(pHead, pNext, none, 0)
    BY DEF Init, Elements, Chain
  <2>2. 0 \in 0..poolSize - allocNum /\ 0 = poolSize - allocNum /\ owned \ held = {}
    BY DEF Init
  <2> HIDE DEF none
  <2> QED
    BY <2>1, <2>2, FreeListIntro
<1>3. IsFiniteSet(owned) /\ CountersExact /\ NoOvergrowth
  BY FS_EmptySet DEF Init, CountersExact, NoOvergrowth
<1> QED
  BY <1>1, <1>2, <1>3 DEF Inv

(* The free list, the counters and the bound on the pool are invariant     *)
(* together.                                                               *)
THEOREM PoolInvariant == Spec => []Inv
<1>1. Init => Inv
  BY InitInv
<1>2. Inv /\ [Next]_vars => Inv'
  <2> SUFFICES ASSUME Inv, [Next]_vars PROVE Inv'
    OBVIOUS
  <2> QED
    BY TypeStep, FreeListStep, CountersStep, GrowthStep DEF Inv
<1> QED
  BY <1>1, <1>2, PTL DEF Spec

(* Pointers stay pointers, and a block in use is one of the pool's.        *)
THEOREM TypeCorrect == Spec => []TypeOK
<1>1. Inv => TypeOK
  BY DEF Inv
<1> QED
  BY <1>1, PoolInvariant, PTL

(* The free list ends, and holds exactly the blocks nobody uses.           *)
THEOREM FreeListRight == Spec => []FreeListExact
<1>1. Inv => FreeListExact
  BY DEF Inv
<1> QED
  BY <1>1, PoolInvariant, PTL

(* GetPoolSize and GetAllocCount count what they say.                      *)
THEOREM CountersRight == Spec => []CountersExact
<1>1. Inv => CountersExact
  BY DEF Inv
<1> QED
  BY <1>1, PoolInvariant, PTL

(* The pool has fewer than EXPAND_SIZE blocks more than were ever in use   *)
(* at once.                                                                *)
THEOREM GrowthBounded == Spec => []NoOvergrowth
<1>1. Inv => NoOvergrowth
  BY DEF Inv
<1> QED
  BY <1>1, PoolInvariant, PTL

(* Every step of the pool is a step of Allocator, or leaves it alone.      *)
THEOREM PoolIsAllocator == Spec => ImplementsAllocator
<1>1. Init => A!Init
  BY PoolAssumption DEF Init, A!Init
<1>2. Inv /\ [Next]_vars => [A!Next]_<<held, block>>
  <2> SUFFICES ASSUME Inv, [Next]_vars PROVE [A!Next]_<<held, block>>
    OBVIOUS
  <2>0. TypeOK /\ FreeListExact
    BY DEF Inv
  <2>1. CASE Allocate
    <3>1. pHead \in Node \ held
      BY <2>0, <2>1, FreeHead DEF Allocate, TypeOK
    <3> QED
      BY <2>1, <3>1 DEF Allocate, Take, A!Next, A!Allocate
  <2>2. CASE ExpandPool
    <3>1. PICK f \in Fresh : Take(f[ExpandSize], Linked(f)[f[ExpandSize]])
      BY <2>0, <2>2, Expanded
    <3>2. f[ExpandSize] \in Node \ held
      BY <2>0, FreshBlocks DEF TypeOK
    <3> QED
      BY <3>1, <3>2 DEF Take, A!Next, A!Allocate
  <2>3. CASE \E p \in Node : Free(p)
    BY <2>3 DEF Free, A!Next, A!Free
  <2>4. CASE Destroy
    BY <2>4 DEF Destroy
  <2>5. CASE UNCHANGED vars
    BY <2>5 DEF vars
  <2> QED
    BY <2>1, <2>2, <2>3, <2>4, <2>5 DEF Next
<1> QED
  BY <1>1, <1>2, PoolInvariant, PTL DEF Spec, ImplementsAllocator, A!Spec
====
