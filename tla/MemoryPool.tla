--------------------------------- MODULE MemoryPool ---------------------------------
(***************************************************************************)
(* MemoryPool.h: blocks that are not in use form a singly linked list,     *)
(* through pointers kept inside the blocks themselves.  The server has one *)
(* pool, serial_32_pool, from which every handler takes the memory of its  *)
(* SerialBuffers and to which it returns it.                               *)
(***************************************************************************)
EXTENDS Integers, FiniteSets

CONSTANTS
  Node,           \* addresses a block can have
  NullPtr,
  ExpandSize      \* EXPAND_SIZE, 10

ASSUME PoolAssumption == NullPtr \notin Node /\ ExpandSize \in Nat \ {0}

VARIABLES
  pHead, pNext,     \* m_pHead, and pNext of every block
  poolSize, allocNum,
  owned,      \* blocks taken with new and not yet deleted
  held,       \* blocks handed out
  block,      \* what Allocate returned last
  dying,      \* the destructor is running or has run
  peak        \* the most blocks held at once

vars == <<pHead, pNext, poolSize, allocNum, owned, held, block, dying, peak>>

Pointer == Node \cup {NullPtr}

(* The blocks new gives ExpandPool, in order; each becomes the head.       *)
Fresh == {f \in [1..ExpandSize -> Node \ owned] : \A i, j \in 1..ExpandSize : f[i] = f[j] => i = j}

Linked(f) ==
  [p \in Node |->
     IF \E i \in 1..ExpandSize : f[i] = p
       THEN LET i == CHOOSE i \in 1..ExpandSize : f[i] = p
            IN IF i = 1 THEN pHead ELSE f[i - 1]
       ELSE pNext[p]]

MutantTake(p, rest) ==
  /\ pHead' = rest /\ block' = p /\ held' = held \cup {p}
  /\ allocNum' = allocNum - 1
  /\ peak' = IF allocNum + 1 > peak THEN allocNum + 1 ELSE peak
  /\ UNCHANGED dying
Take(p, rest) ==
  /\ pHead' = rest /\ block' = p /\ held' = held \cup {p}
  /\ allocNum' = allocNum + 1
  /\ peak' = IF allocNum + 1 > peak THEN allocNum + 1 ELSE peak
  /\ UNCHANGED dying

(* Allocate, without and with ExpandPool.                                  *)
MutantAllocate ==
  /\ ~dying /\ pHead # NullPtr
  /\ Take(pHead, IF pNext[pHead] = NullPtr THEN pHead ELSE pNext[pHead])
  /\ UNCHANGED <<pNext, poolSize, owned>>
Allocate ==
  /\ ~dying /\ pHead # NullPtr
  /\ Take(pHead, pNext[pHead])
  /\ UNCHANGED <<pNext, poolSize, owned>>

MutantExpandPool ==
  /\ ~dying
  /\ \E f \in Fresh :
       /\ pNext' = Linked(f)
       /\ owned' = owned \cup {f[i] : i \in 1..ExpandSize}
       /\ Take(f[ExpandSize], pNext'[f[ExpandSize]])
  /\ poolSize' = poolSize + ExpandSize
MutantPoolSize ==
  /\ ~dying /\ pHead = NullPtr
  /\ \E f \in Fresh :
       /\ pNext' = Linked(f)
       /\ owned' = owned \cup {f[i] : i \in 1..ExpandSize}
       /\ Take(f[ExpandSize], pNext'[f[ExpandSize]])
  /\ poolSize' = poolSize + 1
ExpandPool ==
  /\ ~dying /\ pHead = NullPtr
  /\ \E f \in Fresh :
       /\ pNext' = Linked(f)
       /\ owned' = owned \cup {f[i] : i \in 1..ExpandSize}
       /\ Take(f[ExpandSize], pNext'[f[ExpandSize]])
  /\ poolSize' = poolSize + ExpandSize

(* Callers give back what they hold, once.                                 *)
MutantFree(p) ==
  /\ ~dying /\ p \in held /\ held' = held \ {p}
  /\ pHead' = p
  /\ allocNum' = allocNum - 1
  /\ UNCHANGED <<pNext, poolSize, owned, block, dying, peak>>
Free(p) ==
  /\ ~dying /\ p \in held /\ held' = held \ {p}
  /\ pNext' = [pNext EXCEPT ![p] = pHead] /\ pHead' = p
  /\ allocNum' = allocNum - 1
  /\ UNCHANGED <<poolSize, owned, block, dying, peak>>

(* ~MemoryPool deletes the list, block by block.                           *)
Destroy ==
  /\ dying' = TRUE
  /\ IF pHead = NullPtr THEN UNCHANGED <<pHead, owned>>
     ELSE owned' = owned \ {pHead} /\ pHead' = pNext[pHead]
  /\ UNCHANGED <<pNext, poolSize, allocNum, held, block, peak>>

Init ==
  /\ pHead = NullPtr /\ pNext = [p \in Node |-> NullPtr]
  /\ poolSize = 0 /\ allocNum = 0 /\ peak = 0
  /\ owned = {} /\ held = {} /\ block = NullPtr /\ dying = FALSE

Next == Allocate \/ ExpandPool \/ (\E p \in Node : Free(p)) \/ Destroy

Spec == Init /\ [][Next]_vars

-----------------------------------------------------------------------------
(* Every variable holds a value of its kind; blocks handed out are the      *)
(* pool's own.                                                             *)
TypeOK ==
  /\ pHead \in Pointer /\ pNext \in [Node -> Pointer] /\ block \in Pointer
  /\ poolSize \in Nat /\ allocNum \in Nat /\ peak \in Nat
  /\ owned \subseteq Node /\ held \subseteq owned /\ dying \in BOOLEAN

(* list holds the n blocks of the chain that starts at head.               *)
Chain(head, next, list, n) ==
  /\ head = (IF n = 0 THEN NullPtr ELSE list[1])
  /\ \A i \in 1..n : next[list[i]] = (IF i = n THEN NullPtr ELSE list[i + 1])
  /\ \A i, j \in 1..n : list[i] = list[j] => i = j

(* The list has an end, and holds exactly the blocks nobody uses, each     *)
(* once: none is lost, none is handed out while it is in use.              *)
FreeListExact ==
  \E n \in 0..poolSize - allocNum : \E list \in [1..n -> Node] :
    /\ Chain(pHead, pNext, list, n)
    /\ {list[i] : i \in 1..n} = owned \ held
    /\ ~dying => n = poolSize - allocNum

(* The counters GetPoolSize and GetAllocCount count blocks.                *)
CountersExact ==
  /\ allocNum = Cardinality(held)
  /\ ~dying => poolSize = Cardinality(owned)

(* The pool grows only when it must: it never has ExpandSize blocks more   *)
(* than the server has needed at once.                                     *)
NoOvergrowth == poolSize = 0 \/ poolSize < peak + ExpandSize

(* MemoryPool implements the abstract Allocator.                           *)
A == INSTANCE Allocator

ImplementsAllocator == A!Spec
====
