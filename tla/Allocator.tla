--------------------------------- MODULE Allocator ---------------------------------
(***************************************************************************)
(* What MemoryPool promises its callers: a block that is handed out is     *)
(* nobody else's until it is given back.                                   *)
(***************************************************************************)
CONSTANT Node      \* the blocks there can be

VARIABLES
  held,     \* blocks handed out
  block     \* the block handed out last

Allocate(p) == p \in Node \ held /\ held' = held \cup {p} /\ block' = p

Free(p) == p \in held /\ held' = held \ {p} /\ UNCHANGED block

Init == held = {} /\ block \notin Node

Next == \E p \in Node : Allocate(p) \/ Free(p)

Spec == Init /\ [][Next]_<<held, block>>
====
