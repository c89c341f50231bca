----------------------------- MODULE NetworkManage -----------------------------
(***************************************************************************)
(* NetworkManager::NetworkManage: one round over the map of sessions, in   *)
(* batches that fit an FD_SET.  Two iterators delimit a batch: the first   *)
(* loop moves it forward, erasing the sessions marked isDelete and putting *)
(* the others into the sets for select(); the second moves selectIt up to  *)
(* it, serving the sockets select() found ready.  In between, AcceptProc   *)
(* inserts into the map both iterators walk.                               *)
(*                                                                         *)
(* The map is the sequence of its ids in the order of iteration, and an    *)
(* iterator a position in it; Len(order) + 1 is end().  A new element may  *)
(* come to stand anywhere.  When the insertion makes the hash table grow,  *)
(* C++ invalidates every iterator; in the library the server is built      *)
(* with, the iterators stay on their elements and the order of the         *)
(* elements changes.                                                       *)
(***************************************************************************)
EXTENDS Integers, FiniteSets, SequencesExt

CONSTANTS
  Session,      \* the ids dw_sessionId hands out, one after the other
  BatchSize,    \* 63
  FdSetSize     \* FD_SETSIZE, 64: FD_SET ignores a socket beyond them

ASSUME BatchAssumption ==
  /\ IsFiniteSet(Session) /\ Session \subseteq Nat
  /\ BatchSize \in Nat \ {0} /\ FdSetSize = BatchSize + 1

VARIABLES
  order,      \* the map of sessions, in the order of iteration
  isDelete,   \* those of its sessions that are marked
  fresh,      \* ids not handed out yet
  readable,   \* sessions whose socket has something to read
  it, selectIt,
  clientNum,
  rset, wset, \* the sets given to select(), then the ready ones among them
  selectRet,
  pc,         \* where the thread is
  fault,      \* "none", or how an iterator went astray
  grown       \* the hash table has grown in this round (history)

vars == <<order, isDelete, fresh, readable, it, selectIt, clientNum,
          rset, wset, selectRet, pc, fault, grown>>

world == <<order, isDelete, fresh, readable>>
round == <<it, selectIt, clientNum, rset, wset, selectRet>>

InMap == ToSet(order)
Open == InMap \ isDelete

End == Len(order) + 1

-----------------------------------------------------------------------------
(* The rest of the program: sockets become readable, and between two       *)
(* rounds Update disconnects sessions.  What arrives at any other moment   *)
(* counts as arriving before the next select(), the first to notice it.    *)

BatchBuilt == pc = "build" /\ (it = End \/ clientNum = BatchSize)

Arrive(s) ==
  /\ BatchBuilt /\ s \in Open \ readable
  /\ readable' = readable \cup {s}
  /\ UNCHANGED <<order, isDelete, fresh, round, pc, fault, grown>>

UpdateDisconnects(s) ==
  /\ pc = "idle" /\ s \in Open
  /\ isDelete' = isDelete \cup {s}
  /\ UNCHANGED <<order, fresh, readable, round, pc, fault, grown>>

-----------------------------------------------------------------------------
(* The first loop of a batch.                                              *)

(* FD_ZERO and clientNum = 0 at the head of the do loop.                   *)
MutantBatchBegin == rset' = rset /\ wset' = {} /\ clientNum' = 0 /\ pc' = "build"
BatchBegin == rset' = {} /\ wset' = {} /\ clientNum' = 0 /\ pc' = "build"

RoundBegin ==
  /\ pc = "idle"
  /\ it' = 1 /\ selectIt' = 1
  /\ BatchBegin
  /\ grown' = FALSE
  /\ UNCHANGED <<world, selectRet, fault>>

Building == pc = "build" /\ it # End /\ clientNum < BatchSize

(* it = sessions.erase(it), after selectIt has been moved off the element. *)
(* Position 0 stands for an iterator whose element was erased.             *)
MutantStepOff == selectIt
StepOff == IF selectIt = it THEN selectIt + 1 ELSE selectIt

EraseDeleted ==
  /\ Building /\ order[it] \in isDelete
  /\ order' = RemoveAt(order, it)
  /\ isDelete' = isDelete \ {order[it]}
  /\ readable' = readable \ {order[it]}
  /\ selectIt' = IF StepOff = it THEN 0 ELSE IF StepOff > it THEN StepOff - 1 ELSE StepOff
  /\ UNCHANGED <<fresh, it, clientNum, rset, wset, selectRet, pc, fault, grown>>

(* Whose SendQ holds something is up to the game: it may be anyone's.      *)
MutantAddToSets ==
  /\ Building
  /\ rset' = rset \cup {order[it]}
  /\ wset' \in {wset, wset \cup {order[it]}}
  /\ clientNum' = clientNum + 1 /\ it' = it + 1
  /\ UNCHANGED <<world, selectIt, selectRet, pc, fault, grown>>
AddToSets ==
  /\ Building /\ order[it] \notin isDelete
  /\ rset' = rset \cup {order[it]}
  /\ wset' \in {wset, wset \cup {order[it]}}
  /\ clientNum' = clientNum + 1 /\ it' = it + 1
  /\ UNCHANGED <<world, selectIt, selectRet, pc, fault, grown>>

(* select() with a timeout of 0.  Any of the sockets waiting to write may  *)
(* be ready.                                                               *)
Select ==
  /\ BatchBuilt
  /\ \E connecting \in BOOLEAN, writable \in SUBSET wset :
       /\ rset' = rset \cap readable /\ wset' = writable
       /\ selectRet' = Cardinality(rset') + Cardinality(wset') + IF connecting THEN 1 ELSE 0
       /\ pc' = IF connecting THEN "accept" ELSE "serve"
  /\ UNCHANGED <<world, it, selectIt, clientNum, fault, grown>>

(* SOCKET_ERROR, which nobody looks at: the sets stay as they were built,  *)
(* so that the listening socket counts as ready like every other one, and  *)
(* selectRet, below 0 and counted down, never ends the second loop early.  *)
SelectFails ==
  /\ BatchBuilt
  /\ selectRet' = -1 /\ pc' = "accept"
  /\ UNCHANGED <<world, it, selectIt, clientNum, rset, wset, fault, grown>>

-----------------------------------------------------------------------------
(* AcceptProc.                                                             *)

After(p, at) == IF at >= p THEN at + 1 ELSE at

(* A new element at position p; iterators stay on their elements.          *)
Insert(s, p) ==
  /\ order' = InsertAt(order, p, s)
  /\ it' = After(p, it) /\ selectIt' = After(p, selectIt)
  /\ UNCHANGED grown

(* The position, in a new order, of the element an iterator is on.         *)
Follow(new, at) ==
  CASE at \in DOMAIN order -> CHOOSE i \in 1..Len(new) : new[i] = order[at]
    [] at = End -> Len(new) + 1
    [] at = 0   -> 0

InsertAndGrow(s) ==
  /\ order' \in SetToSeqs(InMap \cup {s})
  /\ it' = Follow(order', it) /\ selectIt' = Follow(order', selectIt)
  /\ grown' = TRUE

(* dw_sessionId++.                                                         *)
MutantNextId(s) == fresh' = fresh
NextId(s) == fresh' = fresh \ {s}

AcceptProc(s) ==
  /\ pc = "accept" /\ s \in fresh /\ \A t \in fresh : s <= t
  /\ (\E p \in 1..End : Insert(s, p)) \/ InsertAndGrow(s)
  /\ NextId(s)
  /\ selectRet' = selectRet - 1 /\ pc' = "serve"
  /\ UNCHANGED <<isDelete, readable, clientNum, rset, wset, fault>>

(* accept() returned INVALID_SOCKET: the client has gone already, or none  *)
(* was there, select() having failed.                                      *)
AcceptFails ==
  /\ pc = "accept"
  /\ selectRet' = selectRet - 1 /\ pc' = "serve"
  /\ UNCHANGED <<world, it, selectIt, clientNum, rset, wset, fault, grown>>

-----------------------------------------------------------------------------
(* The second loop of a batch.                                             *)

Serving == pc = "serve" /\ selectIt # it

(* selectRet is used up: nothing of the batch is left to serve.            *)
ServedAll ==
  /\ Serving /\ selectRet = 0
  /\ selectIt' = it
  /\ UNCHANGED <<world, it, clientNum, rset, wset, selectRet, pc, fault, grown>>

(* How often a session is ready.                                           *)
MutantReadiness(s) == (IF s \in rset THEN 1 ELSE 0) + (IF s \in wset THEN 2 ELSE 0)
Readiness(s) == (IF s \in rset THEN 1 ELSE 0) + (IF s \in wset THEN 1 ELSE 0)

(* RecvPacket(s), if s is in rset, reads what there is (recv() finds       *)
(* nothing only after a failed select()) and may disconnect s; so may      *)
(* SendPacket(s), if s is in wset and still open.  Nobody else is          *)
(* disconnected: a full SendQ of another session ends the process (see     *)
(* DisconnectCalls).                                                       *)
Serve(s) ==
  /\ readable' = IF s \in rset THEN readable \ {s} ELSE readable
  /\ \/ UNCHANGED isDelete
     \/ s \in rset \cup wset /\ isDelete' = isDelete \cup {s}

ServeNext ==
  /\ Serving /\ selectRet # 0 /\ selectIt \in DOMAIN order
  /\ Serve(order[selectIt])
  /\ selectRet' = selectRet - Readiness(order[selectIt])
  /\ selectIt' = selectIt + 1
  /\ UNCHANGED <<order, fresh, it, clientNum, rset, wset, pc, fault, grown>>

(* selectIt->second of an erased element, or of end().                     *)
Astray ==
  /\ Serving /\ selectRet # 0 /\ selectIt \notin DOMAIN order
  /\ fault' = IF selectIt = 0 THEN "erased" ELSE "past_end"
  /\ pc' = "dead"
  /\ UNCHANGED <<world, round, grown>>

(* The variables of a batch, or of the round, end with it.                 *)
MutantBatchEnd ==
  /\ pc = "serve" /\ selectIt = it
  /\ pc' = "idle"
  /\ UNCHANGED <<world, round, fault, grown>>
BatchEnd ==
  /\ pc = "serve" /\ selectIt = it
  /\ \/ it # End /\ BatchBegin
     \/ it = End /\ rset' = {} /\ wset' = {} /\ clientNum' = 0 /\ pc' = "idle"
  /\ selectRet' = 0
  /\ UNCHANGED <<world, it, selectIt, fault, grown>>

-----------------------------------------------------------------------------
Init ==
  /\ order = <<>> /\ isDelete = {} /\ fresh = Session
  /\ readable = {}
  /\ it = 1 /\ selectIt = 1 /\ clientNum = 0
  /\ rset = {} /\ wset = {} /\ selectRet = 0
  /\ pc = "idle" /\ fault = "none" /\ grown = FALSE

Thread ==
  \/ RoundBegin \/ EraseDeleted \/ AddToSets \/ Select \/ SelectFails
  \/ (\E s \in Session : AcceptProc(s)) \/ AcceptFails
  \/ ServedAll \/ ServeNext \/ Astray \/ BatchEnd

Elsewhere ==
  \E s \in Session : Arrive(s) \/ UpdateDisconnects(s)

Next == Thread \/ Elsewhere

Spec == Init /\ [][Next]_vars

(* The thread never blocks: select() does not wait, sockets are non-       *)
(* blocking, and wmain calls NetworkManage for ever.                       *)
FairSpec == Spec /\ WF_vars(Thread)

-----------------------------------------------------------------------------
(* Every variable holds a value of its kind, and no id is in the map twice.*)
TypeOK ==
  /\ order \in Seq(Session) /\ \A i, j \in DOMAIN order : order[i] = order[j] => i = j
  /\ isDelete \subseteq InMap /\ readable \subseteq InMap
  /\ fresh \subseteq Session \ InMap
  /\ it \in 1..End /\ selectIt \in 0..End
  /\ clientNum \in 0..BatchSize /\ rset \subseteq InMap /\ wset \subseteq InMap
  /\ selectRet \in Int
  /\ pc \in {"idle", "build", "accept", "serve", "dead"}
  /\ fault \in {"none", "erased", "past_end"} /\ grown \in BOOLEAN

(* Neither iterator is ever on an erased element or runs past the other,   *)
(* whatever is erased, accepted or disconnected in the middle of a round,  *)
(* unless the hash table has grown in that round.                          *)
IteratorsValid == ~grown => fault = "none" /\ 1 <= selectIt /\ selectIt <= it

(* Growth is harmless while all the sessions fit one batch: `it' is then   *)
(* end(), which growth does not move, and selectIt cannot overtake it.     *)
AstrayOnlyInBatches == fault # "none" => fault = "past_end" /\ Len(order) > BatchSize

(* A batch and the listening socket fit an FD_SET, so that select() is     *)
(* asked about every one of them.                                          *)
SetsFit == Cardinality(rset) < FdSetSize

(* What the second loop has still to visit.                                *)
Ahead == {order[i] : i \in selectIt .. it - 1}

(* When the count of select() is used up, no socket that is ready remains  *)
(* in the batch: leaving the loop early skips nobody, although a session   *)
(* may be counted twice, may be closed between its two turns, and another  *)
(* may have been inserted into the batch.                                  *)
NoneSkipped ==
  pc = "serve" /\ selectRet = 0 => Ahead \cap (rset \cup wset) = {}

(* Neither recv() nor send() is ever called for a session that was closed  *)
(* in an earlier step.                                                     *)
OnlyOpenServed ==
  pc = "serve" => Ahead \cap (rset \cup wset) \cap isDelete = {}

(* A session marked isDelete is erased and freed in the end, however many  *)
(* batches, insertions and growths come between, unless an iterator went   *)
(* astray.                                                                 *)
Reaped == \A s \in Session : s \in isDelete ~> s \notin InMap \/ fault # "none"

(* What a client sends is read in the end, or its session is closed: a     *)
(* session that growth moves in front of selectIt misses one round only.   *)
Heard == \A s \in Session : s \in readable ~> s \notin readable \/ fault # "none"
====
