----------------------------- MODULE DisconnectCalls -----------------------------
(***************************************************************************)
(* What happens inside one handler when a SendQ is full.  SendUniCast then *)
(* calls Disconnect, which broadcasts the deletion of the character by     *)
(* SendAround, which calls SendUniCast again, all in the middle of a walk  *)
(* over the very lists from which Disconnect erases.  The call stack is a  *)
(* variable; GameManager treats the whole call as one step, and            *)
(* SummaryExact says that its summary of the outcome is the right one.     *)
(*                                                                         *)
(* The characters stand in sectors that are all within sight of one        *)
(* another, as those of a block of two by two are, so that SendAround      *)
(* walks the same lists whoever it is about; the first is the sector of c. *)
(* Where the neighbourhoods differ, a leaver other than c is told to its   *)
(* own: it is on the walk for c all the same, and its erasure ends that    *)
(* walk in the same way.  An iterator of a std::list is the element it is  *)
(* on, or NoNode for end().                                                *)
(***************************************************************************)
EXTENDS Integers, Sequences, FiniteSets, SequencesExt

CONSTANTS
  Session, NoNode,
  Sectors,      \* how many sector lists
  LenDelete,    \* bytes of a deletion message
  MsgLen,       \* lengths of the other messages
  MaxRoom,      \* bytes free in a SendQ at most
  MaxDepth      \* calls the stack has room for

ASSUME CallAssumption ==
  /\ IsFiniteSet(Session) /\ NoNode \notin Session /\ Sectors \in Nat \ {0}
  /\ LenDelete \in Nat \ {0} /\ MsgLen \subseteq Nat \ {0}
  /\ MaxRoom \in Nat /\ MaxDepth \in Nat \ {0}

VARIABLES
  op,       \* the call made by the handler
  room,     \* bytes free in each SendQ
  lists,    \* the sector lists
  players,  \* characters not yet deleted
  closed,   \* sessions marked isDelete
  stack,    \* walks under way, the innermost first
  fault,    \* "none", or what ended the process
  room0, lists0     \* room and lists when the call was made

vars == <<op, room, lists, players, closed, stack, fault, room0, lists0>>

Top == Head(stack)
First(list) == IF list = <<>> THEN NoNode ELSE list[1]

(* The walk of proc, on behalf of c, over sectors from .. Sectors.         *)
Walk(proc, c, len, me, from) ==
  [proc |-> proc, c |-> c, len |-> len, me |-> me,
   sec |-> from, node |-> First(lists[from]), part |-> "send"]

(* SendAround(c, serial, true) over the sectors around c, here all there   *)
(* are.                                                                    *)
Goodbye(c) == Walk("goodbye", c, LenDelete, TRUE, 1)

-----------------------------------------------------------------------------
(* Disconnect, and OnCharacterDisconnect up to its broadcast, when below   *)
(* is what remains on the stack.                                           *)
Disconnect(s, below) ==
  /\ closed' = closed \cup {s}
  /\ IF s \notin players THEN stack' = below /\ UNCHANGED fault
     ELSE IF Len(below) = MaxDepth THEN stack' = below /\ fault' = "stack_overflow"
     ELSE stack' = <<Goodbye(s)>> \o below /\ UNCHANGED fault
  /\ UNCHANGED <<room, lists, players>>

MutantDropped(s, len, below) ==
  /\ room' = [room EXCEPT ![s] = IF len <= room[s] THEN @ - len ELSE @]
  /\ stack' = below /\ UNCHANGED <<lists, players, closed, fault>>
MutantUnchecked(s, len, below) ==
  /\ room' = [room EXCEPT ![s] = @ - len]
  /\ stack' = below /\ UNCHANGED <<lists, players, closed, fault>>
MutantOffByOne(s, len, below) ==
  \/ /\ len < room[s]
     /\ room' = [room EXCEPT ![s] = @ - len]
     /\ stack' = below /\ UNCHANGED <<lists, players, closed, fault>>
  \/ /\ len >= room[s]
     /\ Disconnect(s, below)
SendUniCast(s, len, below) ==
  \/ /\ len <= room[s]
     /\ room' = [room EXCEPT ![s] = @ - len]
     /\ stack' = below /\ UNCHANGED <<lists, players, closed, fault>>
  \/ /\ len > room[s]
     /\ Disconnect(s, below)

Crash(kind) == fault' = kind /\ UNCHANGED <<room, lists, players, closed, stack>>

Running == stack # <<>> /\ fault = "none"
Then(part) == <<[Top EXCEPT !.part = part]>> \o Tail(stack)

(* One element of SendAround, SendSectorCreateMsg or SendSectorDeleteMsg.  *)
Tell ==
  /\ Running /\ Top.part = "send" /\ Top.node # NoNode
  /\ IF ~Top.me /\ Top.c \notin players THEN Crash("freed_character")
     ELSE IF ~Top.me /\ Top.node = Top.c
       THEN stack' = Then("advance") /\ UNCHANGED <<room, lists, players, closed, fault>>
     ELSE SendUniCast(Top.node, Top.len, Then(IF Top.proc = "exchange" THEN "answer" ELSE "advance"))
  /\ UNCHANGED <<op, room0, lists0>>

(* SendSector*Msg goes on to tell c of the character it has just told.     *)
Answer ==
  /\ Running /\ Top.part = "answer"
  /\ IF {Top.node, Top.c} \subseteq players
       THEN SendUniCast(Top.c, op.answer[Top.node], Then("advance"))
       ELSE Crash("freed_character")
  /\ UNCHANGED <<op, room0, lists0>>

Position(list, node) == CHOOSE i \in DOMAIN list : list[i] = node

(* ++it, which needs the element it is on.                                 *)
Successor(list, node) ==
  LET i == Position(list, node)
  IN IF i = Len(list) THEN NoNode ELSE list[i + 1]

Advance ==
  /\ Running /\ Top.part = "advance"
  /\ IF Top.node \in ToSet(lists[Top.sec])
       THEN /\ stack' = <<[Top EXCEPT !.part = "send", !.node = Successor(lists[Top.sec], Top.node)]>>
                          \o Tail(stack)
            /\ UNCHANGED <<room, lists, players, closed, fault>>
       ELSE Crash("erased_node")
  /\ UNCHANGED <<op, room0, lists0>>

MutantNextSector ==
  /\ Running /\ Top.part = "send" /\ Top.node = NoNode /\ Top.sec < Sectors
  /\ stack' = Then("send")
  /\ UNCHANGED <<op, room, lists, players, closed, fault, room0, lists0>>
NextSector ==
  /\ Running /\ Top.part = "send" /\ Top.node = NoNode /\ Top.sec < Sectors
  /\ stack' = <<[Top EXCEPT !.sec = @ + 1, !.node = First(lists[Top.sec + 1])]>> \o Tail(stack)
  /\ UNCHANGED <<op, room, lists, players, closed, fault, room0, lists0>>

(* sector.erase of the element that is c.                                  *)
Erase(list, c) == IF c \in ToSet(list) THEN RemoveAt(list, Position(list, c)) ELSE list

Without(c, ls) == [i \in 1..Sectors |-> Erase(ls[i], c)]

(* The walk is over.  OnCharacterDisconnect erases the character and frees *)
(* it.                                                                     *)
Return ==
  /\ Running /\ Top.part = "send" /\ Top.node = NoNode /\ Top.sec = Sectors
  /\ IF Top.proc = "goodbye"
       THEN lists' = Without(Top.c, lists) /\ players' = players \ {Top.c}
       ELSE UNCHANGED <<lists, players>>
  /\ stack' = Tail(stack)
  /\ UNCHANGED <<op, room, closed, fault, room0, lists0>>

-----------------------------------------------------------------------------
(* The calls handlers make: SendAround with or without the character       *)
(* itself, SendSector*Msg over the sectors that came into sight (not its   *)
(* own), SendUniCast (Echo), and Disconnect.                               *)
Kind == {"around", "aroundMe", "exchange", "unicast", "disconnect"}

Call ==
  /\ op.state = "called"
  /\ op' = [op EXCEPT !.state = "running"]
  /\ CASE op.kind \in {"around", "aroundMe"} ->
            stack' = <<Walk("around", op.c, op.len, op.kind = "aroundMe", 1)>>
            /\ UNCHANGED <<room, lists, players, closed, fault>>
       [] op.kind = "exchange" ->
            stack' = <<Walk("exchange", op.c, op.len, FALSE, 2)>>
            /\ UNCHANGED <<room, lists, players, closed, fault>>
       [] op.kind = "unicast" -> SendUniCast(op.c, op.len, <<>>)
       [] op.kind = "disconnect" -> Disconnect(op.c, <<>>)
  /\ UNCHANGED <<room0, lists0>>

(* Every character is in one list, c in the first.                         *)
Placements(c) ==
  {l \in [1..Sectors -> UNION {SetToSeqs(S) : S \in SUBSET Session}] :
     /\ c \in ToSet(l[1])
     /\ \A i, j \in 1..Sectors : i # j => ToSet(l[i]) \cap ToSet(l[j]) = {}
     /\ UNION {ToSet(l[i]) : i \in 1..Sectors} = Session}

Init ==
  \E c \in Session, kind \in Kind, len \in MsgLen :
    /\ op \in [state : {"called"}, kind : {kind}, c : {c}, len : {len},
               answer : IF kind = "exchange" THEN [Session -> MsgLen] ELSE {[s \in Session |-> len]}]
    /\ kind = "exchange" => Sectors > 1
    /\ room \in [Session -> 0..MaxRoom] /\ room0 = room
    /\ lists \in Placements(c) /\ lists0 = lists
    /\ players = Session /\ closed = {} /\ stack = <<>> /\ fault = "none"

Next == Call \/ Tell \/ Answer \/ Advance \/ NextSector \/ Return

Spec == Init /\ [][Next]_vars

FairSpec == Spec /\ WF_vars(Next)

-----------------------------------------------------------------------------
(* Every variable holds a value of its kind; no SendQ is overfilled.       *)
TypeOK ==
  /\ room \in [Session -> 0..MaxRoom]
  /\ lists \in [1..Sectors -> Seq(Session)]
  /\ players \subseteq Session /\ closed \subseteq Session
  /\ Len(stack) <= MaxDepth
  /\ fault \in {"none", "stack_overflow", "erased_node", "freed_character"}

(* Those of whom c is told in an exchange, and the last of them.           *)
Met == UNION {ToSet(lists0[i]) : i \in 2..Sectors}

IsLastMet(s) ==
  \E i \in 2..Sectors :
    /\ lists0[i] # <<>> /\ s = lists0[i][Len(lists0[i])]
    /\ \A j \in i + 1..Sectors : lists0[j] = <<>>

LastMet == CHOOSE s \in Met : IsLastMet(s)

SumOf(f, S) == FoldFunctionOnSet(LAMBDA a, b : a + b, 0, f, S)

(* Bytes the call has for each session, as GameManager counts them.        *)
Need == [r \in Session |->
  CASE op.kind = "around" -> IF r = op.c THEN 0 ELSE op.len
    [] op.kind = "aroundMe" -> op.len
    [] op.kind = "unicast" -> IF r = op.c THEN op.len ELSE 0
    [] op.kind = "disconnect" -> LenDelete
    [] op.kind = "exchange" ->
         IF r = op.c THEN SumOf(op.answer, Met)
         ELSE IF r \in Met THEN op.len ELSE 0]

Fits(bytes) == \A r \in Session : bytes[r] <= room0[r]

(* c overflows on the last message of the call, and has room to be told of *)
(* its own deletion.                                                       *)
Leaving ==
  LET last == CASE op.kind = "unicast" -> op.len
                [] op.kind = "exchange" /\ Met # {} -> op.answer[LastMet]
                [] OTHER -> 0
  IN [r \in Session |-> Need[r] - (IF r = op.c THEN last ELSE 0) + LenDelete]

Outcome(bytes, gone) ==
  /\ fault = "none" /\ closed = gone /\ players = Session \ gone
  /\ room = [r \in Session |-> room0[r] - bytes[r]]
  /\ lists = IF gone = {} THEN lists0 ELSE Without(op.c, lists0)

(* When the outermost call is over: if everything fitted, everyone was     *)
(* told and only a disconnected session is gone; if c alone overflowed, on *)
(* the last message meant for it, c alone is gone; in every other case the *)
(* process has ended.                                                      *)
SummaryExact ==
  op.state = "running" /\ (stack = <<>> \/ fault # "none") =>
    IF Fits(Need) THEN Outcome(Need, IF op.kind = "disconnect" THEN {op.c} ELSE {})
    ELSE IF op.kind \in {"unicast", "exchange"} /\ Need[op.c] > room0[op.c] /\ Fits(Leaving)
      THEN Outcome(Leaving, {op.c})
    ELSE fault # "none"

(* The recursion ends only with the stack where a session has no room for  *)
(* its own deletion; every other call returns.                             *)
StackOnlyBySelf ==
  fault = "stack_overflow" => \E s \in closed : room[s] < LenDelete

(* A handler's call returns or ends the process.                           *)
Returns == <>(fault # "none" \/ (op.state = "running" /\ stack = <<>>))
====
