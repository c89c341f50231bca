------------------------------ MODULE GameManager ------------------------------
(***************************************************************************)
(* The game layer of the server: sessions, characters, the grid of sector  *)
(* lists, and the messages that keep every client informed of exactly the  *)
(* characters around its own (GameManager.cpp, Character.h and the bridge  *)
(* functions of TcpFighterMMO.cpp), together with the callers in           *)
(* NetworkManager.cpp that decide when those handlers run.                 *)
(*                                                                         *)
(* The server is one thread.  A step of this module is one iteration of    *)
(* one of its loops: an accept, one packet of RecvPacket's loop, one send, *)
(* one character of Update's loop.  Everything a handler sends is queued   *)
(* in the recipients' SendQ before the handler returns, and TCP delivers a *)
(* SendQ in order; so instead of the queued messages the module keeps      *)
(* their bytes (sendQ) and what each client will believe once it has read  *)
(* them all (client).                                                      *)
(*                                                                         *)
(* Undefined behaviour and uncaught exceptions end the process: they set   *)
(* fault, and nothing happens afterwards.                                  *)
(***************************************************************************)
EXTENDS Integers, FiniteSets

CONSTANTS
  Session,          \* the ids dw_sessionId hands out, each one once
  NoSession,        \* "RecvPacket is not running"
  RangeMoveRight, RangeMoveBottom,    \* dfRANGE_MOVE_*; the lower bounds are 0
  SectorRange,      \* dfSECTOR_RANGE
  ErrorRange,       \* dfERROR_RANGE
  SpeedX, SpeedY,   \* dfSPEED_PLAYER_*
  PlayerHp,         \* dfPLAYER_HP
  HpModulus,        \* 2^8: hp is a signed char
  AttackType,       \* the kinds of attack packet, 1..3 in Protocol.h
  Damage, RangeX, RangeY,             \* dfATTACK<t>_DAMAGE, _RANGE_X, _RANGE_Y
  SendQSize,        \* 4096, of which a RingBuffer holds one byte less
  LenCreate, LenDelete, LenMove, LenSync, LenAttack, LenDamage, LenEcho,
                    \* bytes of each message of PacketCreator.cpp
  PacketDir,        \* byDir values packets may carry
  PacketX, PacketY  \* coordinates packets may carry

ASSUME SessionAssumption ==
  IsFiniteSet(Session) /\ NoSession \notin Session

ASSUME WorldAssumption ==
  /\ RangeMoveRight \in Nat \ {0} /\ RangeMoveBottom \in Nat \ {0}
  /\ SectorRange \in Nat \ {0}
  /\ ErrorRange \in Nat /\ SpeedX \in Nat /\ SpeedY \in Nat

ASSUME CombatAssumption ==
  /\ PlayerHp \in Nat \ {0} /\ HpModulus \in Nat \ {0} /\ 2 * PlayerHp < HpModulus
  /\ Damage \in [AttackType -> Nat]
  /\ RangeX \in [AttackType -> Nat] /\ RangeY \in [AttackType -> Nat]

ASSUME WireAssumption ==
  /\ SendQSize \in Nat \ {0}
  /\ LenCreate \in Nat /\ LenDelete \in Nat /\ LenMove \in Nat /\ LenSync \in Nat
  /\ LenAttack \in Nat /\ LenDamage \in Nat /\ LenEcho \in Nat

ASSUME PacketAssumption ==
  PacketDir \subseteq 0..255 /\ PacketX \subseteq Nat /\ PacketY \subseteq Nat

VARIABLES
  sessions,   \* life of each id in NetworkManager's map
  players,    \* GameManager's map: a function whose domain is its set of keys
  sector,     \* sector[q]: ids of the characters in the list of sector q
  client,     \* client[r][k]: what r's client will believe about character k
  sendQ,      \* bytes in each session's SendQ
  silent,     \* characters whose lastRecvTime is 30 s old or more
  phase,      \* which loop of the thread is running
  cur,        \* session whose RecvPacket is running
  todo,       \* characters Update's loop has still to visit
  fault       \* "none", or what ended the process

vars == <<sessions, players, sector, client, sendQ, silent, phase, cur, todo, fault>>

-----------------------------------------------------------------------------
(* Directions and the world.                                               *)

LL == 0
LU == 1
UU == 2
RU == 3
RR == 4
RD == 5
DD == 6
LD == 7
NoneMove == 10

StepX(d) == CASE d \in {LL, LU, LD} -> -SpeedX
              [] d \in {RU, RR, RD} -> SpeedX
              [] OTHER -> 0
StepY(d) == CASE d \in {LU, UU, RU} -> -SpeedY
              [] d \in {RD, DD, LD} -> SpeedY
              [] OTHER -> 0

SectorMaxX == RangeMoveRight \div SectorRange + 1
SectorMaxY == RangeMoveBottom \div SectorRange + 1
Grid == [x : 0..SectorMaxX - 1, y : 0..SectorMaxY - 1]

GetSectorPos(x, y) == [x |-> x \div SectorRange, y |-> y \div SectorRange]

Lower(a) == IF a < 0 THEN 0 ELSE a         \* max(0, a)
Upper(a, n) == IF a > n THEN n ELSE a      \* min(n, a)

GetSectorAround(p) ==
  [x : Lower(p.x - 1) .. Upper(p.x + 1, SectorMaxX - 1),
   y : Lower(p.y - 1) .. Upper(p.y + 1, SectorMaxY - 1)]

MutantCheckCharacterMove(x, y) == x <= RangeMoveRight /\ y <= RangeMoveBottom
CheckCharacterMove(x, y) == x \in 0..RangeMoveRight /\ y \in 0..RangeMoveBottom

CheckSectorUpdate(c) == GetSectorPos(c.x, c.y) # c.sector

Character ==
  [x : Nat, y : Nat, hp : Int, action : 0..255, moveDir : 0..255, sector : Grid]

Live == DOMAIN players

(* Recipients of SendAround from sector p, its sendMe flag set, when the   *)
(* sector lists are sec.                                                   *)
MutantAudience(sec, p) == sec[p]
Audience(sec, p) == {r \in Session : \E q \in GetSectorAround(p) : r \in sec[q]}

Around(s) == Audience(sector, players[s].sector)

-----------------------------------------------------------------------------
(* A client's belief about one character.  A creation of a character it    *)
(* knows, or any other message about one it does not know, garbles it.     *)

Unknown == [state |-> "unknown", act |-> NoneMove, hp |-> 0]
Garbled == [state |-> "garbled", act |-> NoneMove, hp |-> 0]
Belief == [state : {"unknown", "known", "garbled"}, act : 0..255, hp : Int]

(* CreateOtherCharacterMsg, followed by MoveStartMsg if c is moving.       *)
MutantLook(c) == [state |-> "known", hp |-> c.hp, act |-> NoneMove]
Look(c) ==
  [state |-> "known", hp |-> c.hp,
   act |-> IF c.action = NoneMove THEN NoneMove ELSE c.moveDir]

OnCreate(b, look) == IF b.state = "unknown" THEN look ELSE Garbled
OnDelete(b) == IF b.state = "known" THEN Unknown ELSE Garbled
OnMove(b, d) == IF b.state = "known" THEN [b EXCEPT !.act = d] ELSE Garbled
OnDamage(b, h) == IF b.state = "known" THEN [b EXCEPT !.hp = h] ELSE Garbled

If(cond, n) == IF cond THEN n ELSE 0
CreateLen(c) == LenCreate + If(c.action # NoneMove, LenMove)

(* SendUniCast fails when the ring has not len bytes free.                 *)
Overflow(bytes) == \E r \in Session : sendQ[r] + bytes[r] > SendQSize - 1
Queue(bytes) == sendQ' = [r \in Session |-> sendQ[r] + bytes[r]]

Crash(kind) ==
  /\ fault' = kind
  /\ UNCHANGED <<sessions, players, sector, client, sendQ, silent, phase, cur, todo>>

-----------------------------------------------------------------------------
(* Disconnect.  Every recipient, the leaver included, is sent the deletion *)
(* message before anything is erased.  A recipient whose SendQ has no room *)
(* for it is disconnected in the middle of that broadcast; its own         *)
(* deletion message cannot fit either, so the calls never return.          *)

Goodbye(s) ==
  [r \in Session |-> If(r \in Around(s), LenDelete)]

(* players.erase(s).                                                       *)
MutantWithout(s) == players
Without(s) == [i \in Live \ {s} |-> players[i]]

(* Update has already moved its iterator past s when s is erased.          *)
MutantLeftToVisit(s) == {}
LeftToVisit(s) == todo \ {s}

(* s, standing in sector at of lists, is erased; seen is what the clients   *)
(* believe before they hear of it.                                         *)
Erase(s, lists, at, seen) ==
  LET audience == Audience(lists, at)
  IN /\ sessions' = [sessions EXCEPT ![s] = "isDelete"]
     /\ players' = Without(s)
     /\ sector' = [lists EXCEPT ![at] = @ \ {s}]
     /\ client' = [r \in Session |->
          IF r = s THEN [k \in Session |-> Unknown]
          ELSE IF r \in audience THEN [seen[r] EXCEPT ![s] = OnDelete(@)]
          ELSE seen[r]]
     /\ silent' = silent \ {s}
     /\ todo' = LeftToVisit(s)
     /\ UNCHANGED fault

(* Disconnect(s), leaving phase and cur to the caller.                     *)
Disconnect(s, nextPhase, nextCur) ==
  \/ /\ s \in Live
     /\ ~Overflow(Goodbye(s))
     /\ Queue(Goodbye(s))
     /\ Erase(s, sector, players[s].sector, client)
     /\ phase' = nextPhase /\ cur' = nextCur
  \/ /\ s \in Live
     /\ Overflow(Goodbye(s))
     /\ Crash("sendq_overflow")
  \/ /\ s \notin Live
     /\ sessions' = [sessions EXCEPT ![s] = "isDelete"]
     /\ phase' = nextPhase /\ cur' = nextCur
     /\ UNCHANGED <<players, sector, client, sendQ, silent, todo, fault>>

-----------------------------------------------------------------------------
(* AcceptProc, CreateNewCharacter, OnCharacterConnect.                     *)

NewCharacter(x, y) ==
  [x |-> x, y |-> y, hp |-> PlayerHp, action |-> NoneMove, moveDir |-> LL,
   sector |-> GetSectorPos(x, y)]

AcceptBytes(s, c) ==
  LET others == Audience(sector, c.sector)
  IN [r \in Session |->
       IF r = s
         THEN LenCreate + LenCreate * Cardinality(others)
              + LenMove * Cardinality({k \in others : players[k].action # NoneMove})
         ELSE If(r \in others, LenCreate)]

(* Ids come from the counter dw_sessionId.                                 *)
FreshId(s) == sessions[s] = "unused"

OnCharacterConnect(s, c) ==
  LET others == Audience(sector, c.sector)
  IN \/ /\ Overflow(AcceptBytes(s, c))
        /\ Crash("sendq_overflow")
     \/ /\ ~Overflow(AcceptBytes(s, c))
        /\ sessions' = [sessions EXCEPT ![s] = "open"]
        /\ players' = [i \in Live \cup {s} |-> IF i = s THEN c ELSE players[i]]
        /\ sector' = [sector EXCEPT ![c.sector] = @ \cup {s}]
        /\ Queue(AcceptBytes(s, c))
        /\ client' = [r \in Session |-> [k \in Session |->
             IF r = s /\ k = s THEN OnCreate(client[r][k], Look(c))
             ELSE IF r = s /\ k \in others THEN OnCreate(client[r][k], Look(players[k]))
             ELSE IF k = s /\ r \in others THEN OnCreate(client[r][k], Look(c))
             ELSE client[r][k]]]
        /\ UNCHANGED <<silent, phase, cur, todo, fault>>

Accept(s, x, y) ==
  /\ fault = "none" /\ phase = "net"
  /\ FreshId(s)
  /\ OnCharacterConnect(s, NewCharacter(x, y))

-----------------------------------------------------------------------------
(* SectorUpdate: s moves from the sector of players[s] to that of its new  *)
(* record c.                                                               *)

Lost(s, at) ==
  {r \in Session \ {s} :
     \E q \in GetSectorAround(players[s].sector) \ GetSectorAround(at) : r \in sector[q]}
Gained(s, at) ==
  {r \in Session \ {s} :
     \E q \in GetSectorAround(at) \ GetSectorAround(players[s].sector) : r \in sector[q]}

MutantMovedSector(s, at) == [sector EXCEPT ![at] = @ \cup {s}]
MovedSector(s, at) ==
  [q \in Grid |-> IF q = at THEN sector[q] \cup {s}
                  ELSE IF q = players[s].sector THEN sector[q] \ {s}
                  ELSE sector[q]]

SectorUpdateBytes(s, c) ==
  LET gained == Gained(s, c.sector)
      lost == Lost(s, c.sector)
  IN [r \in Session |->
       IF r = s
         THEN LenDelete * Cardinality(lost) + LenCreate * Cardinality(gained)
              + LenMove * Cardinality({k \in gained : players[k].action # NoneMove})
         ELSE If(r \in lost, LenDelete) + If(r \in gained, CreateLen(c))]

SectorUpdateView(s, c) ==
  LET gained == Gained(s, c.sector)
      lost == Lost(s, c.sector)
  IN [r \in Session |-> [k \in Session |->
       IF (r = s /\ k \in lost) \/ (k = s /\ r \in lost) THEN OnDelete(client[r][k])
       ELSE IF r = s /\ k \in gained THEN OnCreate(client[r][k], Look(players[k]))
       ELSE IF k = s /\ r \in gained THEN OnCreate(client[r][k], Look(c))
       ELSE client[r][k]]]

(* Record c after CheckSectorUpdate and SetSector.                         *)
Placed(c) == IF CheckSectorUpdate(c) THEN [c EXCEPT !.sector = GetSectorPos(c.x, c.y)] ELSE c

-----------------------------------------------------------------------------
(* RecvPacket: recv() on a readable session, then its packet loop.         *)

Handling(s) == fault = "none" /\ phase = "recv" /\ cur = s

(* recv() failed or returned 0.                                            *)
RecvClosed(s) ==
  /\ fault = "none" /\ phase = "net" /\ sessions[s] = "open"
  /\ Disconnect(s, phase, cur)

RecvBegin(s) ==
  /\ fault = "none" /\ phase = "net" /\ sessions[s] = "open"
  /\ phase' = "recv" /\ cur' = s
  /\ UNCHANGED <<sessions, players, sector, client, sendQ, silent, todo, fault>>

(* No complete packet is left in the RecvQ.                                *)
RecvEnd(s) ==
  /\ Handling(s)
  /\ phase' = "net" /\ cur' = NoSession
  /\ UNCHANGED <<sessions, players, sector, client, sendQ, silent, todo, fault>>

(* header.byCode is wrong: Disconnect and leave the loop.                  *)
BadPacketCode(s) ==
  /\ Handling(s)
  /\ Disconnect(s, "net", NoSession)

(* PacketProc's default case: Disconnect, but RecvPacket's loop goes on.   *)
UnknownType(s) ==
  /\ Handling(s)
  /\ Disconnect(s, phase, cur)

(* A payload shorter than the handler reads: operator >> throws an int     *)
(* that nothing catches.                                                   *)
ShortPacket(s) ==
  /\ Handling(s)
  /\ Crash("no_data_in_buf")

(* A handler runs after its session was disconnected in the same loop:     *)
(* players[s.sessionId] inserts a null Character* and dereferences it.     *)
PlayerGone(s) ==
  /\ Handling(s) /\ s \notin Live
  /\ Crash("null_player")

Distance(a, b) == IF a > b THEN a - b ELSE b - a

OutOfSync(c, x, y) == Distance(c.x, x) > ErrorRange \/ Distance(c.y, y) > ErrorRange

SyncBytes(s, sync) ==
  [r \in Session |-> If(sync /\ r \in Around(s), LenSync)]

(* What PacketProc_MoveStart and PacketProc_MoveStop share: the position   *)
(* check, the new record, SectorUpdate, and the closing broadcast, which   *)
(* carries LenMove bytes in both.                                          *)
Repositioned(c, action, moveDir, x, y) ==
  LET sync == OutOfSync(c, x, y)
  IN Placed([c EXCEPT !.action = action, !.moveDir = moveDir,
                      !.x = IF sync THEN @ ELSE x, !.y = IF sync THEN @ ELSE y])

(* Recipients of the closing broadcast once s has the record c.            *)
Others(s, c) == Audience(MovedSector(s, c.sector), c.sector) \ {s}

RepositionBytes(s, c, sync) ==
  [r \in Session |->
     SyncBytes(s, sync)[r] + SectorUpdateBytes(s, c)[r] + If(r \in Others(s, c), LenMove)]

Announce(s, c, sync) ==
  \/ /\ c.sector \notin Grid
     /\ Crash("sector_range")
  \/ /\ c.sector \in Grid /\ Overflow(RepositionBytes(s, c, sync))
     /\ Crash("sendq_overflow")
  \/ /\ c.sector \in Grid /\ ~Overflow(RepositionBytes(s, c, sync))
     /\ players' = [players EXCEPT ![s] = c]
     /\ sector' = MovedSector(s, c.sector)
     /\ Queue(RepositionBytes(s, c, sync))
     /\ LET seen == SectorUpdateView(s, c)
        IN client' = [r \in Session |->
             IF r \in Others(s, c) THEN [seen[r] EXCEPT ![s] = OnMove(@, c.action)] ELSE seen[r]]
     /\ silent' = silent \ {s}
     /\ UNCHANGED <<sessions, phase, cur, todo, fault>>

Reposition(s, action, moveDir, x, y) ==
  /\ Handling(s) /\ s \in Live
  /\ Announce(s, Repositioned(players[s], action, moveDir, x, y),
                 OutOfSync(players[s], x, y))

MoveStart(s, d, x, y) == Reposition(s, d, d, x, y)

MoveStop(s, x, y) ==
  s \in Live /\ Reposition(s, NoneMove, players[s].moveDir, x, y)

-----------------------------------------------------------------------------
(* Attacks.                                                                *)

FacesRight(d) == (d \div 4) % 2 = 1        \* byDir & 0x4

(* The sectors SendDamage scans for targets of c.                          *)
MutantScannedSectors(c, right, t) ==
  LET startX == IF right THEN c.x \div SectorRange
                ELSE Lower((c.x - RangeX[t]) \div SectorRange)
      endX   == IF right THEN Upper((c.x + RangeX[t]) \div SectorRange, SectorMaxX - 1)
                ELSE c.x \div SectorRange
  IN {q \in Grid : q.x \in startX..endX /\ q.y = c.sector.y}

ScannedSectors(c, right, t) ==
  LET startX == IF right THEN c.x \div SectorRange
                ELSE Lower((c.x - RangeX[t]) \div SectorRange)
      endX   == IF right THEN Upper((c.x + RangeX[t]) \div SectorRange, SectorMaxX - 1)
                ELSE c.x \div SectorRange
      startY == Lower((c.y - RangeY[t]) \div SectorRange)
      endY   == Upper((c.y + RangeY[t]) \div SectorRange, SectorMaxY - 1)
  IN {q \in Grid : q.x \in startX..endX /\ q.y \in startY..endY}

InAttackBox(c, v, right, t) ==
  /\ IF right THEN c.x < v.x /\ v.x < c.x + RangeX[t]
              ELSE c.x - RangeX[t] < v.x /\ v.x < c.x
  /\ c.y - RangeY[t] < v.y /\ v.y < c.y + RangeY[t]

Hit(s, right, t) ==
  {v \in Session \ {s} :
     /\ \E q \in ScannedSectors(players[s], right, t) : v \in sector[q]
     /\ InAttackBox(players[s], players[v], right, t)}

(* hp -= dmg on a signed char.                                             *)
HitByAttacker(hp, dmg) ==
  ((hp - dmg + HpModulus \div 2) % HpModulus) - HpModulus \div 2

(* Who is told of the damage s did to v: those around v, v included.       *)
MutantToldOfDamage(s, v) == Around(v) \ {v}
ToldOfDamage(s, v) == Around(v)

AttackBytes(s, sync, hit) ==
  [r \in Session |->
     SyncBytes(s, sync)[r]
     + If(r # s /\ r \in Around(s), LenAttack)
     + LenDamage * Cardinality({v \in hit : r \in ToldOfDamage(s, v)})]

SendDamage(s, t, hit, sync) ==
  LET HpOf(v) == HitByAttacker(players[v].hp, Damage[t])
  IN \/ /\ Overflow(AttackBytes(s, sync, hit))
        /\ Crash("sendq_overflow")
     \/ /\ ~Overflow(AttackBytes(s, sync, hit))
        /\ players' = [i \in Live |->
             IF i \in hit THEN [players[i] EXCEPT !.hp = HpOf(i)] ELSE players[i]]
        /\ Queue(AttackBytes(s, sync, hit))
        /\ client' = [r \in Session |-> [k \in Session |->
             IF k \in hit /\ r \in ToldOfDamage(s, k)
               THEN OnDamage(client[r][k], HpOf(k)) ELSE client[r][k]]]
        /\ silent' = silent \ {s}
        /\ UNCHANGED <<sessions, sector, phase, cur, todo, fault>>

Attack(s, t, d, x, y) ==
  /\ Handling(s) /\ s \in Live
  /\ SendDamage(s, t, Hit(s, FacesRight(d), t), OutOfSync(players[s], x, y))

EchoBytes(s) == [r \in Session |-> If(r = s, LenEcho)]

MutantEcho(s) ==
  /\ Handling(s)
  /\ ~Overflow(EchoBytes(s))
  /\ Queue(EchoBytes(s))
  /\ UNCHANGED <<sessions, players, sector, client, silent, phase, cur, todo, fault>>
Echo(s) ==
  /\ Handling(s) /\ s \in Live
  /\ \/ /\ ~Overflow(EchoBytes(s))
        /\ Queue(EchoBytes(s))
        /\ silent' = silent \ {s}
        /\ UNCHANGED <<sessions, players, sector, client, phase, cur, todo, fault>>
     \/ /\ Overflow(EchoBytes(s))
        /\ Disconnect(s, phase, cur)

-----------------------------------------------------------------------------
(* The rest of NetworkManage: SendPacket, and erasing deleted sessions.    *)

(* send() takes n bytes of the contiguous part of the ring.                *)
SendPacket(s, n) ==
  /\ fault = "none" /\ phase = "net" /\ sessions[s] = "open"
  /\ n \in 1..sendQ[s]
  /\ sendQ' = [sendQ EXCEPT ![s] = @ - n]
  /\ UNCHANGED <<sessions, players, sector, client, silent, phase, cur, todo, fault>>

(* send() failed with another error than WSAEWOULDBLOCK.                   *)
SendFailed(s) ==
  /\ fault = "none" /\ phase = "net" /\ sessions[s] = "open" /\ sendQ[s] > 0
  /\ Disconnect(s, phase, cur)

Reap(s) ==
  /\ fault = "none" /\ phase = "net" /\ sessions[s] = "isDelete"
  /\ sessions' = [sessions EXCEPT ![s] = "erased"]
  /\ sendQ' = [sendQ EXCEPT ![s] = 0]
  /\ UNCHANGED <<players, sector, client, silent, phase, cur, todo, fault>>

-----------------------------------------------------------------------------
(* Update.                                                                 *)

(* 30 s pass without a message from s.                                     *)
FallSilent(s) ==
  /\ fault = "none" /\ phase = "net"
  /\ s \in Live \ silent
  /\ silent' = silent \cup {s}
  /\ UNCHANGED <<sessions, players, sector, client, sendQ, phase, cur, todo, fault>>

UpdateBegin ==
  /\ fault = "none" /\ phase = "net"
  /\ phase' = "update" /\ todo' = Live
  /\ UNCHANGED <<sessions, players, sector, client, sendQ, silent, cur, fault>>

UpdateEnd ==
  /\ fault = "none" /\ phase = "update" /\ todo = {}
  /\ phase' = "net"
  /\ UNCHANGED <<sessions, players, sector, client, sendQ, silent, cur, todo, fault>>

Updating(s) == fault = "none" /\ phase = "update" /\ s \in todo

MutantUpdateRemove(s) == Updating(s) /\ players[s].hp <= 0 /\ Disconnect(s, phase, cur)
UpdateRemove(s) ==
  /\ Updating(s)
  /\ players[s].hp <= 0 \/ s \in silent
  /\ Disconnect(s, phase, cur)

UpdateIdle(s) ==
  /\ Updating(s)
  /\ players[s].hp > 0 /\ s \notin silent /\ players[s].action = NoneMove
  /\ todo' = todo \ {s}
  /\ UNCHANGED <<sessions, players, sector, client, sendQ, silent, phase, cur, fault>>

(* One frame's movement of c.                                              *)
Stepped(c) ==
  LET x == c.x + StepX(c.action)
      y == c.y + StepY(c.action)
  IN IF CheckCharacterMove(x, y) THEN [c EXCEPT !.x = x, !.y = y] ELSE c

(* The mover's own SendQ overflows on the creation message of the last     *)
(* character SectorUpdate meets, and has room for its own deletion: it is  *)
(* disconnected, and Update does not use it afterwards.  heard(last) are   *)
(* the bytes queued then.  The order of the sector lists is abstracted:    *)
(* last may be any of the characters met.                                  *)
HeardBeforeLeaving(s, c, last) ==
  [r \in Session |->
     SectorUpdateBytes(s, c)[r] - If(r = s, CreateLen(players[last]))
     + If(r = s \/ r \in Audience(sector, c.sector), LenDelete)]

OverflowsOnlyOn(s, c, last) ==
  /\ sendQ[s] + SectorUpdateBytes(s, c)[s] > SendQSize - 1
  /\ ~Overflow(HeardBeforeLeaving(s, c, last))

Carry(s, c) ==
  \/ /\ ~Overflow(SectorUpdateBytes(s, c))
     /\ players' = [players EXCEPT ![s] = c]
     /\ sector' = MovedSector(s, c.sector)
     /\ Queue(SectorUpdateBytes(s, c))
     /\ client' = SectorUpdateView(s, c)
     /\ todo' = todo \ {s}
     /\ UNCHANGED <<sessions, silent, phase, cur, fault>>
  \/ \E last \in Gained(s, c.sector) :
       /\ OverflowsOnlyOn(s, c, last)
       /\ Queue(HeardBeforeLeaving(s, c, last))
       /\ Erase(s, MovedSector(s, c.sector), c.sector, SectorUpdateView(s, c))
       /\ UNCHANGED <<phase, cur>>
  \/ /\ Overflow(SectorUpdateBytes(s, c))
     /\ \/ Gained(s, c.sector) = {}
        \/ \E last \in Gained(s, c.sector) : ~OverflowsOnlyOn(s, c, last)
     /\ Crash("sendq_overflow")

UpdateMove(s) ==
  /\ Updating(s)
  /\ players[s].hp > 0 /\ s \notin silent /\ players[s].action # NoneMove
  /\ Carry(s, Placed(Stepped(players[s])))

-----------------------------------------------------------------------------
Init ==
  /\ sessions = [s \in Session |-> "unused"]
  /\ players = [s \in {} |-> NewCharacter(0, 0)]
  /\ sector = [q \in Grid |-> {}]
  /\ client = [r \in Session |-> [k \in Session |-> Unknown]]
  /\ sendQ = [s \in Session |-> 0]
  /\ silent = {} /\ todo = {}
  /\ phase = "net" /\ cur = NoSession
  /\ fault = "none"

(* A packet of RecvPacket's loop.                                          *)
Packet(s) ==
  \/ RecvEnd(s) \/ BadPacketCode(s) \/ UnknownType(s)
  \/ ShortPacket(s) \/ PlayerGone(s) \/ Echo(s)
  \/ \E x \in PacketX, y \in PacketY :
       \/ MoveStop(s, x, y)
       \/ \E d \in PacketDir :
            MoveStart(s, d, x, y) \/ \E t \in AttackType : Attack(s, t, d, x, y)

(* rand() % dfRANGE_MOVE_* places the new character.                       *)
Network(s) ==
  \/ \E x \in 0..RangeMoveRight - 1, y \in 0..RangeMoveBottom - 1 : Accept(s, x, y)
  \/ RecvClosed(s) \/ RecvBegin(s) \/ SendFailed(s) \/ Reap(s)
  \/ \E n \in 1..SendQSize - 1 : SendPacket(s, n)

Update(s) == UpdateRemove(s) \/ UpdateIdle(s) \/ UpdateMove(s)

Next ==
  \/ UpdateBegin \/ UpdateEnd
  \/ \E s \in Session : Network(s) \/ Packet(s) \/ Update(s) \/ FallSilent(s)

Spec == Init /\ [][Next]_vars

(* wmain's loop runs NetworkManage, which returns, and Update every 40 ms. *)
(* A RecvQ holds finitely many packets; every NetworkManage visits the     *)
(* whole session map; and Update's loop visits every character.            *)
Fairness ==
  /\ SF_vars(UpdateBegin) /\ WF_vars(UpdateEnd)
  /\ \A s \in Session : WF_vars(RecvEnd(s)) /\ WF_vars(Update(s)) /\ SF_vars(Reap(s))

FairSpec == Spec /\ Fairness

-----------------------------------------------------------------------------
(* Properties.                                                             *)

(* Every variable holds a value of its declared kind; the queues never     *)
(* hold more than SendQSize - 1 bytes; no list holds a character outside   *)
(* the grid.                                                               *)
TypeOK ==
  /\ sessions \in [Session -> {"unused", "open", "isDelete", "erased"}]
  /\ Live \subseteq Session /\ players \in [Live -> Character]
  /\ sector \in [Grid -> SUBSET Session]
  /\ client \in [Session -> [Session -> Belief]]
  /\ sendQ \in [Session -> 0..SendQSize - 1]
  /\ silent \subseteq Live /\ todo \subseteq Live
  /\ phase \in {"net", "recv", "update"}
  /\ cur \in Session \cup {NoSession}
  /\ fault \in {"none", "sendq_overflow", "null_player", "no_data_in_buf", "sector_range"}

(* A session has a character exactly while it is in the map and not        *)
(* marked deleted: the session map, the player map and isDelete, updated   *)
(* by different functions of two classes, never disagree between steps.    *)
SessionOwnsPlayer == \A s \in Session : s \in Live <=> sessions[s] = "open"

ListsOf(pl) == [q \in Grid |-> {s \in DOMAIN pl : pl[s].sector = q}]

(* The sector lists, which hold raw Character pointers, hold exactly the   *)
(* characters of the player map, each in the one list its cached curSector *)
(* names, and the cache agrees with its coordinates: no list ever holds a  *)
(* deleted character or a stale copy (SectorUpdate, OnCharacterConnect and *)
(* OnCharacterDisconnect).                                                 *)
SectorListsExact ==
  /\ sector = ListsOf(players)
  /\ \A s \in Live : players[s].sector = GetSectorPos(players[s].x, players[s].y)

(* Two characters see each other when their sectors touch, at a corner or  *)
(* more.                                                                   *)
Near(pl, r, k) ==
  /\ Distance(pl[r].sector.x, pl[k].sector.x) <= 1
  /\ Distance(pl[r].sector.y, pl[k].sector.y) <= 1

(* What r's client ought to believe of character k when pl is the player   *)
(* map.  It moves its own character itself and is not told how that moves. *)
Truth(pl, r, k) ==
  IF r \in DOMAIN pl /\ k \in DOMAIN pl /\ Near(pl, r, k)
    THEN IF r = k THEN [Look(pl[k]) EXCEPT !.act = NoneMove] ELSE Look(pl[k])
    ELSE Unknown

(* Area of interest: once a client has read its SendQ it knows exactly the *)
(* characters of the sectors around its own, with their hit points and     *)
(* their movement, and was never told twice of the same arrival nor        *)
(* anything about a character it did not know.                             *)
ViewExact == \A r, k \in Session : client[r][k] = Truth(players, r, k)

(* SendDamage looks only through the sectors its attack box touches, yet   *)
(* finds every character of the world that stands in the box.              *)
ScanComplete ==
  \A s \in Live, t \in AttackType, right \in BOOLEAN :
    Hit(s, right, t) =
      {v \in Live \ {s} : InAttackBox(players[s], players[v], right, t)}

(* When Update's loop ends every character left is alive and was heard     *)
(* from in the last 30 s.                                                  *)
UpdateReaps ==
  [][phase = "update" /\ phase' = "net"
       => \A s \in Live : players[s].hp > 0 /\ s \notin silent]_vars

(* Disconnect closes the socket first and broadcasts afterwards, and the   *)
(* leaver is told of its own deletion like everybody else.  Once the       *)
(* handler that closed a session has ended nothing more is queued for it:  *)
(* no packet still in the same read, nor a broadcast over a list that      *)
(* still held it, reaches a session that only waits to be erased.          *)
QuietOnceClosed ==
  [][\A r \in Session : sessions[r] \in {"isDelete", "erased"} => sendQ'[r] <= sendQ[r]]_vars

(* A client silent for 30 s loses its character, and its session is erased *)
(* and its memory freed, unless a packet still in its RecvQ is handled     *)
(* first or the process ends.                                              *)
SilentRemoved ==
  \A s \in Session :
    s \in silent ~> sessions[s] = "erased" \/ s \in Live \ silent \/ fault # "none"

(* A character that dies is deleted, as Protocol.h says of the deletion    *)
(* message: one whose hit points are gone leaves the world.  Hits between  *)
(* two frames may carry hp past the least signed char and make it alive.   *)
DeadRemoved ==
  \A s \in Session :
    s \in Live /\ players[s].hp <= 0 ~> s \notin Live \/ fault # "none"
====
