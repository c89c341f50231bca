--------------------------- MODULE GameManagerProofs ---------------------------
(***************************************************************************)
(* Theorems about GameManager, for every world size, every set of sessions *)
(* and every message length the assumptions allow.                         *)
(***************************************************************************)
EXTENDS GameManager, FiniteSetTheorems, TLAPS

-----------------------------------------------------------------------------
(* Arithmetic of the grid.                                                 *)

(* Dividing by SectorRange keeps an in-range coordinate in range.          *)
LEMMA DivBound ==
  ASSUME NEW n \in Nat, NEW a \in 0..n
  PROVE  /\ a \div SectorRange \in Nat
         /\ a \div SectorRange <= n \div SectorRange
         /\ n \div SectorRange \in Nat
BY WorldAssumption, SMTT(30)

(* The sector of a point of the world is one of the grid.                  *)
LEMMA WorldInGrid ==
  ASSUME NEW x \in 0..RangeMoveRight, NEW y \in 0..RangeMoveBottom
  PROVE  GetSectorPos(x, y) \in Grid
BY DivBound, WorldAssumption DEF GetSectorPos, Grid, SectorMaxX, SectorMaxY

(* The neighbourhood of a sector holds grid sectors only, the sector       *)
(* itself among them, and is symmetric.                                    *)
LEMMA AroundInGrid ==
  ASSUME NEW p \in Grid
  PROVE  GetSectorAround(p) \subseteq Grid /\ p \in GetSectorAround(p)
<1>1. SectorMaxX \in Nat \ {0} /\ SectorMaxY \in Nat \ {0}
  BY DivBound, WorldAssumption DEF SectorMaxX, SectorMaxY
<1>. QED
  BY <1>1 DEF GetSectorAround, Grid, Lower, Upper

(* Two sectors are in each other's neighbourhood or neither is: whoever I  *)
(* hear of hears of me.                                                    *)
LEMMA AroundSymmetric ==
  ASSUME NEW p \in Grid, NEW q \in Grid
  PROVE  p \in GetSectorAround(q) <=> q \in GetSectorAround(p)
<1>1. SectorMaxX \in Nat \ {0} /\ SectorMaxY \in Nat \ {0}
  BY DivBound, WorldAssumption DEF SectorMaxX, SectorMaxY
<1>. QED
  BY <1>1 DEF GetSectorAround, Grid, Lower, Upper

(* GetSectorAround yields the sectors that touch p, clipped to the grid.   *)
LEMMA AroundIsNear ==
  ASSUME NEW p \in Grid, NEW q \in Grid
  PROVE  q \in GetSectorAround(p) <=> Distance(p.x, q.x) <= 1 /\ Distance(p.y, q.y) <= 1
<1>1. SectorMaxX \in Nat \ {0} /\ SectorMaxY \in Nat \ {0}
  BY DivBound, WorldAssumption DEF SectorMaxX, SectorMaxY
<1>. QED
  BY <1>1 DEF GetSectorAround, Grid, Lower, Upper, Distance

(* Characters of the grid see each other exactly when the broadcasts of    *)
(* one reach the other.                                                    *)
LEMMA NearExact ==
  ASSUME NEW pl, NEW r, NEW k, pl[r].sector \in Grid, pl[k].sector \in Grid
  PROVE  Near(pl, r, k) <=> pl[k].sector \in GetSectorAround(pl[r].sector)
BY AroundIsNear DEF Near

-----------------------------------------------------------------------------
(* Bytes.                                                                  *)

(* A number of messages of so many bytes is a number of bytes.             *)
LEMMA ProductNat ==
  ASSUME NEW a \in Nat, NEW b \in Nat
  PROVE  a * b \in Nat
BY SMT

(* Any set of sessions can be counted.                                     *)
LEMMA CountNat ==
  ASSUME NEW A \in SUBSET Session
  PROVE  IsFiniteSet(A) /\ Cardinality(A) \in Nat
BY SessionAssumption, FS_Subset, FS_CardinalityType

Bytes == [Session -> Nat]

(* A broadcast that does not overflow leaves every SendQ within bounds.    *)
LEMMA QueueBounded ==
  ASSUME sendQ \in [Session -> 0..SendQSize - 1], NEW bytes \in Bytes,
         ~Overflow(bytes), Queue(bytes)
  PROVE  sendQ' \in [Session -> 0..SendQSize - 1]
BY WireAssumption DEF Overflow, Queue, Bytes

(* A creation message, with its movement, has a length.                    *)
LEMMA CreateLenNat ==
  ASSUME NEW c \in Character
  PROVE  CreateLen(c) \in Nat
BY WireAssumption DEF CreateLen, If

(* The deletion broadcast of Disconnect counts a number of bytes for each  *)
(* session.                                                                *)
LEMMA GoodbyeBytes ==
  ASSUME NEW s
  PROVE  Goodbye(s) \in Bytes
BY WireAssumption DEF Goodbye, Bytes, If

(* So do the creation messages of OnCharacterConnect.                      *)
LEMMA AcceptBytesNat ==
  ASSUME NEW s \in Session, NEW c
  PROVE  AcceptBytes(s, c) \in Bytes
<1>. DEFINE others == Audience(sector, c.sector)
            moving == {k \in others : players[k].action # NoneMove}
<1>1. others \subseteq Session /\ moving \subseteq Session
  BY DEF Audience
<1>2. Cardinality(others) \in Nat /\ Cardinality(moving) \in Nat
  BY <1>1, CountNat
<1>3. LenCreate * Cardinality(others) \in Nat /\ LenMove * Cardinality(moving) \in Nat
  BY <1>2, ProductNat, WireAssumption
<1>. DEFINE own == LenCreate + LenCreate * Cardinality(others) + LenMove * Cardinality(moving)
            told(r) == If(r \in others, LenCreate)
<1>4. own \in Nat /\ \A r \in Session : told(r) \in Nat
  BY <1>3, WireAssumption DEF If
<1>5. AcceptBytes(s, c) = [r \in Session |-> IF r = s THEN own ELSE told(r)]
  BY DEF AcceptBytes
<1>. HIDE DEF own, told
<1>. QED
  BY <1>4, <1>5 DEF Bytes

(* So do the deletion and creation messages of SectorUpdate.               *)
LEMMA SectorUpdateBytesNat ==
  ASSUME NEW s \in Session, NEW c \in Character
  PROVE  SectorUpdateBytes(s, c) \in Bytes
<1>. DEFINE gained == Gained(s, c.sector)
            lost == Lost(s, c.sector)
            moving == {k \in gained : players[k].action # NoneMove}
<1>1. gained \subseteq Session /\ moving \subseteq Session /\ lost \subseteq Session
  BY DEF Gained, Lost
<1>2. Cardinality(gained) \in Nat /\ Cardinality(moving) \in Nat /\ Cardinality(lost) \in Nat
  BY <1>1, CountNat
<1>3. /\ LenCreate * Cardinality(gained) \in Nat
      /\ LenMove * Cardinality(moving) \in Nat
      /\ LenDelete * Cardinality(lost) \in Nat
  BY <1>2, ProductNat, WireAssumption
<1>4. CreateLen(c) \in Nat
  BY CreateLenNat
<1>. DEFINE own == LenDelete * Cardinality(lost) + LenCreate * Cardinality(gained)
                   + LenMove * Cardinality(moving)
            told(r) == If(r \in lost, LenDelete) + If(r \in gained, CreateLen(c))
<1>5. own \in Nat /\ \A r \in Session : told(r) \in Nat
  BY <1>3, <1>4, WireAssumption DEF If
<1>6. SectorUpdateBytes(s, c) = [r \in Session |-> IF r = s THEN own ELSE told(r)]
  BY DEF SectorUpdateBytes
<1>. HIDE DEF own, told
<1>. QED
  BY <1>5, <1>6 DEF Bytes

(* So do all the messages of PacketProc_MoveStart and PacketProc_MoveStop. *)
LEMMA RepositionBytesNat ==
  ASSUME NEW s \in Session, NEW c \in Character, NEW sync \in BOOLEAN
  PROVE  RepositionBytes(s, c, sync) \in Bytes
BY SectorUpdateBytesNat, WireAssumption DEF RepositionBytes, SyncBytes, Bytes, If

(* So do the messages of PacketProc_Attack and SendDamage.                 *)
LEMMA AttackBytesNat ==
  ASSUME NEW s, NEW sync \in BOOLEAN, NEW hit \in SUBSET Session
  PROVE  AttackBytes(s, sync, hit) \in Bytes
<1>. DEFINE told(r) == {v \in hit : r \in ToldOfDamage(s, v)}
<1>1. ASSUME NEW r \in Session
      PROVE  LenDamage * Cardinality(told(r)) \in Nat
  BY CountNat, ProductNat, WireAssumption
<1>. QED
  BY <1>1, WireAssumption DEF AttackBytes, SyncBytes, Bytes, If

(* The bytes of the messages that precede the fatal one: at least one      *)
(* creation message is due, so taking the last one away leaves a number.   *)
LEMMA HeardBytesNat ==
  ASSUME NEW s \in Session, NEW c \in Character, players \in [Live -> Character],
         NEW last \in Gained(s, c.sector), last \in Live
  PROVE  HeardBeforeLeaving(s, c, last) \in Bytes
<1>. DEFINE gained == Gained(s, c.sector)
            lost == Lost(s, c.sector)
            moving == {k \in gained : players[k].action # NoneMove}
<1>1. gained \subseteq Session /\ moving \subseteq Session /\ lost \subseteq Session
  BY DEF Gained, Lost
<1>2. /\ Cardinality(gained) \in Nat /\ Cardinality(moving) \in Nat
      /\ Cardinality(lost) \in Nat
      /\ IsFiniteSet(gained) /\ IsFiniteSet(moving)
  BY <1>1, CountNat
<1>3. Cardinality(gained) >= 1
  BY <1>2, FS_EmptySet
<1>4. last \in moving => Cardinality(moving) >= 1
  BY <1>2, FS_EmptySet
<1>5. LenDelete * Cardinality(lost) \in Nat
  BY <1>2, ProductNat, WireAssumption
<1>6. /\ LenCreate * Cardinality(gained) \in Nat
      /\ LenCreate * Cardinality(gained) >= LenCreate
  BY <1>2, <1>3, WireAssumption, SMT
<1>7. /\ LenMove * Cardinality(moving) \in Nat
      /\ last \in moving => LenMove * Cardinality(moving) >= LenMove
  BY <1>2, <1>4, WireAssumption, SMT
<1>8. CreateLen(players[last]) \in Nat
  BY CreateLenNat
<1>9. /\ SectorUpdateBytes(s, c)[s] \in Nat
      /\ SectorUpdateBytes(s, c)[s] >= CreateLen(players[last])
  <2>1. SectorUpdateBytes(s, c)[s]
          = LenDelete * Cardinality(lost) + LenCreate * Cardinality(gained)
            + LenMove * Cardinality(moving)
    BY DEF SectorUpdateBytes
  <2>. HIDE DEF gained, lost
  <2>2. CASE last \in moving
    <3>1. CreateLen(players[last]) <= LenCreate + LenMove
      BY WireAssumption DEF CreateLen, If
    <3>. HIDE DEF moving
    <3>. QED
      BY <2>1, <2>2, <3>1, <1>5, <1>6, <1>7, <1>8, WireAssumption
  <2>3. CASE last \notin moving
    <3>1. last \in gained
      BY DEF gained
    <3>2. CreateLen(players[last]) = LenCreate
      BY <2>3, <3>1, WireAssumption DEF CreateLen, If
    <3>. HIDE DEF moving
    <3>. QED
      BY <2>1, <3>2, <1>5, <1>6, <1>7, <1>8, WireAssumption
  <2>. QED
    BY <2>2, <2>3
<1>10. SectorUpdateBytes(s, c) \in Bytes
  BY SectorUpdateBytesNat
<1>. QED
  BY <1>8, <1>9, <1>10, WireAssumption DEF HeardBeforeLeaving, Bytes, If

-----------------------------------------------------------------------------
(* The inductive invariant.                                                *)

PlayersTyped == Live \subseteq Session /\ players \in [Live -> Character]

IInv == TypeOK /\ SessionOwnsPlayer /\ SectorListsExact /\ ViewExact

(* What exact sector lists mean for a broadcast: it reaches exactly the    *)
(* characters whose own neighbourhood holds the sector it is sent from.    *)
LEMMA AudienceExact ==
  ASSUME NEW pl, DOMAIN pl \subseteq Session, NEW p \in Grid, NEW r \in Session,
         \A i \in DOMAIN pl : pl[i].sector \in Grid
  PROVE  r \in Audience(ListsOf(pl), p) <=> r \in DOMAIN pl /\ pl[r].sector \in GetSectorAround(p)
BY AroundInGrid DEF Audience, ListsOf

(* SectorUpdate sends deletions between s and exactly those that were around*)
(* it and no longer are, creations between s and exactly those that were not*)
(* and now are.                                                            *)
LEMMA LostExact ==
  ASSUME PlayersTyped, sector = ListsOf(players), NEW s \in Live, NEW at \in Grid, NEW r \in Session
  PROVE  /\ r \in Lost(s, at) <=>
               /\ r \in Live \ {s}
               /\ players[r].sector \in GetSectorAround(players[s].sector)
               /\ players[r].sector \notin GetSectorAround(at)
         /\ r \in Gained(s, at) <=>
               /\ r \in Live \ {s}
               /\ players[r].sector \in GetSectorAround(at)
               /\ players[r].sector \notin GetSectorAround(players[s].sector)
<1>1. players[s].sector \in Grid
  BY DEF PlayersTyped, Character
<1>. QED
  BY <1>1, AroundInGrid DEF Lost, Gained, ListsOf, PlayersTyped

(* SectorUpdate leaves the lists exact for the new player map.             *)
LEMMA MovedSectorExact ==
  ASSUME PlayersTyped, sector = ListsOf(players), NEW s \in Live,
         NEW c, c.sector \in Grid
  PROVE  MovedSector(s, c.sector) = ListsOf([players EXCEPT ![s] = c])
BY DEF MovedSector, ListsOf, PlayersTyped, Character

(* What SectorUpdate tells the clients: everything they ought to believe   *)
(* once s has the record c, except that those who keep seeing s still      *)
(* believe in its old movement.                                            *)
LEMMA SectorUpdateViewExact ==
  ASSUME PlayersTyped, sector = ListsOf(players), ViewExact,
         NEW s \in Live, NEW c \in Character, c.hp = players[s].hp,
         NEW r \in Session, NEW k \in Session
  PROVE  SectorUpdateView(s, c)[r][k] =
           IF k = s /\ r \in Live \ {s} /\ Near(players, r, s)
                    /\ Near([players EXCEPT ![s] = c], r, s)
             THEN Look(players[s])
             ELSE Truth([players EXCEPT ![s] = c], r, k)
<1>. DEFINE new == [players EXCEPT ![s] = c]
<1>1. /\ c.sector \in Grid
      /\ \A i \in Live : players[i].sector \in Grid
      /\ DOMAIN new = Live
      /\ new[s] = c
      /\ \A i \in Live \ {s} : new[i] = players[i]
  BY DEF PlayersTyped, Character
<1>2. client[r][k] = Truth(players, r, k)
  BY DEF ViewExact
<1>3. CASE r # s /\ k # s
  BY <1>1, <1>2, <1>3 DEF SectorUpdateView, Truth, Near
<1>4. CASE r = s /\ k = s
  <2>1. s \notin Lost(s, c.sector) /\ s \notin Gained(s, c.sector)
    BY DEF Lost, Gained
  <2>2. Near(players, s, s) /\ Near(new, s, s)
    BY <1>1, <1>4, AroundInGrid, NearExact
  <2>. QED
    BY <1>1, <1>2, <1>4, <2>1, <2>2 DEF SectorUpdateView, Truth, Look
<1>5. CASE r = s /\ k # s
  <2>1. /\ k \in Lost(s, c.sector) <=>
             k \in Live /\ Near(players, s, k) /\ ~Near(new, s, k)
        /\ k \in Gained(s, c.sector) <=>
             k \in Live /\ Near(new, s, k) /\ ~Near(players, s, k)
    <3>1. k \in Live => /\ Near(players, s, k) <=> players[k].sector \in GetSectorAround(players[s].sector)
                        /\ Near(new, s, k) <=> players[k].sector \in GetSectorAround(c.sector)
      <4>1. k \in Live => new[k].sector \in Grid /\ new[k] = players[k]
        BY <1>1, <1>5
      <4>. QED
        BY <1>1, <1>5, <4>1, NearExact
    <3>. QED
      BY <1>1, <1>5, <3>1, LostExact
  <2>. QED
    BY <1>1, <1>2, <1>5, <2>1 DEF SectorUpdateView, Truth, Look, OnDelete, OnCreate, Unknown
<1>6. CASE r # s /\ k = s
  <2>1. /\ r \in Lost(s, c.sector) <=>
             r \in Live /\ Near(players, r, s) /\ ~Near(new, r, s)
        /\ r \in Gained(s, c.sector) <=>
             r \in Live /\ Near(new, r, s) /\ ~Near(players, r, s)
    <3>1. r \in Live => /\ Near(players, r, s) <=> players[s].sector \in GetSectorAround(players[r].sector)
                        /\ Near(new, r, s) <=> c.sector \in GetSectorAround(players[r].sector)
      <4>1. r \in Live => new[r].sector \in Grid /\ new[r] = players[r]
        BY <1>1, <1>6
      <4>. QED
        BY <1>1, <1>6, <4>1, NearExact
    <3>. QED
      BY <1>1, <1>6, <3>1, LostExact, AroundSymmetric
  <2>. QED
    BY <1>1, <1>2, <1>6, <2>1 DEF SectorUpdateView, Truth, Look, OnDelete, OnCreate, Unknown
<1>. QED
  BY <1>3, <1>4, <1>5, <1>6

(* What a client ought to believe is a belief.                             *)
LEMMA TruthTyped ==
  ASSUME NEW pl, pl \in [DOMAIN pl -> Character], NEW r, NEW k
  PROVE  Truth(pl, r, k) \in Belief
BY DEF Truth, Look, Unknown, Belief, Character, NoneMove

-----------------------------------------------------------------------------
(* The invariant holds initially.                                          *)
LEMMA InitInv == Init => IInv
<1>. SUFFICES ASSUME Init PROVE IInv
  OBVIOUS
<1>1. TypeOK
  <2>1. players \in [Live -> Character] /\ Live = {}
    BY DEF Init, Live
  <2>. QED
    BY <2>1, WireAssumption DEF Init, TypeOK, Belief, Unknown, NoneMove
<1>2. SessionOwnsPlayer
  BY DEF Init, SessionOwnsPlayer, Live
<1>3. SectorListsExact
  BY DEF Init, SectorListsExact, ListsOf, Live
<1>4. ViewExact
  BY DEF Init, ViewExact, Truth
<1>. QED
  BY <1>1, <1>2, <1>3, <1>4 DEF IInv

(* Steps that touch neither characters, nor lists, nor beliefs, nor the    *)
(* set of open sessions.                                                   *)
LEMMA QuietStep ==
  ASSUME IInv, TypeOK', UNCHANGED <<players, sector, client>>,
         \A s \in Session : sessions[s] = "open" <=> sessions'[s] = "open"
  PROVE  IInv'
BY DEF IInv, SessionOwnsPlayer, SectorListsExact, ViewExact, Live

Fault == {"none", "sendq_overflow", "null_player", "no_data_in_buf", "sector_range"}

(* A step that ends the process preserves the invariant.                   *)
LEMMA CrashStep ==
  ASSUME IInv, NEW kind \in Fault, Crash(kind)
  PROVE  IInv'
BY QuietStep DEF IInv, TypeOK, Crash, Fault, Live

(* Erasing s, whatever record it had been given on the way (pl), keeps the *)
(* invariant.                                                              *)
LEMMA EraseStep ==
  ASSUME IInv, NEW s \in Live,
         NEW pl \in [Live -> Character],
         \A i \in Live \ {s} : pl[i] = players[i],
         NEW seen \in [Session -> [Session -> Belief]],
         \A r, k \in Session : seen[r][k] = Truth(pl, r, k),
         Erase(s, ListsOf(pl), pl[s].sector, seen),
         sendQ' \in [Session -> 0..SendQSize - 1],
         phase' \in {"net", "recv", "update"}, cur' \in Session \cup {NoSession}
  PROVE  IInv'
<1>. DEFINE at == pl[s].sector
            audience == Audience(ListsOf(pl), at)
<1>1. /\ Live' = Live \ {s}
      /\ players' \in [Live' -> Character]
      /\ \A i \in Live' : players'[i] = players[i] /\ players'[i] = pl[i]
      /\ Live \subseteq Session
      /\ at \in Grid
  BY DEF Erase, Without, Live, IInv, TypeOK, Character
<1>2. SessionOwnsPlayer'
  BY <1>1 DEF Erase, SessionOwnsPlayer, IInv, TypeOK
<1>3. SectorListsExact'
  <2>1. sector' = ListsOf(players)'
    <3>1. DOMAIN pl = Live /\ s \in Live
      OBVIOUS
    <3>2. ASSUME NEW q \in Grid
          PROVE  sector'[q] = {i \in Live' : players'[i].sector = q}
      BY <1>1, <3>1 DEF Erase, ListsOf
    <3>3. sector' = [q \in Grid |-> sector'[q]]
      BY DEF Erase, ListsOf
    <3>. QED
      BY <3>2, <3>3, Zenon DEF ListsOf, Live
  <2>. QED
    BY <1>1, <2>1 DEF SectorListsExact, IInv
<1>4. ViewExact'
  <2>. SUFFICES ASSUME NEW r \in Session, NEW k \in Session
                PROVE  client'[r][k] = Truth(players', r, k)
    BY DEF ViewExact
  <2>1. CASE r = s
    BY <1>1, <2>1 DEF Erase, Truth, Live
  <2>2. CASE r # s /\ k # s
    <3>1. client'[r][k] = Truth(pl, r, k)
      BY <2>2 DEF Erase
    <3>. QED
      BY <1>1, <2>2, <3>1 DEF Truth, Near, Live
  <2>3. CASE r # s /\ k = s
    <3>1. r \in audience <=> r \in Live /\ Near(pl, r, s)
      BY <1>1, AudienceExact, AroundSymmetric, NearExact DEF Character
    <3>2. client'[r][s] = IF r \in audience THEN OnDelete(Truth(pl, r, s)) ELSE Truth(pl, r, s)
      BY <1>1, <2>3 DEF Erase
    <3>3. client'[r][s] = Unknown
      BY <1>1, <2>3, <3>1, <3>2 DEF Truth, OnDelete, Look, Unknown
    <3>. QED
      BY <1>1, <2>3, <3>3 DEF Truth, Live
  <2>. QED
    BY <2>1, <2>2, <2>3
<1>5. TypeOK'
  <2>1. client' \in [Session -> [Session -> Belief]]
    BY <1>1 DEF Erase, OnDelete, Unknown, Garbled, Belief, NoneMove
  <2>2. sector' \in [Grid -> SUBSET Session]
    BY <1>1 DEF Erase, ListsOf
  <2>. QED
    BY <1>1, <2>1, <2>2 DEF TypeOK, IInv, Erase, LeftToVisit
<1>. QED
  BY <1>2, <1>3, <1>4, <1>5 DEF IInv

(* Disconnect keeps the invariant, whatever the caller does with phase and *)
(* cur.                                                                    *)
LEMMA DisconnectStep ==
  ASSUME IInv, NEW s \in Session,
         NEW nextPhase \in {"net", "recv", "update"}, NEW nextCur \in Session \cup {NoSession},
         s \notin Live => sessions[s] # "open",
         Disconnect(s, nextPhase, nextCur)
  PROVE  IInv'
<1>1. CASE s \in Live /\ Overflow(Goodbye(s)) /\ Crash("sendq_overflow")
  BY <1>1, CrashStep DEF Fault
<1>2. CASE /\ s \in Live /\ ~Overflow(Goodbye(s)) /\ Queue(Goodbye(s))
           /\ Erase(s, sector, players[s].sector, client)
           /\ phase' = nextPhase /\ cur' = nextCur
  <2>1. sendQ' \in [Session -> 0..SendQSize - 1]
    BY <1>2, GoodbyeBytes, QueueBounded DEF IInv, TypeOK
  <2>2. /\ players \in [Live -> Character] /\ sector = ListsOf(players)
        /\ client \in [Session -> [Session -> Belief]]
        /\ \A r, k \in Session : client[r][k] = Truth(players, r, k)
    BY DEF IInv, TypeOK, SectorListsExact, ViewExact
  <2>. QED
    BY <1>2, <2>1, <2>2, EraseStep
<1>3. CASE /\ s \notin Live
           /\ sessions' = [sessions EXCEPT ![s] = "isDelete"]
           /\ phase' = nextPhase /\ cur' = nextCur
           /\ UNCHANGED <<players, sector, client, sendQ, silent, todo, fault>>
  <2>1. TypeOK'
    BY <1>3 DEF IInv, TypeOK, Live
  <2>. QED
    BY <1>3, <2>1, QuietStep DEF IInv, TypeOK
<1>. QED
  BY <1>1, <1>2, <1>3 DEF Disconnect

(* A new session: its character enters the map, its list and the views of  *)
(* those around it.                                                        *)
LEMMA AcceptStep ==
  ASSUME IInv, NEW s \in Session,
         NEW x \in 0..RangeMoveRight - 1, NEW y \in 0..RangeMoveBottom - 1,
         Accept(s, x, y)
  PROVE  IInv'
<1>. DEFINE c == NewCharacter(x, y)
            others == Audience(sector, c.sector)
<1>1. c.sector \in Grid /\ c.sector = GetSectorPos(c.x, c.y)
  BY WorldInGrid, WorldAssumption DEF NewCharacter
<1>2. c \in Character /\ Look(c) = [Look(c) EXCEPT !.act = NoneMove]
  BY <1>1, CombatAssumption, WorldAssumption DEF NewCharacter, Character, NoneMove, LL, Look
<1>3. s \notin Live
  BY DEF Accept, FreshId, IInv, SessionOwnsPlayer
<1>4. CASE Crash("sendq_overflow")
  BY <1>4, CrashStep DEF Fault
<1>5. CASE ~Crash("sendq_overflow")
  <2>1. /\ ~Overflow(AcceptBytes(s, c)) /\ Queue(AcceptBytes(s, c))
        /\ sessions' = [sessions EXCEPT ![s] = "open"]
        /\ players' = [i \in Live \cup {s} |-> IF i = s THEN c ELSE players[i]]
        /\ sector' = [sector EXCEPT ![c.sector] = @ \cup {s}]
        /\ client' = [r \in Session |-> [k \in Session |->
             IF r = s /\ k = s THEN OnCreate(client[r][k], Look(c))
             ELSE IF r = s /\ k \in others THEN OnCreate(client[r][k], Look(players[k]))
             ELSE IF k = s /\ r \in others THEN OnCreate(client[r][k], Look(c))
             ELSE client[r][k]]]
        /\ UNCHANGED <<silent, phase, cur, todo, fault>>
    BY <1>5 DEF Accept, OnCharacterConnect
  <2>2. /\ Live' = Live \cup {s} /\ Live \subseteq Session
        /\ players' \in [Live' -> Character]
        /\ players'[s] = c /\ \A i \in Live : players'[i] = players[i]
        /\ \A i \in Live : players[i].sector \in Grid
    BY <1>2, <1>3, <2>1 DEF Live, IInv, TypeOK, Character
  <2>3. SessionOwnsPlayer'
    BY <2>1, <2>2 DEF SessionOwnsPlayer, IInv, TypeOK
  <2>4. SectorListsExact'
    <3>1. ASSUME NEW q \in Grid
          PROVE  sector'[q] = {i \in Live' : players'[i].sector = q}
      <4>1. sector[q] = {i \in Live : players[i].sector = q}
        BY DEF SectorListsExact, IInv, ListsOf, Live
      <4>2. sector'[q] = IF q = c.sector THEN sector[q] \cup {s} ELSE sector[q]
        BY <1>1, <2>1 DEF IInv, TypeOK
      <4>. HIDE DEF c
      <4>. QED
        BY <1>3, <2>2, <4>1, <4>2
    <3>2. sector' = [q \in Grid |-> sector'[q]]
      BY <2>1 DEF SectorListsExact, IInv, ListsOf
    <3>3. sector' = ListsOf(players)'
      BY <3>1, <3>2, Zenon DEF ListsOf, Live
    <3>. QED
      BY <1>1, <2>2, <3>3 DEF SectorListsExact, IInv
  <2>5. \A r \in Session : r \in others <=> r \in Live /\ players[r].sector \in GetSectorAround(c.sector)
    BY <1>1, <2>2, AudienceExact DEF SectorListsExact, IInv, Live
  <2>6. ViewExact'
    <3>. SUFFICES ASSUME NEW r \in Session, NEW k \in Session
                  PROVE  client'[r][k] = Truth(players', r, k)
      BY DEF ViewExact
    <3>1. client[r][k] = Truth(players, r, k)
      BY DEF IInv, ViewExact
    <3>2. CASE r # s /\ k # s
      BY <2>1, <2>2, <3>1, <3>2 DEF Truth, Near, Live
    <3>3. CASE r = s /\ k = s
      <4>1. Near(players', s, s)
        BY <1>1, <2>2, AroundInGrid, NearExact
      <4>. QED
        BY <1>2, <1>3, <2>1, <2>2, <3>1, <3>3, <4>1 DEF Truth, OnCreate, Unknown, Live
    <3>4. CASE r = s /\ k # s
      <4>1. k \in Live => (Near(players', s, k) <=> k \in others)
        BY <1>1, <2>2, <2>5, <3>4, NearExact, AroundSymmetric DEF Live
      <4>. QED
        BY <1>3, <2>1, <2>2, <2>5, <3>1, <3>4, <4>1 DEF Truth, OnCreate, Unknown, Live
    <3>5. CASE r # s /\ k = s
      <4>1. r \in Live => (Near(players', r, s) <=> r \in others)
        BY <1>1, <2>2, <2>5, <3>5, NearExact, AroundSymmetric DEF Live
      <4>. QED
        BY <1>3, <2>1, <2>2, <2>5, <3>1, <3>5, <4>1 DEF Truth, OnCreate, Unknown, Live
    <3>. QED
      BY <3>2, <3>3, <3>4, <3>5
  <2>7. TypeOK'
    <3>1. sendQ' \in [Session -> 0..SendQSize - 1]
      BY <2>1, AcceptBytesNat, QueueBounded DEF IInv, TypeOK
    <3>2. client' \in [Session -> [Session -> Belief]]
      <4>1. \A r, k \in Session : client'[r][k] \in Belief
        BY <2>2, <2>6, TruthTyped DEF ViewExact, Live
      <4>. QED
        BY <2>1, <4>1
    <3>3. sector' \in [Grid -> SUBSET Session]
      BY <1>1, <2>1 DEF IInv, TypeOK
    <3>4. silent' \subseteq Live' /\ todo' \subseteq Live'
      BY <2>1, <2>2 DEF IInv, TypeOK
    <3>. HIDE DEF c, others
    <3>. QED
      BY <2>1, <2>2, <3>1, <3>2, <3>3, <3>4 DEF IInv, TypeOK
  <2>. QED
    BY <2>3, <2>4, <2>6, <2>7 DEF IInv
<1>. QED
  BY <1>4, <1>5

-----------------------------------------------------------------------------
(* Movement.                                                               *)

(* PacketProc_MoveStart and PacketProc_MoveStop preserve the invariant,    *)
(* whatever action and coordinates the packet carries.                     *)
LEMMA RepositionStep ==
  ASSUME IInv, NEW s \in Live,
         NEW action \in 0..255, NEW moveDir \in 0..255,
         action # NoneMove => moveDir = action,
         NEW x \in Nat, NEW y \in Nat,
         Reposition(s, action, moveDir, x, y)
  PROVE  IInv'
<1>. DEFINE sync == OutOfSync(players[s], x, y)
            c == Repositioned(players[s], action, moveDir, x, y)
            new == [players EXCEPT ![s] = c]
<1>1. PlayersTyped /\ s \in Session
  BY DEF IInv, TypeOK, PlayersTyped
<1>2. CASE Crash("sector_range") \/ Crash("sendq_overflow")
  BY <1>2, CrashStep DEF Fault
<1>3. CASE ~Crash("sector_range") /\ ~Crash("sendq_overflow")
  <2>1. /\ c.sector \in Grid
        /\ ~Overflow(RepositionBytes(s, c, sync)) /\ Queue(RepositionBytes(s, c, sync))
        /\ players' = new
        /\ sector' = MovedSector(s, c.sector)
        /\ client' = [r \in Session |->
             IF r \in Others(s, c)
               THEN [SectorUpdateView(s, c)[r] EXCEPT ![s] = OnMove(@, c.action)]
               ELSE SectorUpdateView(s, c)[r]]
        /\ silent' = silent \ {s}
        /\ UNCHANGED <<sessions, phase, cur, todo, fault>>
    BY <1>3 DEF Reposition, Announce
  <2>2. /\ c \in Character
        /\ c.sector = GetSectorPos(c.x, c.y)
        /\ c.hp = players[s].hp
        /\ c.action = action /\ c.moveDir = moveDir
    <3>1. players[s] \in Character
      BY <1>1 DEF PlayersTyped
    <3>2. c.sector = GetSectorPos(c.x, c.y)
      BY <3>1 DEF Repositioned, Placed, CheckSectorUpdate, Character
    <3>. QED
      BY <2>1, <3>1, <3>2 DEF Repositioned, Placed, Character
  <2>. HIDE DEF c
  <2>3. /\ Live' = Live /\ players' \in [Live' -> Character] /\ Live \subseteq Session
        /\ new \in [Live -> Character] /\ DOMAIN new = Live
        /\ new[s] = c /\ \A i \in Live \ {s} : new[i] = players[i]
    BY <1>1, <2>1, <2>2 DEF PlayersTyped, Live
  <2>4. SessionOwnsPlayer'
    BY <2>1, <2>3 DEF SessionOwnsPlayer, IInv
  <2>5. MovedSector(s, c.sector) = ListsOf(new)
    BY <1>1, <2>1, <2>2, MovedSectorExact DEF IInv, SectorListsExact
  <2>6. SectorListsExact'
    <3>1. sector' = ListsOf(players)'
      BY <2>1, <2>5 DEF ListsOf
    <3>2. \A i \in Live : players'[i].sector = GetSectorPos(players'[i].x, players'[i].y)
      BY <2>1, <2>2, <2>3 DEF IInv, SectorListsExact
    <3>. QED
      BY <2>3, <3>1, <3>2 DEF SectorListsExact
  <2>7. \A r \in Session : r \in Others(s, c) <=> r \in Live \ {s} /\ Near(new, r, s)
    <3>. SUFFICES ASSUME NEW r \in Session
                  PROVE  r \in Others(s, c) <=> r \in Live \ {s} /\ Near(new, r, s)
      OBVIOUS
    <3>1. \A i \in DOMAIN new : new[i].sector \in Grid
      BY <2>3 DEF Character
    <3>2. r \in Audience(ListsOf(new), c.sector)
            <=> r \in Live /\ new[r].sector \in GetSectorAround(c.sector)
      BY <2>1, <2>3, <3>1, AudienceExact
    <3>. QED
      BY <2>1, <2>3, <2>5, <3>1, <3>2, AroundSymmetric, NearExact DEF Others
  <2>8. ViewExact'
    <3>. SUFFICES ASSUME NEW r \in Session, NEW k \in Session
                  PROVE  client'[r][k] = Truth(new, r, k)
      BY <2>1 DEF ViewExact
    <3>1. SectorUpdateView(s, c)[r][k] =
            IF k = s /\ r \in Live \ {s} /\ Near(players, r, s) /\ Near(new, r, s)
              THEN Look(players[s])
              ELSE Truth(new, r, k)
      BY <1>1, <2>2, SectorUpdateViewExact DEF IInv, SectorListsExact
    <3>2. client'[r][k] =
            IF r \in Others(s, c) /\ k = s
              THEN OnMove(SectorUpdateView(s, c)[r][k], action)
              ELSE SectorUpdateView(s, c)[r][k]
      BY <2>1, <2>2 DEF SectorUpdateView
    <3>3. Look(c) = [state |-> "known", hp |-> players[s].hp, act |-> action]
      BY <2>2 DEF Look
    <3>4. CASE r \in Others(s, c) /\ k = s
      <4>1. Truth(new, r, k) = Look(c)
        BY <2>3, <2>7, <3>4 DEF Truth
      <4>2. SectorUpdateView(s, c)[r][k] \in {Look(players[s]), Look(c)}
        BY <3>1, <4>1
      <4>3. OnMove(SectorUpdateView(s, c)[r][k], action) = Look(c)
        BY <3>3, <4>2 DEF OnMove, Look
      <4>. QED
        BY <3>2, <3>4, <4>1, <4>3
    <3>5. CASE ~(r \in Others(s, c) /\ k = s)
      BY <2>7, <3>1, <3>2, <3>5
    <3>. QED
      BY <3>4, <3>5
  <2>9. TypeOK'
    <3>1. sendQ' \in [Session -> 0..SendQSize - 1]
      <4>1. sync \in BOOLEAN
        BY DEF OutOfSync
      <4>. HIDE DEF sync
      <4>2. RepositionBytes(s, c, sync) \in Bytes
        BY <1>1, <2>2, <4>1, RepositionBytesNat
      <4>. QED
        BY <2>1, <4>2, QueueBounded DEF IInv, TypeOK
    <3>2. client' \in [Session -> [Session -> Belief]]
      <4>1. \A r, k \in Session : client'[r][k] \in Belief
        BY <2>3, <2>8, TruthTyped DEF ViewExact, Live
      <4>2. client' = [r \in Session |-> [k \in Session |-> client'[r][k]]]
        BY <2>1 DEF SectorUpdateView
      <4>. QED
        BY <4>1, <4>2
    <3>3. sector' \in [Grid -> SUBSET Session]
      BY <2>1, <2>3, <2>5 DEF ListsOf
    <3>. QED
      BY <2>1, <2>3, <3>1, <3>2, <3>3 DEF IInv, TypeOK
  <2>. QED
    BY <2>4, <2>6, <2>8, <2>9 DEF IInv
<1>. QED
  BY <1>2, <1>3

(* What Update's movement does to a record: the character stays on the     *)
(* grid, whatever its coordinates were, because its cached sector agrees   *)
(* with them.                                                              *)
LEMMA SteppedPlaced ==
  ASSUME NEW old \in Character, old.sector = GetSectorPos(old.x, old.y)
  PROVE  LET c == Placed(Stepped(old))
         IN /\ c \in Character
            /\ c.sector = GetSectorPos(c.x, c.y)
            /\ Look(c) = Look(old)
            /\ c.hp = old.hp
<1>. DEFINE moved == Stepped(old)
            c == Placed(moved)
<1>1. /\ moved.sector = old.sector /\ moved.hp = old.hp
      /\ moved.action = old.action /\ moved.moveDir = old.moveDir
      /\ moved.x \in Nat /\ moved.y \in Nat
      /\ moved = [x |-> moved.x, y |-> moved.y, hp |-> old.hp, action |-> old.action,
                  moveDir |-> old.moveDir, sector |-> old.sector]
      /\ \/ moved.x \in 0..RangeMoveRight /\ moved.y \in 0..RangeMoveBottom
         \/ moved = old
  <2>. DEFINE x == old.x + StepX(old.action)
              y == old.y + StepY(old.action)
  <2>1. CASE CheckCharacterMove(x, y)
    <3>1. x \in 0..RangeMoveRight /\ y \in 0..RangeMoveBottom
      BY <2>1 DEF CheckCharacterMove
    <3>2. moved = [old EXCEPT !.x = x, !.y = y]
      BY <2>1 DEF Stepped
    <3>. HIDE DEF x, y, moved, c
    <3>3. x \in Nat /\ y \in Nat
      BY <3>1, WorldAssumption
    <3>4. moved \in Character /\ moved.x = x /\ moved.y = y
      BY <3>2, <3>3 DEF Character
    <3>5. /\ moved.sector = old.sector /\ moved.hp = old.hp
          /\ moved.action = old.action /\ moved.moveDir = old.moveDir
      BY <3>2 DEF Character
    <3>6. moved = [x |-> moved.x, y |-> moved.y, hp |-> old.hp, action |-> old.action,
                  moveDir |-> old.moveDir, sector |-> old.sector]
      BY <3>4, <3>5 DEF Character
    <3>. QED
      BY <3>1, <3>3, <3>4, <3>5, <3>6
  <2>2. CASE ~CheckCharacterMove(x, y)
    <3>1. moved = old
      BY <2>2 DEF Stepped
    <3>. HIDE DEF moved
    <3>. QED
      BY <3>1 DEF Character
  <2>. QED
    BY <2>1, <2>2
<1>. HIDE DEF moved
<1>2. GetSectorPos(moved.x, moved.y) \in Grid
  BY <1>1, WorldInGrid DEF Character
<1>3. /\ c.sector = GetSectorPos(moved.x, moved.y)
      /\ c = [x |-> moved.x, y |-> moved.y, hp |-> old.hp, action |-> old.action,
              moveDir |-> old.moveDir, sector |-> c.sector]
  BY <1>1 DEF Placed, CheckSectorUpdate
<1>4. c \in Character
  BY <1>1, <1>2, <1>3 DEF Character
<1>5. Look(c) = Look(old)
  BY <1>3 DEF Look
<1>. QED
  BY <1>3, <1>4, <1>5 DEF moved

(* A frame's movement preserves the invariant, also when the mover's own   *)
(* SendQ overflows on the last creation message and it is disconnected in the*)
(* middle of SectorUpdate.                                                 *)
LEMMA UpdateMoveStep ==
  ASSUME IInv, NEW s \in Live, UpdateMove(s)
  PROVE  IInv'
<1>. DEFINE c == Placed(Stepped(players[s]))
            new == [players EXCEPT ![s] = c]
<1>1. PlayersTyped /\ s \in Session
  BY DEF IInv, TypeOK, PlayersTyped
<1>2. /\ c \in Character
      /\ c.sector = GetSectorPos(c.x, c.y)
      /\ Look(c) = Look(players[s])
      /\ c.hp = players[s].hp
      /\ Carry(s, c)
  BY <1>1, SteppedPlaced DEF PlayersTyped, IInv, SectorListsExact, UpdateMove
<1>. HIDE DEF c
<1>3. /\ new \in [Live -> Character] /\ DOMAIN new = Live
      /\ new[s] = c /\ \A i \in Live \ {s} : new[i] = players[i]
      /\ Live \subseteq Session
  BY <1>1, <1>2 DEF PlayersTyped, Live
<1>4. MovedSector(s, c.sector) = ListsOf(new)
  BY <1>1, <1>2, MovedSectorExact DEF IInv, SectorListsExact, Character
<1>5. \A r, k \in Session : SectorUpdateView(s, c)[r][k] = Truth(new, r, k)
  <2>. SUFFICES ASSUME NEW r \in Session, NEW k \in Session
                PROVE  SectorUpdateView(s, c)[r][k] = Truth(new, r, k)
    OBVIOUS
  <2>1. SectorUpdateView(s, c)[r][k] =
          IF k = s /\ r \in Live \ {s} /\ Near(players, r, s) /\ Near(new, r, s)
            THEN Look(players[s])
            ELSE Truth(new, r, k)
    BY <1>1, <1>2, SectorUpdateViewExact DEF IInv, SectorListsExact
  <2>. QED
    BY <1>2, <1>3, <2>1 DEF Truth
<1>6. SectorUpdateView(s, c) \in [Session -> [Session -> Belief]]
  <2>1. \A r, k \in Session : SectorUpdateView(s, c)[r][k] \in Belief
    <3>1. new \in [DOMAIN new -> Character]
      BY <1>3
    <3>. HIDE DEF new
    <3>. QED
      BY <1>5, <3>1, TruthTyped
  <2>2. SectorUpdateView(s, c)
          = [r \in Session |-> [k \in Session |-> SectorUpdateView(s, c)[r][k]]]
    BY DEF SectorUpdateView
  <2>. QED
    BY <2>1, <2>2
<1>7. CASE /\ ~Overflow(SectorUpdateBytes(s, c))
           /\ players' = new
           /\ sector' = MovedSector(s, c.sector)
           /\ Queue(SectorUpdateBytes(s, c))
           /\ client' = SectorUpdateView(s, c)
           /\ todo' = todo \ {s}
           /\ UNCHANGED <<sessions, silent, phase, cur, fault>>
  <2>1. Live' = Live
    BY <1>3, <1>7 DEF Live
  <2>2. SessionOwnsPlayer'
    BY <1>7, <2>1 DEF SessionOwnsPlayer, IInv
  <2>3. SectorListsExact'
    <3>1. sector' = ListsOf(players)'
      BY <1>4, <1>7 DEF ListsOf
    <3>2. \A i \in Live : players'[i].sector = GetSectorPos(players'[i].x, players'[i].y)
      BY <1>2, <1>3, <1>7 DEF IInv, SectorListsExact
    <3>. QED
      BY <2>1, <3>1, <3>2 DEF SectorListsExact
  <2>4. ViewExact'
    BY <1>5, <1>7 DEF ViewExact
  <2>5. TypeOK'
    <3>1. sendQ' \in [Session -> 0..SendQSize - 1]
      BY <1>1, <1>2, <1>7, SectorUpdateBytesNat, QueueBounded DEF IInv, TypeOK
    <3>2. sector' \in [Grid -> SUBSET Session]
      BY <1>3, <1>4, <1>7 DEF ListsOf
    <3>. QED
      BY <1>3, <1>6, <1>7, <2>1, <3>1, <3>2 DEF IInv, TypeOK
  <2>. QED
    BY <2>2, <2>3, <2>4, <2>5 DEF IInv
<1>8. ASSUME NEW last \in Gained(s, c.sector),
             OverflowsOnlyOn(s, c, last),
             Queue(HeardBeforeLeaving(s, c, last)),
             Erase(s, MovedSector(s, c.sector), c.sector, SectorUpdateView(s, c)),
             UNCHANGED <<phase, cur>>
      PROVE  IInv'
  <2>1. last \in Live
    BY <1>1, <1>2, LostExact DEF IInv, SectorListsExact, Character, Gained
  <2>2. HeardBeforeLeaving(s, c, last) \in Bytes
    BY <1>1, <1>2, <2>1, HeardBytesNat DEF PlayersTyped
  <2>3. sendQ' \in [Session -> 0..SendQSize - 1]
    BY <1>8, <2>2, QueueBounded DEF OverflowsOnlyOn, IInv, TypeOK
  <2>4. phase' \in {"net", "recv", "update"} /\ cur' \in Session \cup {NoSession}
    BY <1>8 DEF IInv, TypeOK
  <2>5. Erase(s, ListsOf(new), new[s].sector, SectorUpdateView(s, c))
    BY <1>3, <1>4, <1>8
  <2>. QED
    BY <1>3, <1>5, <1>6, <2>3, <2>4, <2>5, EraseStep
<1>9. CASE Crash("sendq_overflow")
  BY <1>9, CrashStep DEF Fault
<1>. QED
  BY <1>2, <1>7, <1>8, <1>9 DEF Carry

-----------------------------------------------------------------------------
(* Attacks.                                                                *)

(* An attack preserves the invariant: whoever sees a victim is told of its *)
(* hit points.                                                             *)
LEMMA AttackStep ==
  ASSUME IInv, NEW s \in Live, NEW t \in AttackType, NEW d \in PacketDir,
         NEW x \in Nat, NEW y \in Nat, Attack(s, t, d, x, y)
  PROVE  IInv'
<1>. DEFINE hit == Hit(s, FacesRight(d), t)
            sync == OutOfSync(players[s], x, y)
            HpOf(v) == HitByAttacker(players[v].hp, Damage[t])
<1>1. SendDamage(s, t, hit, sync)
  BY DEF Attack
<1>2. hit \in SUBSET Session /\ sync \in BOOLEAN
  BY DEF Hit, OutOfSync
<1>. HIDE DEF hit, sync
<1>3. CASE Crash("sendq_overflow")
  BY <1>3, CrashStep DEF Fault
<1>4. CASE ~Crash("sendq_overflow")
  <2>1. /\ ~Overflow(AttackBytes(s, sync, hit)) /\ Queue(AttackBytes(s, sync, hit))
        /\ players' = [i \in Live |->
             IF i \in hit THEN [players[i] EXCEPT !.hp = HpOf(i)] ELSE players[i]]
        /\ client' = [r \in Session |-> [k \in Session |->
             IF k \in hit /\ r \in ToldOfDamage(s, k)
               THEN OnDamage(client[r][k], HpOf(k)) ELSE client[r][k]]]
        /\ silent' = silent \ {s}
        /\ UNCHANGED <<sessions, sector, phase, cur, todo, fault>>
    BY <1>1, <1>4 DEF SendDamage
  <2>2. /\ Live' = Live /\ Live \subseteq Session
        /\ \A i \in Live : players[i] \in Character
    BY <2>1 DEF Live, IInv, TypeOK
  <2>3. \A i \in Live : HpOf(i) \in Int
    BY <2>2, CombatAssumption DEF HitByAttacker, Character
  <2>. HIDE DEF HpOf
  <2>4. ASSUME NEW i \in Live
        PROVE  /\ players'[i] \in Character
               /\ players'[i].sector = players[i].sector
               /\ players'[i].x = players[i].x /\ players'[i].y = players[i].y
               /\ Look(players'[i]) =
                    IF i \in hit THEN [Look(players[i]) EXCEPT !.hp = HpOf(i)] ELSE Look(players[i])
    <3>1. CASE i \in hit
      <4>1. players'[i] = [players[i] EXCEPT !.hp = HpOf(i)]
        BY <2>1, <3>1
      <4>. QED
        BY <2>2, <2>3, <3>1, <4>1 DEF Character, Look
    <3>2. CASE i \notin hit
      BY <2>1, <2>2, <3>2
    <3>. QED
      BY <3>1, <3>2
  <2>5. players' \in [Live' -> Character]
    BY <2>1, <2>2, <2>4
  <2>6. SessionOwnsPlayer'
    BY <2>1, <2>2 DEF SessionOwnsPlayer, IInv
  <2>7. SectorListsExact'
    <3>1. sector' = ListsOf(players)'
      <4>1. ListsOf(players') = ListsOf(players)
        BY <2>2, <2>4 DEF ListsOf, Live
      <4>2. ListsOf(players)' = ListsOf(players')
        BY DEF ListsOf
      <4>. QED
        BY <2>1, <4>1, <4>2 DEF IInv, SectorListsExact
    <3>. QED
      BY <2>2, <2>4, <3>1 DEF SectorListsExact, IInv
  <2>8. ViewExact'
    <3>. SUFFICES ASSUME NEW r \in Session, NEW k \in Session
                  PROVE  client'[r][k] = Truth(players', r, k)
      BY DEF ViewExact
    <3>1. client[r][k] = Truth(players, r, k)
      BY DEF IInv, ViewExact
    <3>2. r \in Live /\ k \in Live => (Near(players', r, k) <=> Near(players, r, k))
      BY <2>4 DEF Near
    <3>3. k \in Live => (r \in ToldOfDamage(s, k) <=> r \in Live /\ Near(players, r, k))
      <4>. SUFFICES ASSUME k \in Live
                    PROVE  r \in ToldOfDamage(s, k) <=> r \in Live /\ Near(players, r, k)
        OBVIOUS
      <4>1. \A i \in DOMAIN players : players[i].sector \in Grid
        BY <2>2 DEF Live, Character
      <4>2. r \in Audience(ListsOf(players), players[k].sector)
              <=> r \in Live /\ players[r].sector \in GetSectorAround(players[k].sector)
        BY <2>2, <4>1, AudienceExact DEF Live
      <4>3. ToldOfDamage(s, k) = Audience(ListsOf(players), players[k].sector)
        BY DEF ToldOfDamage, Around, IInv, SectorListsExact
      <4>4. r \in Live => (players[r].sector \in GetSectorAround(players[k].sector)
                            <=> players[k].sector \in GetSectorAround(players[r].sector))
        BY <4>1, AroundSymmetric DEF Live
      <4>. QED
        BY <4>1, <4>2, <4>3, <4>4, NearExact DEF Live
    <3>4. client'[r][k] = IF k \in hit /\ r \in ToldOfDamage(s, k)
                            THEN OnDamage(client[r][k], HpOf(k)) ELSE client[r][k]
      BY <2>1
    <3>5. hit \subseteq Live
      <4>1. ScannedSectors(players[s], FacesRight(d), t) \subseteq Grid
        BY DEF ScannedSectors
      <4>2. \A q \in Grid : sector[q] \subseteq Live
        BY DEF IInv, SectorListsExact, ListsOf, Live
      <4>. QED
        BY <4>1, <4>2 DEF hit, Hit
    <3>6. CASE r \in Live /\ k \in Live /\ Near(players, r, k)
      <4>1. /\ Truth(players, r, k) =
                 IF r = k THEN [Look(players[k]) EXCEPT !.act = NoneMove] ELSE Look(players[k])
            /\ Truth(players', r, k) =
                 IF r = k THEN [Look(players'[k]) EXCEPT !.act = NoneMove] ELSE Look(players'[k])
        BY <2>2, <3>2, <3>6 DEF Truth, Live
      <4>2. r \in ToldOfDamage(s, k)
        BY <3>3, <3>6
      <4>3. CASE k \in hit
        <5>1. client'[r][k] = [client[r][k] EXCEPT !.hp = HpOf(k)]
          BY <3>1, <3>4, <3>6, <4>1, <4>2, <4>3 DEF OnDamage, Look
        <5>2. Look(players'[k]) = [Look(players[k]) EXCEPT !.hp = HpOf(k)]
          BY <2>4, <3>6, <4>3
        <5>. QED
          BY <3>1, <4>1, <5>1, <5>2 DEF Look
      <4>4. CASE k \notin hit
        <5>1. Look(players'[k]) = Look(players[k])
          BY <2>4, <3>6, <4>4
        <5>. QED
          BY <3>1, <3>4, <4>1, <4>4, <5>1
      <4>. QED
        BY <4>3, <4>4
    <3>7. CASE ~(r \in Live /\ k \in Live /\ Near(players, r, k))
      BY <2>2, <3>1, <3>2, <3>3, <3>4, <3>5, <3>7 DEF Truth, Live
    <3>. QED
      BY <3>6, <3>7
  <2>9. TypeOK'
    <3>1. sendQ' \in [Session -> 0..SendQSize - 1]
      BY <1>2, <2>1, AttackBytesNat, QueueBounded DEF IInv, TypeOK
    <3>2. client' \in [Session -> [Session -> Belief]]
      <4>1. \A r, k \in Session : client'[r][k] \in Belief
        BY <2>5, <2>8, TruthTyped DEF ViewExact, Live
      <4>. QED
        BY <2>1, <4>1
    <3>. QED
      BY <2>1, <2>2, <2>5, <3>1, <3>2 DEF IInv, TypeOK
  <2>. QED
    BY <2>6, <2>7, <2>8, <2>9 DEF IInv
<1>. QED
  BY <1>3, <1>4

-----------------------------------------------------------------------------
(* Every step keeps the invariant.                                         *)

(* An echo preserves the invariant.                                        *)
LEMMA EchoStep ==
  ASSUME IInv, NEW s \in Live, Echo(s)
  PROVE  IInv'
<1>1. s \in Session /\ phase \in {"net", "recv", "update"} /\ cur \in Session \cup {NoSession}
  BY DEF IInv, TypeOK
<1>2. CASE Disconnect(s, phase, cur)
  BY <1>1, <1>2, DisconnectStep
<1>3. CASE ~Disconnect(s, phase, cur)
  <2>1. EchoBytes(s) \in Bytes
    BY WireAssumption DEF EchoBytes, Bytes, If
  <2>2. /\ ~Overflow(EchoBytes(s)) /\ Queue(EchoBytes(s))
        /\ silent' = silent \ {s}
        /\ UNCHANGED <<sessions, players, sector, client, phase, cur, todo, fault>>
    BY <1>3 DEF Echo
  <2>3. sendQ' \in [Session -> 0..SendQSize - 1]
    BY <2>1, <2>2, QueueBounded DEF IInv, TypeOK
  <2>4. TypeOK'
    BY <2>2, <2>3 DEF IInv, TypeOK, Live
  <2>. QED
    BY <2>2, <2>4, QuietStep
<1>. QED
  BY <1>2, <1>3

(* Every packet of RecvPacket's loop preserves the invariant.              *)
LEMMA PacketStep ==
  ASSUME IInv, NEW s \in Session, Packet(s)
  PROVE  IInv'
<1>1. /\ phase \in {"net", "recv", "update"} /\ cur \in Session \cup {NoSession}
      /\ s \notin Live => sessions[s] # "open"
      /\ Live \subseteq Session /\ \A i \in Live : players[i] \in Character
  BY DEF IInv, TypeOK, SessionOwnsPlayer
<1>2. CASE RecvEnd(s)
  <2>1. TypeOK'
    BY <1>2 DEF RecvEnd, Handling, IInv, TypeOK, Live
  <2>. QED
    BY <1>2, <2>1, QuietStep DEF RecvEnd
<1>3. CASE BadPacketCode(s)
  BY <1>1, <1>3, DisconnectStep DEF BadPacketCode
<1>4. CASE UnknownType(s)
  BY <1>1, <1>4, DisconnectStep DEF UnknownType
<1>5. CASE ShortPacket(s) \/ PlayerGone(s)
  BY <1>5, CrashStep DEF ShortPacket, PlayerGone, Fault
<1>6. CASE Echo(s)
  BY <1>6, EchoStep DEF Echo
<1>7. ASSUME NEW x \in PacketX, NEW y \in PacketY, MoveStop(s, x, y)
      PROVE  IInv'
  <2>1. s \in Live /\ Reposition(s, NoneMove, players[s].moveDir, x, y)
    BY <1>7 DEF MoveStop
  <2>2. NoneMove \in 0..255 /\ players[s].moveDir \in 0..255 /\ x \in Nat /\ y \in Nat
    BY <1>1, <2>1, PacketAssumption DEF NoneMove, Character
  <2>. QED
    BY <2>1, <2>2, RepositionStep
<1>8. ASSUME NEW x \in PacketX, NEW y \in PacketY, NEW d \in PacketDir, MoveStart(s, d, x, y)
      PROVE  IInv'
  BY <1>8, RepositionStep, PacketAssumption DEF MoveStart, Reposition
<1>9. ASSUME NEW x \in PacketX, NEW y \in PacketY, NEW d \in PacketDir, NEW t \in AttackType,
             Attack(s, t, d, x, y)
      PROVE  IInv'
  BY <1>9, AttackStep, PacketAssumption DEF Attack
<1>. QED
  BY <1>2, <1>3, <1>4, <1>5, <1>6, <1>7, <1>8, <1>9 DEF Packet

(* So does everything else NetworkManage does.                             *)
LEMMA NetworkStep ==
  ASSUME IInv, NEW s \in Session, Network(s)
  PROVE  IInv'
<1>1. /\ phase \in {"net", "recv", "update"} /\ cur \in Session \cup {NoSession}
      /\ s \notin Live => sessions[s] # "open"
  BY DEF IInv, TypeOK, SessionOwnsPlayer
<1>2. ASSUME NEW x \in 0..RangeMoveRight - 1, NEW y \in 0..RangeMoveBottom - 1, Accept(s, x, y)
      PROVE  IInv'
  BY <1>2, AcceptStep
<1>3. CASE RecvClosed(s)
  BY <1>1, <1>3, DisconnectStep DEF RecvClosed
<1>4. CASE SendFailed(s)
  BY <1>1, <1>4, DisconnectStep DEF SendFailed
<1>5. CASE RecvBegin(s)
  <2>1. TypeOK'
    BY <1>5 DEF RecvBegin, IInv, TypeOK, Live
  <2>. QED
    BY <1>5, <2>1, QuietStep DEF RecvBegin
<1>6. CASE Reap(s)
  <2>1. TypeOK'
    BY <1>6, WireAssumption DEF Reap, IInv, TypeOK, Live
  <2>. QED
    BY <1>6, <2>1, QuietStep DEF Reap, IInv, TypeOK
<1>7. ASSUME NEW n \in 1..SendQSize - 1, SendPacket(s, n)
      PROVE  IInv'
  <2>1. sendQ' \in [Session -> 0..SendQSize - 1]
    BY <1>7, WireAssumption DEF SendPacket, IInv, TypeOK
  <2>2. TypeOK'
    BY <1>7, <2>1 DEF SendPacket, IInv, TypeOK, Live
  <2>. QED
    BY <1>7, <2>2, QuietStep DEF SendPacket
<1>. QED
  BY <1>2, <1>3, <1>4, <1>5, <1>6, <1>7 DEF Network

(* So does every step of Update's loop.                                    *)
LEMMA UpdateStep ==
  ASSUME IInv, NEW s \in Session, Update(s)
  PROVE  IInv'
<1>1. /\ phase \in {"net", "recv", "update"} /\ cur \in Session \cup {NoSession}
      /\ s \in Live
  BY DEF IInv, TypeOK, Update, UpdateRemove, UpdateIdle, UpdateMove, Updating
<1>2. CASE UpdateRemove(s)
  BY <1>1, <1>2, DisconnectStep DEF UpdateRemove
<1>3. CASE UpdateIdle(s)
  <2>1. TypeOK'
    BY <1>3 DEF UpdateIdle, IInv, TypeOK, Live
  <2>. QED
    BY <1>3, <2>1, QuietStep DEF UpdateIdle
<1>4. CASE UpdateMove(s)
  BY <1>1, <1>4, UpdateMoveStep
<1>. QED
  BY <1>2, <1>3, <1>4 DEF Update

(* The invariant is inductive.                                             *)
LEMMA NextInv == IInv /\ [Next]_vars => IInv'
<1>. SUFFICES ASSUME IInv, [Next]_vars PROVE IInv'
  OBVIOUS
<1>1. CASE UpdateBegin
  <2>1. TypeOK'
    BY <1>1 DEF UpdateBegin, IInv, TypeOK, Live
  <2>. QED
    BY <1>1, <2>1, QuietStep DEF UpdateBegin
<1>2. CASE UpdateEnd
  <2>1. TypeOK'
    BY <1>2 DEF UpdateEnd, IInv, TypeOK, Live
  <2>. QED
    BY <1>2, <2>1, QuietStep DEF UpdateEnd
<1>3. ASSUME NEW s \in Session, Network(s) PROVE IInv'
  BY <1>3, NetworkStep
<1>4. ASSUME NEW s \in Session, Packet(s) PROVE IInv'
  BY <1>4, PacketStep
<1>5. ASSUME NEW s \in Session, Update(s) PROVE IInv'
  BY <1>5, UpdateStep
<1>6. ASSUME NEW s \in Session, FallSilent(s) PROVE IInv'
  <2>1. TypeOK'
    BY <1>6 DEF FallSilent, IInv, TypeOK, Live
  <2>. QED
    BY <1>6, <2>1, QuietStep DEF FallSilent
<1>7. CASE UNCHANGED vars
  <2>1. TypeOK'
    BY <1>7 DEF vars, IInv, TypeOK, Live
  <2>. QED
    BY <1>7, <2>1, QuietStep DEF vars
<1>. QED
  BY <1>1, <1>2, <1>3, <1>4, <1>5, <1>6, <1>7 DEF Next

-----------------------------------------------------------------------------
(* The theorems.                                                           *)

(* The conjunction that is inductive: each of its parts is needed to keep  *)
(* another one.                                                            *)
THEOREM Invariance == Spec => []IInv
BY InitInv, NextInv, PTL DEF Spec

(* Every variable keeps its type and every SendQ stays within its ring,    *)
(* whatever the messages' lengths.                                         *)
THEOREM TypeCorrect == Spec => []TypeOK
<1>1. IInv => TypeOK
  BY DEF IInv
<1>. QED
  BY Invariance, <1>1, PTL

(* The session map and the player map agree between steps.                 *)
THEOREM SessionsOwnPlayers == Spec => []SessionOwnsPlayer
<1>1. IInv => SessionOwnsPlayer
  BY DEF IInv
<1>. QED
  BY Invariance, <1>1, PTL

(* The sector lists are an exact index of the player map, for any world,   *)
(* any sector size and any number of clients.                              *)
THEOREM ListsExact == Spec => []SectorListsExact
<1>1. IInv => SectorListsExact
  BY DEF IInv
<1>. QED
  BY Invariance, <1>1, PTL

(* The area of interest: every client's view is exact, for any world, any  *)
(* sector size, any number of clients and any lengths of messages.         *)
THEOREM ViewsExact == Spec => []ViewExact
<1>1. IInv => ViewExact
  BY DEF IInv
<1>. QED
  BY Invariance, <1>1, PTL

-----------------------------------------------------------------------------
(* SendDamage's scan.                                                      *)

(* The sector index grows with the coordinate.                             *)
LEMMA DivMonotone ==
  ASSUME NEW a \in Int, NEW b \in Int, a <= b
  PROVE  /\ a \div SectorRange \in Int /\ b \div SectorRange \in Int
         /\ a \div SectorRange <= b \div SectorRange
BY WorldAssumption, SMTT(30)

(* A character in the attack box stands in a sector that SendDamage scans. *)
LEMMA BoxScanned ==
  ASSUME PlayersTyped, SectorListsExact, NEW s \in Live, NEW v \in Live, NEW t \in AttackType,
         NEW right \in BOOLEAN, InAttackBox(players[s], players[v], right, t)
  PROVE  players[v].sector \in ScannedSectors(players[s], right, t)
<1>. DEFINE c == players[s]
            w == players[v]
<1>1. /\ c.x \in Nat /\ c.y \in Nat /\ w.x \in Nat /\ w.y \in Nat
      /\ RangeX[t] \in Nat /\ RangeY[t] \in Nat
      /\ w.sector \in Grid
      /\ w.sector.x = w.x \div SectorRange /\ w.sector.y = w.y \div SectorRange
  <2>1. c \in Character /\ w \in Character
    BY DEF PlayersTyped
  <2>2. w.sector = GetSectorPos(w.x, w.y)
    BY DEF SectorListsExact
  <2>3. RangeX[t] \in Nat /\ RangeY[t] \in Nat
    BY CombatAssumption
  <2>. HIDE DEF c, w
  <2>4. w.sector.x = w.x \div SectorRange /\ w.sector.y = w.y \div SectorRange
    BY <2>2 DEF GetSectorPos
  <2>. QED
    BY <2>1, <2>3, <2>4 DEF Character
<1>2. /\ SectorMaxX \in Nat /\ SectorMaxY \in Nat
      /\ w.sector.x \in 0..SectorMaxX - 1 /\ w.sector.y \in 0..SectorMaxY - 1
  <2>1. SectorMaxX \in Nat /\ SectorMaxY \in Nat
    BY DivBound, WorldAssumption DEF SectorMaxX, SectorMaxY
  <2>. QED
    BY <1>1, <2>1 DEF Grid
<1>3. /\ c.y - RangeY[t] \in Int /\ c.y + RangeY[t] \in Int
      /\ c.y - RangeY[t] <= w.y /\ w.y <= c.y + RangeY[t]
  BY <1>1 DEF InAttackBox
<1>4. /\ (c.y - RangeY[t]) \div SectorRange \in Int
      /\ (c.y + RangeY[t]) \div SectorRange \in Int
      /\ (c.y - RangeY[t]) \div SectorRange <= w.sector.y
      /\ w.sector.y <= (c.y + RangeY[t]) \div SectorRange
  BY <1>1, <1>3, DivMonotone
<1>5. CASE right
  <2>1. c.x + RangeX[t] \in Int /\ c.x <= w.x /\ w.x <= c.x + RangeX[t]
    BY <1>1, <1>5 DEF InAttackBox
  <2>2. /\ c.x \div SectorRange \in Int
        /\ (c.x + RangeX[t]) \div SectorRange \in Int
        /\ c.x \div SectorRange <= w.sector.x
        /\ w.sector.x <= (c.x + RangeX[t]) \div SectorRange
    BY <1>1, <2>1, DivMonotone
  <2>. QED
    BY <1>1, <1>2, <1>4, <1>5, <2>2 DEF ScannedSectors, Lower, Upper
<1>6. CASE ~right
  <2>1. c.x - RangeX[t] \in Int /\ c.x - RangeX[t] <= w.x /\ w.x <= c.x
    BY <1>1, <1>6 DEF InAttackBox
  <2>2. /\ c.x \div SectorRange \in Int
        /\ (c.x - RangeX[t]) \div SectorRange \in Int
        /\ (c.x - RangeX[t]) \div SectorRange <= w.sector.x
        /\ w.sector.x <= c.x \div SectorRange
    BY <1>1, <2>1, DivMonotone
  <2>. QED
    BY <1>1, <1>2, <1>4, <1>6, <2>2 DEF ScannedSectors, Lower, Upper
<1>. QED
  BY <1>5, <1>6

(* SendDamage misses nobody in its box, for any reach and any sector size. *)
THEOREM ScansComplete == Spec => []ScanComplete
<1>1. IInv => ScanComplete
  <2>. SUFFICES ASSUME IInv, NEW s \in Live, NEW t \in AttackType, NEW right \in BOOLEAN
                PROVE  Hit(s, right, t)
                         = {v \in Live \ {s} : InAttackBox(players[s], players[v], right, t)}
    BY DEF ScanComplete
  <2>1. PlayersTyped /\ SectorListsExact
    BY DEF IInv, TypeOK, PlayersTyped
  <2>2. \A q \in Grid, v \in Session : v \in sector[q] <=> v \in Live /\ players[v].sector = q
    BY <2>1 DEF SectorListsExact, ListsOf, Live
  <2>3. ScannedSectors(players[s], right, t) \subseteq Grid
    BY DEF ScannedSectors
  <2>4. Hit(s, right, t) \subseteq
          {v \in Live \ {s} : InAttackBox(players[s], players[v], right, t)}
    BY <2>2, <2>3 DEF Hit
  <2>5. ASSUME NEW v \in Live \ {s}, InAttackBox(players[s], players[v], right, t)
        PROVE  v \in Hit(s, right, t)
    <3>1. players[v].sector \in ScannedSectors(players[s], right, t)
      BY <2>1, <2>5, BoxScanned
    <3>2. v \in Session
      BY <2>1 DEF PlayersTyped
    <3>. QED
      BY <2>2, <2>3, <2>5, <3>1, <3>2 DEF Hit
  <2>. QED
    BY <2>4, <2>5
<1>. QED
  BY Invariance, <1>1, PTL

-----------------------------------------------------------------------------
(* What a step may never do.                                               *)

(* Only Accept opens a session, and it takes an id never used before.      *)
LEMMA ClosedStaysClosed ==
  ASSUME [Next]_vars, NEW s \in Session, sessions \in [Session -> {"unused", "open", "isDelete", "erased"}],
         sessions[s] \in {"isDelete", "erased"}
  PROVE  sessions'[s] \in {"isDelete", "erased"}
<1>1. ASSUME NEW i \in Session, NEW nextPhase, NEW nextCur, Disconnect(i, nextPhase, nextCur)
      PROVE  sessions'[s] \in {"isDelete", "erased"}
  BY <1>1 DEF Disconnect, Erase, Crash
<1>2. ASSUME NEW i \in Session, Network(i)
      PROVE  sessions'[s] \in {"isDelete", "erased"}
  <2>1. ASSUME NEW x, NEW y, Accept(i, x, y)
        PROVE  sessions'[s] \in {"isDelete", "erased"}
    BY <2>1 DEF Accept, FreshId, OnCharacterConnect, Crash
  <2>. QED
    BY <1>1, <1>2, <2>1 DEF Network, RecvClosed, RecvBegin, SendFailed, Reap, SendPacket
<1>3. ASSUME NEW i \in Session, Packet(i)
      PROVE  sessions'[s] \in {"isDelete", "erased"}
  <2>1. ASSUME NEW action, NEW moveDir, NEW x, NEW y, Reposition(i, action, moveDir, x, y)
        PROVE  sessions' = sessions
    BY <2>1 DEF Reposition, Announce, Crash
  <2>2. ASSUME NEW t, NEW d, NEW x, NEW y, Attack(i, t, d, x, y)
        PROVE  sessions' = sessions
    BY <2>2 DEF Attack, SendDamage, Crash
  <2>3. Echo(i) => sessions'[s] \in {"isDelete", "erased"}
    BY <1>1 DEF Echo
  <2>. QED
    BY <1>1, <1>3, <2>1, <2>2, <2>3
    DEF Packet, RecvEnd, BadPacketCode, UnknownType, ShortPacket, PlayerGone, Crash, MoveStart, MoveStop
<1>4. ASSUME NEW i \in Session, Update(i)
      PROVE  sessions'[s] \in {"isDelete", "erased"}
  BY <1>1, <1>4 DEF Update, UpdateRemove, UpdateIdle, UpdateMove, Carry, Erase, Crash
<1>. QED
  BY <1>2, <1>3, <1>4 DEF Next, UpdateBegin, UpdateEnd, FallSilent, vars

(* No broadcast counts bytes for a session without a character.            *)
LEMMA BytesForLive ==
  ASSUME PlayersTyped, sector = ListsOf(players), NEW s \in Live, NEW c, c.sector \in Grid,
         NEW sync \in BOOLEAN, NEW hit \in SUBSET Live, NEW r \in Session \ Live
  PROVE  /\ Goodbye(s)[r] = 0
         /\ SectorUpdateBytes(s, c)[r] = 0
         /\ RepositionBytes(s, c, sync)[r] = 0
         /\ AttackBytes(s, sync, hit)[r] = 0
         /\ \A last : HeardBeforeLeaving(s, c, last)[r] = 0
<1>1. ASSUME NEW p \in Grid PROVE r \notin Audience(sector, p)
  BY <1>1, AudienceExact DEF PlayersTyped, Character, Live
<1>2. c.sector \in Grid /\ \A i \in Live : players[i].sector \in Grid
  BY DEF PlayersTyped, Character
<1>3. \A i \in Live : r \notin Around(i)
  BY <1>1, <1>2 DEF Around
<1>4. r # s
  OBVIOUS
<1>5. Goodbye(s)[r] = 0
  BY <1>3 DEF Goodbye, If
<1>6. r \notin Lost(s, c.sector) /\ r \notin Gained(s, c.sector)
  BY <1>2, LostExact
<1>7. SectorUpdateBytes(s, c)[r] = 0
  <2>1. SectorUpdateBytes(s, c)[r]
          = If(r \in Lost(s, c.sector), LenDelete) + If(r \in Gained(s, c.sector), CreateLen(c))
    BY <1>4 DEF SectorUpdateBytes
  <2>. QED
    BY <1>6, <2>1 DEF If
<1>8. r \notin Others(s, c)
  <2>. DEFINE new == [players EXCEPT ![s] = c]
  <2>1. MovedSector(s, c.sector) = ListsOf(new)
    BY MovedSectorExact
  <2>2. DOMAIN new = Live /\ \A i \in DOMAIN new : new[i].sector \in Grid
    BY <1>2 DEF Live
  <2>3. r \notin Audience(ListsOf(new), c.sector)
    BY <1>2, <2>2, AudienceExact DEF PlayersTyped
  <2>. QED
    BY <2>1, <2>3 DEF Others
<1>9. RepositionBytes(s, c, sync)[r] = 0
  BY <1>3, <1>7, <1>8 DEF RepositionBytes, SyncBytes, If
<1>10. AttackBytes(s, sync, hit)[r] = 0
  <2>1. {v \in hit : r \in ToldOfDamage(s, v)} = {}
    BY <1>3 DEF ToldOfDamage
  <2>2. LenDamage * Cardinality({v \in hit : r \in ToldOfDamage(s, v)}) = 0
    BY <2>1, FS_EmptySet, WireAssumption
  <2>. QED
    BY <1>3, <2>2 DEF AttackBytes, SyncBytes, If
<1>11. \A last : HeardBeforeLeaving(s, c, last)[r] = 0
  BY <1>1, <1>2, <1>4, <1>7 DEF HeardBeforeLeaving, If
<1>. QED
  BY <1>5, <1>7, <1>9, <1>10, <1>11

(* Nothing is queued for a session that has no character on either side of *)
(* the step.                                                               *)
LEMMA QueuedOnlyForLive ==
  ASSUME IInv, [Next]_vars, NEW r \in Session, sendQ'[r] > sendQ[r]
  PROVE  r \in Live \/ r \in Live'
<1>. SUFFICES ASSUME r \notin Live PROVE r \in Live'
  OBVIOUS
<1>1. /\ PlayersTyped /\ sector = ListsOf(players) /\ Live \subseteq Session
      /\ \A i \in Session : sendQ[i] \in Nat
      /\ \A i \in Live : players[i] \in Character
  BY WireAssumption DEF IInv, TypeOK, PlayersTyped, SectorListsExact
<1>2. ASSUME NEW bytes, Queue(bytes), bytes[r] = 0 PROVE FALSE
  BY <1>1, <1>2 DEF Queue
<1>3. ASSUME UNCHANGED sendQ PROVE FALSE
  BY <1>1, <1>3
<1>4. ASSUME NEW i \in Session, NEW nextPhase, NEW nextCur, Disconnect(i, nextPhase, nextCur)
      PROVE  FALSE
  <2>1. ASSUME i \in Live PROVE Goodbye(i)[r] = 0
    <3>1. players[i].sector \in Grid /\ {} \in SUBSET Live
      BY <1>1, <2>1 DEF Character
    <3>. QED
      BY <1>1, <2>1, <3>1, BytesForLive
  <2>. QED
    BY <1>2, <1>3, <1>4, <2>1 DEF Disconnect, Crash
<1>5. ASSUME NEW i \in Session, Network(i)
      PROVE  r \in Live'
  <2>1. ASSUME NEW x \in 0..RangeMoveRight - 1, NEW y \in 0..RangeMoveBottom - 1, Accept(i, x, y)
        PROVE  r \in Live'
    <3>. DEFINE c == NewCharacter(x, y)
    <3>1. CASE Crash("sendq_overflow")
      BY <1>3, <3>1 DEF Crash
    <3>2. CASE ~Crash("sendq_overflow")
      <4>1. /\ Queue(AcceptBytes(i, c))
            /\ Live' = Live \cup {i}
        BY <2>1, <3>2 DEF Accept, OnCharacterConnect, Live
      <4>2. c.sector \in Grid
        BY WorldInGrid, WorldAssumption DEF NewCharacter
      <4>3. r # i => AcceptBytes(i, c)[r] = 0
        <5>1. r \notin Audience(sector, c.sector)
          BY <1>1, <4>2, AudienceExact DEF Character, Live
        <5>. HIDE DEF c
        <5>. QED
          BY <5>1 DEF AcceptBytes, If
      <4>. HIDE DEF c
      <4>. QED
        BY <1>2, <4>1, <4>3
    <3>. QED
      BY <3>1, <3>2
  <2>2. ASSUME NEW n \in 1..SendQSize - 1, SendPacket(i, n)
        PROVE  FALSE
    BY <1>1, <2>2, WireAssumption DEF SendPacket, IInv, TypeOK
  <2>3. CASE Reap(i)
    BY <1>1, <2>3 DEF Reap, IInv, TypeOK
  <2>. QED
    BY <1>3, <1>4, <1>5, <2>1, <2>2, <2>3 DEF Network, RecvClosed, RecvBegin, SendFailed
<1>6. ASSUME NEW i \in Session, Packet(i)
      PROVE  FALSE
  <2>1. ASSUME NEW action, NEW moveDir, NEW x, NEW y, Reposition(i, action, moveDir, x, y)
        PROVE  FALSE
    <3>. DEFINE c == Repositioned(players[i], action, moveDir, x, y)
                sync == OutOfSync(players[i], x, y)
    <3>1. CASE UNCHANGED sendQ
      BY <1>3, <3>1
    <3>2. CASE ~UNCHANGED sendQ
      <4>1. c.sector \in Grid /\ Queue(RepositionBytes(i, c, sync)) /\ i \in Live
        BY <2>1, <3>2 DEF Reposition, Announce, Crash
      <4>2. sync \in BOOLEAN
        BY DEF OutOfSync
      <4>. HIDE DEF c, sync
      <4>3. RepositionBytes(i, c, sync)[r] = 0
        BY <1>1, <4>1, <4>2, BytesForLive
      <4>. QED
        BY <1>2, <4>1, <4>3
    <3>. QED
      BY <3>1, <3>2
  <2>2. ASSUME NEW t, NEW d, NEW x, NEW y, Attack(i, t, d, x, y)
        PROVE  FALSE
    <3>. DEFINE hit == Hit(i, FacesRight(d), t)
                sync == OutOfSync(players[i], x, y)
    <3>1. CASE UNCHANGED sendQ
      BY <1>3, <3>1
    <3>2. CASE ~UNCHANGED sendQ
      <4>1. Queue(AttackBytes(i, sync, hit)) /\ i \in Live
        BY <2>2, <3>2 DEF Attack, SendDamage, Crash
      <4>2. sync \in BOOLEAN
        BY DEF OutOfSync
      <4>3. hit \in SUBSET Live
        <5>1. ScannedSectors(players[i], FacesRight(d), t) \subseteq Grid
          BY DEF ScannedSectors
        <5>2. \A q \in Grid : sector[q] \subseteq Live
          BY <1>1 DEF ListsOf, Live
        <5>. QED
          BY <5>1, <5>2 DEF Hit
      <4>. HIDE DEF hit, sync
      <4>4. players[i].sector \in Grid
        BY <1>1, <4>1 DEF Character
      <4>5. AttackBytes(i, sync, hit)[r] = 0
        BY <1>1, <4>1, <4>2, <4>3, <4>4, BytesForLive
      <4>. QED
        BY <1>2, <4>1, <4>5
    <3>. QED
      BY <3>1, <3>2
  <2>3. CASE Echo(i)
    <3>1. i \in Live /\ EchoBytes(i)[r] = 0
      BY <2>3 DEF Echo, EchoBytes, If
    <3>. QED
      BY <1>2, <1>4, <2>3, <3>1 DEF Echo
  <2>. QED
    BY <1>3, <1>4, <1>6, <2>1, <2>2, <2>3
    DEF Packet, RecvEnd, BadPacketCode, UnknownType, ShortPacket, PlayerGone, Crash, MoveStart, MoveStop
<1>7. ASSUME NEW i \in Session, Update(i)
      PROVE  FALSE
  <2>1. CASE UpdateMove(i)
    <3>. DEFINE c == Placed(Stepped(players[i]))
    <3>1. i \in Live /\ Carry(i, c)
      BY <2>1 DEF UpdateMove, Updating, IInv, TypeOK
    <3>2. c.sector \in Grid
      BY <1>1, <3>1, SteppedPlaced DEF Character, IInv, SectorListsExact
    <3>. HIDE DEF c
    <3>3. /\ SectorUpdateBytes(i, c)[r] = 0
          /\ \A last : HeardBeforeLeaving(i, c, last)[r] = 0
      BY <1>1, <3>1, <3>2, BytesForLive
    <3>. QED
      BY <1>2, <1>3, <3>1, <3>3 DEF Carry, Crash
  <2>. QED
    BY <1>3, <1>4, <1>7, <2>1 DEF Update, UpdateRemove, UpdateIdle
<1>. QED
  BY <1>3, <1>5, <1>6, <1>7 DEF Next, UpdateBegin, UpdateEnd, FallSilent, vars

(* A session disconnected before the step is queued nothing by it: bytes   *)
(* are counted for characters only, and the session's is already gone.     *)
THEOREM ClosedStayQuiet == Spec => QuietOnceClosed
<1>1. IInv /\ IInv' /\ [Next]_vars =>
        [\A r \in Session : sessions[r] \in {"isDelete", "erased"} => sendQ'[r] <= sendQ[r]]_vars
  <2>. SUFFICES ASSUME IInv, IInv', [Next]_vars, NEW r \in Session,
                       sessions[r] \in {"isDelete", "erased"}
                PROVE  sendQ'[r] <= sendQ[r]
    OBVIOUS
  <2>1. sendQ[r] \in Int /\ sendQ'[r] \in Int
    BY DEF IInv, TypeOK
  <2>2. sessions'[r] \in {"isDelete", "erased"}
    BY ClosedStaysClosed DEF IInv, TypeOK
  <2>3. r \notin Live /\ r \notin Live'
    BY <2>2 DEF IInv, SessionOwnsPlayer, Live
  <2>4. ~(sendQ'[r] > sendQ[r])
    BY <2>3, QueuedOnlyForLive
  <2>. QED
    BY <2>1, <2>4
<1>. QED
  BY Invariance, <1>1, PTL DEF Spec, QuietOnceClosed

-----------------------------------------------------------------------------
(* Update visits everybody.                                                *)

(* Halfway through Update's loop, the characters already passed are alive  *)
(* and were heard from.                                                    *)
Passed == phase = "update" => \A s \in Live \ todo : players[s].hp > 0 /\ s \notin silent

(* Every step keeps what Update's loop has established so far.             *)
LEMMA NextPassed == IInv /\ Passed /\ [Next]_vars => Passed'
<1>. SUFFICES ASSUME IInv, Passed, [Next]_vars PROVE Passed'
  OBVIOUS
<1>. USE DEF Passed
<1>1. CASE UpdateBegin
  BY <1>1 DEF UpdateBegin, Live
<1>2. ASSUME phase' # "update" PROVE Passed'
  BY <1>2
<1>3. ASSUME NEW s \in Session, NEW nextCur, Disconnect(s, phase, nextCur)
      PROVE  Passed'
  BY <1>3 DEF Disconnect, Erase, Without, LeftToVisit, Crash, Live
<1>4. ASSUME UNCHANGED <<players, silent, todo, phase>> PROVE Passed'
  BY <1>4 DEF Live
<1>5. ASSUME NEW s \in Session, Network(s) PROVE Passed'
  <2>1. phase = "net" \/ UNCHANGED <<players, silent, todo, phase>>
    BY <1>5 DEF Network, Accept, RecvClosed, RecvBegin, SendFailed, Reap, SendPacket
  <2>2. CASE phase = "net"
    <3>1. phase' # "update"
      BY <1>5, <2>2 DEF Network, Accept, OnCharacterConnect, RecvClosed, RecvBegin, SendFailed, Reap,
                        SendPacket, Disconnect, Crash
    <3>. QED
      BY <1>2, <3>1
  <2>. QED
    BY <1>4, <2>1, <2>2
<1>6. ASSUME NEW s \in Session, Packet(s) PROVE Passed'
  <2>1. phase = "recv"
    BY <1>6 DEF Packet, RecvEnd, BadPacketCode, UnknownType, ShortPacket, PlayerGone, Echo,
                MoveStart, MoveStop, Attack, Reposition, Handling
  <2>2. ASSUME NEW nextPhase \in {"net", "recv"}, NEW nextCur, Disconnect(s, nextPhase, nextCur)
        PROVE  phase' # "update"
    BY <2>1, <2>2 DEF Disconnect, Crash
  <2>3. phase' # "update"
    BY <1>6, <2>1, <2>2 DEF Packet, RecvEnd, BadPacketCode, UnknownType, ShortPacket, PlayerGone, Echo,
                     MoveStart, MoveStop, Attack, SendDamage, Reposition, Announce, Crash
  <2>. QED
    BY <1>2, <2>3
<1>7. ASSUME NEW s \in Session, Update(s) PROVE Passed'
  <2>1. CASE UpdateRemove(s)
    BY <1>3, <2>1 DEF UpdateRemove
  <2>2. CASE UpdateIdle(s)
    BY <2>2 DEF UpdateIdle, Live
  <2>3. CASE UpdateMove(s)
    <3>. DEFINE c == Placed(Stepped(players[s]))
    <3>1. s \in Live /\ Carry(s, c) /\ players[s].hp > 0 /\ s \notin silent
      BY <2>3 DEF UpdateMove, Updating, IInv, TypeOK
    <3>2. c.hp = players[s].hp
      BY <3>1, SteppedPlaced DEF IInv, TypeOK, SectorListsExact
    <3>. HIDE DEF c
    <3>3. CASE /\ players' = [players EXCEPT ![s] = c]
               /\ todo' = todo \ {s} /\ UNCHANGED <<silent, phase>>
      BY <3>1, <3>2, <3>3 DEF Live
    <3>4. ASSUME NEW lists, NEW at, NEW seen, Erase(s, lists, at, seen), UNCHANGED phase
          PROVE  Passed'
      BY <3>4 DEF Erase, Without, LeftToVisit, Live
    <3>. QED
      BY <1>4, <3>1, <3>3, <3>4 DEF Carry, Crash
  <2>. QED
    BY <1>7, <2>1, <2>2, <2>3 DEF Update
<1>8. CASE UpdateEnd
  BY <1>2, <1>8 DEF UpdateEnd
<1>9. ASSUME NEW s \in Session, FallSilent(s) PROVE Passed'
  BY <1>2, <1>9 DEF FallSilent
<1>10. CASE UNCHANGED vars
  BY <1>4, <1>10 DEF vars
<1>. QED
  BY <1>1, <1>5, <1>6, <1>7, <1>8, <1>9, <1>10 DEF Next

(* The loop of Update ends only after every dead or silent character is    *)
(* gone, although Disconnect erases from the map it is walking.            *)
THEOREM UpdatesReap == Spec => UpdateReaps
<1>1. Init => Passed
  BY DEF Init, Passed
<1>2. IInv /\ Passed /\ [Next]_vars =>
        [phase = "update" /\ phase' = "net"
           => \A s \in Live : players[s].hp > 0 /\ s \notin silent]_vars
  <2>. SUFFICES ASSUME IInv, Passed, [Next]_vars, phase = "update", phase' = "net"
                PROVE  \A s \in Live : players[s].hp > 0 /\ s \notin silent
    OBVIOUS
  <2>1. todo = {}
    <3>1. ASSUME NEW s \in Session, Packet(s) PROVE FALSE
      BY <3>1 DEF Packet, RecvEnd, BadPacketCode, UnknownType, ShortPacket, PlayerGone, Echo,
                  MoveStart, MoveStop, Attack, Reposition, Handling
    <3>2. ASSUME NEW s \in Session, Network(s) PROVE FALSE
      BY <3>2 DEF Network, Accept, RecvClosed, RecvBegin, SendFailed, Reap, SendPacket
    <3>3. ASSUME NEW s \in Session, Update(s) PROVE FALSE
      BY <3>3 DEF Update, UpdateRemove, UpdateIdle, UpdateMove, Carry, Disconnect, Crash
    <3>. QED
      BY <3>1, <3>2, <3>3 DEF Next, UpdateBegin, UpdateEnd, FallSilent, vars
  <2>. QED
    BY <2>1 DEF Passed
<1>. QED
  BY Invariance, NextPassed, <1>1, <1>2, PTL DEF Spec, UpdateReaps
====
