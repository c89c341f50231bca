SPECIFICATION FairSpec
CONSTANTS
  s1 = s1
  s2 = s2
  Session = {s1, s2}
  NoSession = NoSession
  RangeMoveRight = 2
  RangeMoveBottom = 1
  SectorRange = 1
  ErrorRange = 1
  SpeedX = 1
  SpeedY = 1
  PlayerHp = 1
  HpModulus = 4
  AttackType = {1}
  Damage <- MCDamage
  RangeX <- MCRangeX
  RangeY <- MCRangeY
  SendQSize = 1
  LenCreate = 0
  LenDelete = 0
  LenMove = 0
  LenSync = 0
  LenAttack = 0
  LenDamage = 0
  LenEcho = 0
  PacketDir = {0}
  PacketX = {0}
  PacketY = {0}
PROPERTIES DeadRemoved
CHECK_DEADLOCK FALSE
