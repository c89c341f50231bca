SPECIFICATION FairSpec
CONSTANTS
  s1 = s1
  s2 = s2
  Session = {s1, s2}
  NoSession = NoSession
  RangeMoveRight = 2
  RangeMoveBottom = 1
  SectorRange = 1
  ErrorRange = 1
  SpeedX = 1
  SpeedY = 1
  PlayerHp = 1
  HpModulus = 4
  AttackType = {1}
  Damage <- MCDamage
  RangeX <- MCRangeX
  RangeY <- MCRangeY
  SendQSize = 6
  LenCreate = 2
  LenDelete = 1
  LenMove = 1
  LenSync = 1
  LenAttack = 1
  LenDamage = 1
  LenEcho = 1
  PacketDir = {4}
  PacketX = {0}
  PacketY = {0}
INVARIANTS SessionOwnsPlayer ViewExact
PROPERTIES QuietOnceClosed SilentRemoved
CHECK_DEADLOCK FALSE
