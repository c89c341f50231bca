SPECIFICATION Spec
CONSTANTS
  s1 = s1
  s2 = s2
  s3 = s3
  Session = {s1, s2, s3}
  NoSession = NoSession
  RangeMoveRight = 3
  RangeMoveBottom = 1
  SectorRange = 1
  ErrorRange = 1
  SpeedX = 1
  SpeedY = 1
  PlayerHp = 1
  HpModulus = 4
  AttackType = {}
  Damage <- MCDamage
  RangeX <- MCRangeX
  RangeY <- MCRangeY
  SendQSize = 1
  LenCreate = 0
  LenDelete = 0
  LenMove = 0
  LenSync = 0
  LenAttack = 0
  LenDamage = 0
  LenEcho = 0
  PacketDir = {0, 4}
  PacketX = {0, 1, 2, 3, 4}
  PacketY = {0}
SYMMETRY Symmetry
INVARIANTS TypeOK ViewExact
CHECK_DEADLOCK FALSE
