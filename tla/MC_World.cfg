SPECIFICATION Spec
CONSTANTS
  s1 = s1
  s2 = s2
  Session = {s1, s2}
  NoSession = NoSession
  RangeMoveRight = 4
  RangeMoveBottom = 4
  SectorRange = 2
  ErrorRange = 1
  SpeedX = 2
  SpeedY = 2
  PlayerHp = 1
  HpModulus = 4
  AttackType = {1}
  Damage <- MCDamage
  RangeX <- MCRangeX
  RangeY <- MCRangeY
  SendQSize = 1
  LenCreate = 0
  LenDelete = 0
  LenMove = 0
  LenSync = 0
  LenAttack = 0
  LenDamage = 0
  LenEcho = 0
  PacketDir = {1, 5}
  PacketX = {5}
  PacketY = {3}
SYMMETRY Symmetry
INVARIANTS SectorListsExact ViewExact ScanComplete
PROPERTIES UpdateReaps
CHECK_DEADLOCK FALSE
