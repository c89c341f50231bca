SPECIFICATION Spec
CONSTANTS
  c1 = c1
  c2 = c2
  Client = {c1, c2}
  Modulus = 32
  Boot = 14
  FrameMs = 3
  ReportMs = 7
  RecvTimeout = 4
  MaxPass = 3
  Horizon = 20
  MaxFrames = 8
SYMMETRY MCSymmetry
INVARIANTS TypeOK NeverAhead NoFrameLost SilenceBounded
PROPERTY NeverKickedEarly
CHECK_DEADLOCK FALSE
