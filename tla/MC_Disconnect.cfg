SPECIFICATION FairSpec
CONSTANTS
  a = a
  b = b
  c = c
  NoNode = NoNode
  Session = {a, b, c}
  Sectors = 2
  LenDelete = 1
  MsgLen = {2}
  MaxRoom = 4
  MaxDepth = 5
INVARIANTS TypeOK SummaryExact StackOnlyBySelf
PROPERTY Returns
CHECK_DEADLOCK FALSE
