SPECIFICATION FairSpec
CONSTANTS
  Session <- MCSession
  BatchSize = 2
  FdSetSize = 3
INVARIANTS TypeOK IteratorsValid AstrayOnlyInBatches SetsFit NoneSkipped OnlyOpenServed
PROPERTIES Reaped Heard
CHECK_DEADLOCK FALSE
