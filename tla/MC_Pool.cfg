SPECIFICATION Spec
CONSTANTS
  p1 = p1
  p2 = p2
  p3 = p3
  p4 = p4
  p5 = p5
  p6 = p6
  NullPtr = NullPtr
  Node = {p1, p2, p3, p4, p5, p6}
  ExpandSize = 2
SYMMETRY MCSymmetry
INVARIANTS TypeOK FreeListExact CountersExact NoOvergrowth
PROPERTY ImplementsAllocator
CHECK_DEADLOCK FALSE
