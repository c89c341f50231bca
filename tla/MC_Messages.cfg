SPECIFICATION Spec
CONSTANTS
  c1 = c1
  c2 = c2
  me = me
  Junk = Junk
  Mine = me
  Other = {c1, c2}
  PayloadLen = {3, 5, 32, 33}
  MaxCalls = 2
SYMMETRY MCSymmetry
INVARIANTS WellFramed FieldsRead RoomForAll
CHECK_DEADLOCK FALSE
