SPECIFICATION Spec
CONSTANTS
  Size = 4
  Byte = {0, 1}
  MaxLen = 4
  Message <- MCMessage
PROPERTIES ImplementsByteQueue
CHECK_DEADLOCK FALSE
