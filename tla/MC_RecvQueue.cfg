SPECIFICATION Spec
CONSTANTS
  Size = 6
  Byte = {0, 1, 2}
  PacketCode = 2
  Chunk <- MCChunk
  PayloadSize <- MCPayloadSize
  BlockSize = 1
  MaxWire = 7
PROPERTIES ImplementsPacketStream
CHECK_DEADLOCK FALSE
