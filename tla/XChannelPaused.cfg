SPECIFICATION Spec
CONSTANTS
  Frames = {"len", "raw"}
  PacketSize = 2
  Oversized = {2}
  MaxPacket = 2
  InMax = 1
  OutMax = 1
  SndBuf = 1
  EarlyFile = FALSE
  MaxIn = 3
  MaxOut = 2
PROPERTY PausedKeepsWriting
CHECK_DEADLOCK FALSE
