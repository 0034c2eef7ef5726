SPECIFICATION FairSpec
CONSTANTS
  Frames = {"len", "raw"}
  PacketSize = 2
  Oversized = {2}
  MaxPacket = 3
  InMax = 1
  OutMax = 1
  SndBuf = 1
  EarlyFile = FALSE
  MaxIn = 3
  MaxOut = 3
INVARIANTS TypeOK StreamInOrder NoStall
PROPERTIES QuietAfterClose FlushThenClose
CHECK_DEADLOCK FALSE
