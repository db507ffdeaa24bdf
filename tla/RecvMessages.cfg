SPECIFICATION FairSpec
CONSTANTS
  ByteSize = 4
  ByteXor <- XorOfBits
  MsgCode = 3
  MsgKey = 1
  Messages = {m1, m2, m3}
  NoMsg = NoMsg
  RingSize = 11
  Contents <- SmallContents
  RandKeys = {0, 2}
  MaxPackets = 2
  MaxRecvs = 4
INVARIANTS QueueExact NothingLeftBehind HeardAsSent MessageBooks
PROPERTY ArrivedIsHeard
CHECK_DEADLOCK FALSE
