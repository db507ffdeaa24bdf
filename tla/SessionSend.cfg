SPECIFICATION FairSpec
CONSTANTS
  Slots = {s1}
  Acceptor = acceptor
  Content = content
  Workers = {w1, w2}
  SendMax = 2
  MaxAccepts = 1
  MaxMsgs = 3
  MaxRecvs = 0
  MaxDisconnects = 0
INVARIANTS SendExclusive MessagesOnce
PROPERTIES StrandedByClear MessagesReturn
CHECK_DEADLOCK FALSE
