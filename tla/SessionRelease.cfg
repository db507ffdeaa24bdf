SPECIFICATION FairSpec
CONSTANTS
  Slots = {s1}
  Acceptor = acceptor
  Content = content
  Workers = {w1, w2}
  SendMax = 2
  MaxAccepts = 1
  MaxMsgs = 1
  MaxRecvs = 1
  MaxDisconnects = 1
PROPERTIES ReleasedUnlessLost MessagesReturn
CHECK_DEADLOCK FALSE
