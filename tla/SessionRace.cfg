SPECIFICATION Spec
CONSTANTS
  Slots = {s1}
  Acceptor = acceptor
  Content = content
  Workers = {w1}
  SendMax = 2
  MaxAccepts = 2
  MaxMsgs = 1
  MaxRecvs = 0
  MaxDisconnects = 0
INVARIANT CallbacksInOrder
CHECK_DEADLOCK FALSE
