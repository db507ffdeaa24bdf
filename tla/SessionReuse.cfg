SPECIFICATION Spec
CONSTANTS
  Slots = {s1}
  Acceptor = acceptor
  Content = content
  Workers = {w1, w2}
  SendMax = 2
  MaxAccepts = 2
  MaxMsgs = 1
  MaxRecvs = 1
  MaxDisconnects = 1
SYMMETRY Symmetry
INVARIANTS NoMisdelivery SlotOwnership Accounting ReuseUnlessLate ReleasedQuiet SocketsClosed
CHECK_DEADLOCK FALSE
