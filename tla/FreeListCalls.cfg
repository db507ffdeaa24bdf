SPECIFICATION FairSpec
CONSTANTS
  Threads = {t1, t2}
  Nodes = {n1, n2, n3}
  NullNode = NullNode
  MaxAllocs = 6
INVARIANTS ListRep PoppersCovered Inductive
PROPERTIES ImplementsPool CallsReturn
CHECK_DEADLOCK FALSE
