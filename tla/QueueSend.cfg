SPECIFICATION Spec
CONSTANTS
  Producers = {p1}
  Consumer = c
  Nodes = {n1, n2, n3, n4, n5}
  NullNode = NullNode
  MaxEnqueues = 5
  MaxHelps = 6
SYMMETRY Symmetry
INVARIANTS TypeOK QueueRep SizeCovered NodesAccounted
PROPERTY ImplementsFifo
CHECK_DEADLOCK FALSE
