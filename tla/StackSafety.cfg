SPECIFICATION Spec
CONSTANTS
  Poppers = {p1, p2}
  Pushers = {w1, w2}
  MaxClients = 2
  Nodes = {n1, n2, n3}
  NullNode = NullNode
  MaxPops = 5
SYMMETRY Symmetry
INVARIANTS IndexExclusive ListRep RefusedWhenFull SafeBelowCapacity
CHECK_DEADLOCK FALSE
