SPECIFICATION FairSpec
CONSTANTS
  n1 = n1
  n2 = n2
  Nodes = {n1, n2}
  Size <- FiveAndOne
  Ops <- ReduceBarrierReduce
  Gates = {g1, g2}
  PerGroup = 2
INVARIANTS TypeOK
PROPERTIES Collective EveryoneLeaves
CHECK_DEADLOCK FALSE
