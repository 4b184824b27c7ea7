SPECIFICATION Spec
CONSTANTS
  n1 = n1
  n2 = n2
  Nodes = {n1}
  Size <- TwoAlone
  Ops <- TwoBarriers
  Gates = {g1}
  PerGroup = 1
INVARIANTS WorkerWaits
