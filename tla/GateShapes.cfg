SPECIFICATION Spec
CONSTANT Groups <- MCGroups
INVARIANTS Connected BarrierExact
CHECK_DEADLOCK FALSE
