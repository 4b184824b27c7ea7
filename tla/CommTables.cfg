SPECIFICATION Spec
CONSTANTS
  World <- FourRanks
  Me = 0
  WORLD = WORLD
  Comms = {c1}
  EMPTY = EMPTY
  Groups = {g1, g2, g3}
  None = None
  NEnts = 4
  RankLists <- SomeLists
  MinBarrier = 4
INVARIANTS EntriesOwned GroupsTrue EntriesLive
SYMMETRY Handles
CHECK_DEADLOCK FALSE
