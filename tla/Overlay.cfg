SPECIFICATION FairSpec
CONSTANTS
  Gens = {1, 2, 3}
  NoGen = 0
  Contents = {"a", "b"}
  MaxEvents = 3
INVARIANTS
  PointerBacked
PROPERTIES
  OverlayCatchesUp
CHECK_DEADLOCK FALSE
