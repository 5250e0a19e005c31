SPECIFICATION FairSpec
CONSTANTS
  Gens = {1, 2}
  NoGen = 0
  Contents = {"a", "b"}
  MaxEvents = 2
PROPERTIES
  OverlayCancelReturns
CHECK_DEADLOCK FALSE
