SPECIFICATION FairSpec
CONSTANTS
  Gens = {g1, g2}
  NoGen = NoGen
  Clients = {c1, c2}
  Worker = Worker
  Nobody = Nobody
  Ops = {"start", "cancel", "rollback"}
  Modes = {"refresh"}
  Fragile = {g1}
  ReceiptsMayFail = FALSE
  FollowsMayFail = TRUE
  Overlap = TRUE
  MaxJobs = 2
  MaxChanges = 3
  MaxCrashes = 1
  MaxFaults = 2
INVARIANTS
  TypeOK
  RollbackBoundary
  HonestOutcome
PROPERTIES
  NothingHangs
CHECK_DEADLOCK FALSE
