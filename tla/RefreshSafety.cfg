SPECIFICATION MCSpec
CONSTANTS
  Gens = {g1, g2, g3}
  NoGen = NoGen
  Clients = {c1}
  Worker = Worker
  Nobody = Nobody
  Ops = {"start", "cancel", "rollback"}
  Modes = {"check", "refresh"}
  Fragile = {g1}
  ReceiptsMayFail = TRUE
  FollowsMayFail = FALSE
  Overlap = FALSE
  MaxJobs = 3
  MaxChanges = 3
  MaxCrashes = 1
  MaxFaults = 0
  Bundle = bundle
  None = none
  Generations = {bundle, i1, i2}
  Superseded = {i2}
  Readers = {r1, r2}
  Keys = {k1}
  MaxAttempts = 2
  MaxEntries = 1
  DiskMax = 1
  MaxMoves = 2
SYMMETRY Symmetry
INVARIANTS
  HonestReports
  IndexFollowsPointer
PROPERTIES
  ImplementsStore
  ReadIsHonest
CHECK_DEADLOCK FALSE
