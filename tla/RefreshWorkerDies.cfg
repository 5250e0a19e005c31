SPECIFICATION FairSpec
CONSTANTS
  Gens = {g1}
  NoGen = NoGen
  Clients = {c1}
  Worker = Worker
  Nobody = Nobody
  Ops = {"start"}
  Modes = {"check", "refresh"}
  Fragile = {}
  ReceiptsMayFail = FALSE
  FollowsMayFail = TRUE
  Overlap = FALSE
  MaxJobs = 1
  MaxChanges = 0
  MaxCrashes = 0
  MaxFaults = 0
PROPERTIES
  FollowFaultIsReported
CHECK_DEADLOCK FALSE
