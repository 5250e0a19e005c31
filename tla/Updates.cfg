SPECIFICATION FairSpec
CONSTANTS
  NStores = 2
  Purgeable = {2}
  NoBackup = NoBackup
  MaxUpdates = 2
  MaxWrites = 2
  MaxCrashes = 1
  MaxFaults = 1
INVARIANTS
  UpdateIsSafe
PROPERTIES
  NoStaleRestore
  RepairIsComplete
  UpdateSettles
CHECK_DEADLOCK FALSE
