SPECIFICATION FairSpec
CONSTANTS
  Ids = {1, 2}
  First = 1
  Kickoffs = {1, 2}
  Results = {"1-0", "0-1"}
  MaxTime = 3
  Budgets <- MCBudgets
  Competition = "world_cup"
  Grace = 1
INVARIANTS
  NothingSplits
PROPERTIES
  NoPickAfterKickoff
  SealsSettle
CHECK_DEADLOCK FALSE
