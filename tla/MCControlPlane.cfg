SPECIFICATION FairPlaneSpec
CONSTANTS
  Rates = {44, 48}
  Rows = {1, 2}
  FirstTable <- MCFirstTable
  Saved <- MCSaved
  MaxSaves = 2
  MaxRateSets = 1
INVARIANTS Owed PendingTold
PROPERTY Follows
CHECK_DEADLOCK FALSE
