SPECIFICATION FairSpec
CONSTANTS
  Places = {p1}
  Channels = {c1}
  Ring = 3
  AsioBuffers = {64}
  BridgeBuffers = {64}
  MaxBlocks = 3
  MasterMayCrash = TRUE
INVARIANT IInv
PROPERTIES CatchesUp StopEnds
CHECK_DEADLOCK FALSE
