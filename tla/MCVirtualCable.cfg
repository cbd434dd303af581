SPECIFICATION FairCableSpec
CONSTANTS
  Frames = 16
  TrimAfter = 4
  Blocks = {1, 3}
  DefaultBlock = 2
  Most = 6
  Buffer = 3
  MaxLate = 2
  MaxTimer = 4
INVARIANT CableInv
PROPERTIES Settles BacklogEnds
CHECK_DEADLOCK FALSE
