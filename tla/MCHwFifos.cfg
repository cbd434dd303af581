SPECIFICATION FairSpec
CONSTANTS
  Block = 1
  Rate = 100
  HwBuffer = 0
  MinPeriod = 1
  MixPeriod = 2
  MaxLate = 12
  MaxMissed = 1
  Chunks <- MCChunks
  MaxChunk = 2
  LowTicks = 2
INVARIANT IInv
PROPERTY InputSettles
