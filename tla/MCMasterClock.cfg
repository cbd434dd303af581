SPECIFICATION FairSpec
CONSTANT MaxTicks = 4
INVARIANTS IInv InStep
PROPERTIES HwKeepsStep TickRouted StopReturns
CHECK_DEADLOCK FALSE
