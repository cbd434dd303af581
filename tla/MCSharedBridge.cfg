SPECIFICATION Spec
CONSTANTS
  Places = {p1}
  Channels = {c1}
  Ring = 3
  AsioBuffers = {64}
  BridgeBuffers = {64, 192}
  MaxBlocks = 5
  MasterMayCrash = FALSE
INVARIANTS NoTornMix InputExact NoLostWakeup
PROPERTY MixExact
CHECK_DEADLOCK FALSE
