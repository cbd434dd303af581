SPECIFICATION Spec
CONSTANTS
  Kinds = {"rxPcm"}
  FeedFrames = 2
  Modulus = 8
  FirstSeqs = {3, 7}
  Resync = 3
  PacketFrames = 3
  TickFrames = 2
  Capacity = 8
  Targets = {1}
  MaxPackets = 4
PROPERTY WholeTicks
CHECK_DEADLOCK FALSE
