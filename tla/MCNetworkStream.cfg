SPECIFICATION FairSpec
CONSTANTS
  Kinds = {"rxVorbis", "txPcm", "txVorbis"}
  FeedFrames = 2
  Modulus = 8
  FirstSeqs = {3, 7}
  Resync = 3
  PacketFrames = 2
  TickFrames = 1
  Capacity = 5
  Targets = {1}
  MaxPackets = 4
INVARIANTS RebuiltAlone RestartIsShort
PROPERTIES InOrder TableApplied
CHECK_DEADLOCK FALSE
