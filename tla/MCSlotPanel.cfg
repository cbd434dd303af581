SPECIFICATION Spec
CONSTANTS
  kMax = 4
  HwDevices = 2
  HwChannels = 1
  NetStreams = 1
  PcmChannels = 2
  VorbisChannels = 3
  VirtualSlotCables = 2
  FirstCables = 1
  CableChannels = 3
  CableFormats <- MCFormats
  FirstFormat <- Stereo
  Things = {"hw", "bridge1"}
  Frames <- MCFrames
  FirstBuffer <- MCBuffer
  BridgeChannels = 1
  Bridges = {"bridge1"}
  Endpoints <- MCEndpoints
  Clocks = {"48000/128", "96000/128"}
  FirstClock = "48000/128"
  FirstTable <- MCFirstTable
  None = None
  OldFiles <- MCOldFiles
  MaxWork = 3
INVARIANTS IInv DevicesApart ReloadsSaved
PROPERTIES RowsKept DevicesKept
CHECK_DEADLOCK FALSE
