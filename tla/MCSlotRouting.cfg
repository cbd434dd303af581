SPECIFICATION Spec
CONSTANTS
  a = a
  b = b
  NoId = NoId
  NDevices = 2
  Endpoints = {a, b}
  OutRows = {1, 2}
  InRows = {1, 2}
  Sources <- MCSources
  FirstTables <- MCFirstTables
  HwMax = 2
  DeviceChannels <- MCDeviceChannels
  MixChannels <- MCMixChannels
  Entries <- MCEntries
  NCables = 2
  DriverCables = 1
  CableChannels <- MCCableChannels
  RingBlocks = 1
  MaxTicks = 2
  MaxSaves = 1
INVARIANTS IInv OpenedAsAsked Accounted
PROPERTY OwnAudio
CHECK_DEADLOCK FALSE
