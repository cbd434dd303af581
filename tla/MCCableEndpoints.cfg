SPECIFICATION FairSpec
CONSTANTS
  Rates = {1, 2}
  Mono = Mono
  Stereo = Stereo
  Channels = {Mono, Stereo}
  Bad = Bad
  Settings <- SomeSettings
  Default <- StereoDefault
  None = None
INVARIANTS IInv NoStaleStream
PROPERTIES Follows CloseEnds
CHECK_DEADLOCK FALSE
