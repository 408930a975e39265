SPECIFICATION FairSpec
CONSTANTS
  Radix = 2
  FRAME_MAGIC <- MCMagic
  MAX_FRAME_LEN = 2
  Frames <- MCFrames
  Junk <- MCJunk
  SocketBuffer = 3
  MaxFrames = 3
  MaxFaults = 1
INVARIANTS
  TypeOK
  ErrorsTrue
PROPERTIES
  FrameChannelSpec
  FramesArrive
