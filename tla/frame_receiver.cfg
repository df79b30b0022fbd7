SPECIFICATION FairSpec
CONSTANTS
  BufferSize = 6
  FrameLens = {3, 4, 5}
  GarbageSizes <- MCGarbageSizes
  SplitHeaders = FALSE
  Addresses = 2
  MaxFrames = 4
  MaxConnections = 3
INVARIANTS FramesIntact TornPictureOnlyAtEnd AssertHolds
PROPERTIES NoFrameSkipped SentIsReceived
CHECK_DEADLOCK FALSE
