SPECIFICATION FairSpec
CONSTANTS
  CircularBufferSize = 9
  BlockAlign = 3
  LongRange = 40
  StoreSizes <- MCStoreSizes
  MaxLag = 18
  MaxStored = 36
  HeaderSize = 1
  BuffSize = 8
INVARIANTS TypeOK PacketInOrder BacklogIsExact PacketIsStoredSound PacketHoldsWholeFrames 
PROPERTIES ImplementsStream 
CHECK_DEADLOCK FALSE
