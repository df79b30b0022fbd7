SPECIFICATION Spec
CONSTANTS
  CircularBufferSize = 12
  BlockAlign = 2
  LongRange = 52
  StoreSizes <- MCStoreSizes
  MaxLag = 14
  MaxStored = 28
  bufferFrameCount = 2
  Formats <- MCFormats
INVARIANTS PlayedInOrder MixedFromItsPlace NeverReadsAhead
 
CHECK_DEADLOCK FALSE
