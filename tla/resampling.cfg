SPECIFICATION ResamplingSpec
CONSTANTS
  FLOAT_PRECISSION = 4
  UIntRange = 20
  Sizes = {1, 2, 3, 4}
INVARIANTS SourceInRange PictureIsScaled
CHECK_DEADLOCK FALSE
