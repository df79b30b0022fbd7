SPECIFICATION FairSpec
CONSTANTS
  MaxStarts = 1
  AntiDeadlock = 2
PROPERTIES StopRequestStands
CHECK_DEADLOCK FALSE
