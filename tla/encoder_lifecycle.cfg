SPECIFICATION FairSpec
CONSTANTS
  MaxConnections = 2
  AntiDeadlockTimer = 2
  AntiDeadLock = 1
INVARIANTS
  OnlyUserStops
  OnePlayer
  
PROPERTIES
  LostConnectionEndsReader
  ExitCompletes
CHECK_DEADLOCK FALSE
