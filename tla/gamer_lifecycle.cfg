SPECIFICATION FairSpec
CONSTANTS
  MaxStarts = 2
  AntiDeadlock = 1
INVARIANTS WorkerAlone
PROPERTIES ShutdownReturns StopRequestIsHeeded
CHECK_DEADLOCK FALSE
