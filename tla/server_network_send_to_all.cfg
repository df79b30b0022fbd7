SPECIFICATION Spec
CONSTANTS
  Clients = {c1, c2, c3}
  MaxPackets = 3
INVARIANTS SentToAll
CHECK_DEADLOCK FALSE
