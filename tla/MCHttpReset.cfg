\* The peer resets the connection while a response is still being sent.
SPECIFICATION Spec
CONSTANTS
  MaxChunks = 1
  QueueSize = 1
  CatSize = 2
  MayReset = TRUE
INVARIANTS
  PeerCannotKill
CHECK_DEADLOCK FALSE
