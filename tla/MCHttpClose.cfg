\* A request in two parts behind a response that is still being sent.
SPECIFICATION Spec
CONSTANTS
  MaxChunks = 3
  QueueSize = 1
  CatSize = 2
  MayReset = FALSE
PROPERTIES
  CloseIsCarriedOut
CHECK_DEADLOCK FALSE
