\* Three chunks; a send queue of one unit, so that a response of two is cut.
SPECIFICATION FairSpec
CONSTANTS
  MaxChunks = 3
  QueueSize = 1
  CatSize = 2
  MayReset = TRUE
INVARIANTS
  AnswersIntact
  NoLostEdge
  AnsweredOnlyIfAsked
PROPERTIES
  ClosesAfterSending
  OutputDrains
CHECK_DEADLOCK FALSE
