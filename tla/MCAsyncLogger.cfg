\* Lines of one and two bytes around a limit of three.
SPECIFICATION FairSpec
CONSTANTS
  Line = {1, 2}
  MaxLines = 5
  maxBufferBytes_ = 3
INVARIANTS
  LinesIntact
  NeverSleepsWithWork
  ShutdownWritesAll
PROPERTIES
  EveryLineWritten
  ShutdownEnds
CHECK_DEADLOCK FALSE
