\* Two loops, two workers, two connections; a queue with room for one loop.
SPECIFICATION FairSpec
CONSTANTS
  Loop = {l1, l2}
  Worker = {w1, w2}
  Main = Main
  Connection = {c1, c2}
  NoLoop = NoLoop
  max_request_num = 1
  MAX_STREAM_LEN = 4096
  kMaxNumericSize = 64
  Second = {1, 2}
  Message <- MCMessage
INVARIANTS
  OnePlace
  NoRequestStranded
  NeverTerminates
  LineIsSound
  IntegersRight
PROPERTIES
  ConnectionServed
CHECK_DEADLOCK FALSE
