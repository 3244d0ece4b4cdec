SPECIFICATION Spec
CONSTANTS
  Conn = {c1, c2}
  NoConn = NoConn
  Fd = {0}
  NumLoops = 1
  Main = Main
INVARIANTS
  NoUseAfterFree
CHECK_DEADLOCK FALSE
