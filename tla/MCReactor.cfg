\* Two connections that have to share the one descriptor, one after the other.
SPECIFICATION FairSpec
CONSTANTS
  Conn = {c1, c2}
  NoConn = NoConn
  Fd = {0}
  NumLoops = 1
  Main = Main
INVARIANTS
  DestroyInv
  HandledIsAlive
  DescriptorNotConfused
  ClosedOnce
  NoDestructorWhileAsleep
  TouchedOnlyIfStale
  InterestFollowsEvents
PROPERTIES
  LifecycleSpec
  ClosedPeerReclaimed
CHECK_DEADLOCK FALSE
