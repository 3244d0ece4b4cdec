\* Three timers and one connection; the timeout is longer than the least delay.
SPECIFICATION IdleFairSpec
CONSTANTS
  Timer = {t1, t2, t3}
  Wait = {1, 2}
  MinDelay = 1
  Step = {0, 1}
  Connection = {c1}
  NoConnection = NoConnection
  Timeout = 2
INVARIANTS
  WakesInTime
  OpenIsWatched
PROPERTIES
  TimersRun
  RepeatContinues
  IdleClosed
