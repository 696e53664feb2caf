SPECIFICATION Spec
CONSTANTS
  Addr <- MCAddr
  Null = 0
  TimerUser <- MCTimerUser
  WatchUser <- MCWatchUser
  Alloc <- MCAlloc
  Minute = 2
  MaxPause = 1
  Accel = {k1, k2}
  Uuid = {"c1"}
  Plain = {"pause"}
  MaxHotkey = 2
  First = 1
  Every = 1
  Backoff = 1
  MaxNews = 3
SYMMETRY Symmetric
INVARIANTS TypeOK LoopSound TimedPauseEnds NoGhostHotkeys BindsMatch
PROPERTIES RestartExtends
