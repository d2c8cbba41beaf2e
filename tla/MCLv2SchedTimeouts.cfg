CONSTANTS
  t1 = t1
  t2 = t2
  t3 = t3
  Threads = {t1, t2, t3}
  None = None
  Host = Host
  ppu_threads = 2
  Prios = {0}
  MaxAwake = 1
  TimedSleeps = {TRUE}
SYMMETRY Symmetry
SPECIFICATION Spec
INVARIANTS
  TypeOK
  PendingCount
  HwThreadBound
  WorkConserving
  QueuedOnce
  SleepFindsNoStaleFlag
  TimeoutRegistry
CHECK_DEADLOCK FALSE
