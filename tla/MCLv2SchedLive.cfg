CONSTANTS
  t1 = t1
  t2 = t2
  t3 = t3
  Threads = {t1, t2}
  None = None
  Host = Host
  ppu_threads = 1
  Prios = {0, 1}
  MaxAwake = 2
  TimedSleeps = {FALSE, TRUE}
SPECIFICATION FairSpec
INVARIANTS
  PriorityOrder
PROPERTIES
  EventuallyReleased
  EventuallyAcknowledged
CHECK_DEADLOCK FALSE
