CONSTANTS
  w1 = w1
  w2 = w2
  w3 = w3
  s1 = s1
  s2 = s2
  None = None
  Waiters = {w1, w2}
  Setters = {s1}
  Bits = {1, 2}
  BitSets <- FewBitSets
  Waits <- FewWaits
  prio <- SamePrio
  Priority = FALSE
  Single = FALSE
SPECIFICATION FairSpec
INVARIANTS
  TypeOK
  NoLostWakeup
  ResultIsSet
  Reachable
PROPERTIES
  TurnIsAtomic
  SetTerminates
  RemovedReturns
CHECK_DEADLOCK FALSE
