CONSTANTS
  w1 = w1
  w2 = w2
  w3 = w3
  s1 = s1
  s2 = s2
  None = None
  Waiters = {w1, w2, w3}
  Setters = {s1}
  Bits = {1, 2, 3, 4}
  BitSets <- FourBitSets
  Waits <- FourBitWaits
  prio <- SamePrio
  Priority = FALSE
  Single = FALSE
SYMMETRY Symmetry
SPECIFICATION Spec
PROPERTIES
  SetIsAtomic
CHECK_DEADLOCK FALSE
