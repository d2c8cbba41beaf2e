SPECIFICATION Spec
CONSTANTS
  Payloads = {p1, p2, p3}
  Junk = Junk
  None = None
  Overlap = FALSE
SYMMETRY Symmetry
INVARIANTS TypeOK SlotLoads DamageNeverLoads
PROPERTIES DeleteNeverStrips
