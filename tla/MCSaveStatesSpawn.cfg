SPECIFICATION AppSpec
CONSTANTS
  MaxOps = 1
  MaxOthers = 1
PROPERTIES
  ExitStops
CHECK_DEADLOCK FALSE
