SPECIFICATION Spec
CONSTANTS
  Launches = 2
  SurfaceLosses = 0
  NoTitle = NoTitle
PROPERTY StaleExitIsInert
CHECK_DEADLOCK FALSE
