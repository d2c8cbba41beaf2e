SPECIFICATION FairSpec
CONSTANTS
  Launches = 1
  SurfaceLosses = 1
  NoTitle = NoTitle
PROPERTY LastLaunchWins
CHECK_DEADLOCK FALSE
