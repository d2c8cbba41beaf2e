SPECIFICATION FairSpec
CONSTANTS
  Launches = 2
  SurfaceLosses = 2
  NoTitle = NoTitle
INVARIANTS TypeOK NeverStaleTitle OnlyNewestBoots
PROPERTIES SupersededExit LaunchWins ExitStopsVm
CHECK_DEADLOCK FALSE
