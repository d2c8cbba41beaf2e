SPECIFICATION MCSpec
CONSTANTS
  Files <- MCFiles
  Contents <- MCContents
  None = "none"
  Cores <- MCCores
  Looks <- MCLooks
  Backups <- MCBackups
  Wishes <- MCWishes
  MaxCrashes = 2
  MaxFailures = 1
  MaxPlays = 1
INVARIANT DeathExposesNothing
CHECK_DEADLOCK FALSE
