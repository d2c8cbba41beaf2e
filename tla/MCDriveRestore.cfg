SPECIFICATION MCFairSpec
CONSTANTS
  Files <- MCFiles
  Contents <- MCContents
  None = "none"
  Cores <- MCCores
  Looks <- MCLooks
  Backups <- MCBackups
  Wishes <- MCWishes
  MaxCrashes = 2
  MaxFailures = 1
  MaxPlays = 1
INVARIANTS TypeOK
PROPERTIES AllOrNothing Settles
CHECK_DEADLOCK FALSE
