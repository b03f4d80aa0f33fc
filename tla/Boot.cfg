SPECIFICATION FairSpec
CONSTANTS
  old = old
  new = new
  LastPlot = 3
  BatchSize = 2
  OwnerPlots <- MCOwnerPlots
  Amount <- MCAmount
  UnpaidEvery = 2
  Apis = {new}
  Seeders = {1, 2}
  Forced = {2}
  Migrations = 2
  Build <- MCBuild
  MaxRequests = 1
  MaxFaults = 2
INVARIANTS
  ServesMigrated
  SeededOnce
  ProjectsAreWhole
PROPERTIES
  KeepsPromise
  ComesUp
  GoesDown
