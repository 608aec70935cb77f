CONSTANTS
  MaxJobs = 3
  MaxReport = 3
  disk = disk
  Volumes = {disk}
  NoVolume = NoVolume
  Shapes <- MCShapes
  Retention = 1
SPECIFICATION Spec
INVARIANT HandedOutOnce
PROPERTY NoJobLost
PROPERTY AwaitedCompletionsStay
PROPERTY LedgerBounded
CHECK_DEADLOCK FALSE
VIEW Live
