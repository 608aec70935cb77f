CONSTANTS
  N = 3
  disk = disk
  ghost = ghost
  Volumes = {disk}
  UnknownIds = {ghost}
  NoVolume = NoVolume
  RawLimit <- MCRawLimit
  RawQuota <- MCRawQuota
  JobTables <- MCJobTables
  Workers = {w1, w2}
  NoJob = NoJob
SPECIFICATION FairSpec
INVARIANT TypeOK
INVARIANT VolumeIsolation
INVARIANT SleepersHaveAWaker
INVARIANT RunsAfterDependencies
INVARIANT ReportIsComplete
PROPERTY ImplementsLifecycle
PROPERTY CallReturns
CHECK_DEADLOCK FALSE
