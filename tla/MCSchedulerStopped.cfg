CONSTANTS
  MaxJobs = 3
  MaxReport = 3
  disk = disk
  Volumes = {disk}
  NoVolume = NoVolume
  Shapes <- MCShapes
  Retention = 1
SPECIFICATION Spec
CHECK_DEADLOCK FALSE
PROPERTY StoppedDrainLosesNothing
VIEW Live
