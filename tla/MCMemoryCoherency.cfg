SPECIFICATION MCSpec
CONSTANTS
  Size = 2
  NumDevices = 2
  Submissions = {t1, t2}
  HostPtrMode = "none"
  Modes <- AllModes
  ImageSizes = {1}
  ImageCommands = FALSE
  ShareDevice = FALSE
  PartialWrites = FALSE
  MaxWrites = 2
INVARIANTS Partitioned Coherent ReadsLatest
CHECK_DEADLOCK FALSE
