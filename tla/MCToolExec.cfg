SPECIFICATION PlatformSpec
CONSTANTS
  Starts <- TwoStarts
  Config <- TwoConfigs
  InitLimit <- MCInitLimit
  WindowsCalls <- OneStart
INVARIANTS
  ExecTypeOK
  ChildNeverLooser
  ChildLimitsExact
  ServerLimitsRestored
  TimeoutsReported
  JobConfines
PROPERTIES
  StartsNotHeldUp
  DeadlineStopsProcess
