SPECIFICATION PlatformSpec
CONSTANTS
  Starts <- TwoStarts
  Config <- TwoConfigs
  InitLimit <- MCInitLimit
  WindowsCalls <- OneStart
PROPERTIES
  TimeoutEnforced
