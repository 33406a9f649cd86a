SPECIFICATION PlatformSpec
CONSTANTS
  Starts <- ThreeStarts
  Config <- MCConfig
  InitLimit <- MCInitLimit
  WindowsCalls <- OneStart
INVARIANTS
  CorrectLimitsInherited
