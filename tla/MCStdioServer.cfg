SPECIFICATION StdioSpec
CONSTANTS
  Requests = {r1, r2}
  SemaphoreSize = 1
INVARIANTS
  StdioTypeOK
  WaitGroupsExact
  ClosingStdinLosesNothing
  ShutdownWaitsForCounted
  CrashNeedsSignalOrExpiry
PROPERTY ShutdownEnds
