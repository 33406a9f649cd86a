SPECIFICATION LogsSpec
CONSTANTS
  MaxFiles = 2
  MaxLines = 1
  Slots = 2
  LongCalls = {}
  MaxCalls = 5
  MaxFaults = 1
  MaxCrashes = 0
  TailLines = 2
  Limit = 2
  MaxTroubles = 1
  Second <- MCSecond
INVARIANT OnlyBeyondRetentionDeleted
