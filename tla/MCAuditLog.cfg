SPECIFICATION LogsSpec
CONSTANTS
  MaxFiles = 3
  MaxLines = 2
  Slots = 2
  LongCalls = {3}
  MaxCalls = 9
  MaxFaults = 2
  MaxCrashes = 2
  TailLines = 2
  Limit = 2
  MaxTroubles = 2
  Second <- MCSecond
INVARIANTS
  LogsTypeOK
  HistoryOrdered
  OnlyOldestMissing
  RotationHonoursRetention
  MetricsKeptBeforeRotation
  LogsShowTheNewest
