SPECIFICATION StdioSafetySpec
CONSTANTS
  Requests = {r1}
  SemaphoreSize = 1
INVARIANT InflightFinishedBeforeExit
