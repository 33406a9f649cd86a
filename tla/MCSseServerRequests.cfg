SPECIFICATION SseSafetySpec
CONSTANTS
  Requests = {r1, r2}
  Sessions = {s1}
  SemaphoreSize = 1
  BufferSize = 1
SYMMETRY RequestSymmetry
INVARIANTS
  SseTypeOK
  AcceptedNotLost
  ExitCutsOffOnlyTimedOut
