SPECIFICATION HttpSpec
CONSTANTS
  Requests = {r1, r2}
  SemaphoreSize = 1
  HttpCalls = {}
  MaxRespBody = 1
INVARIANT EveryInvocationAudited
