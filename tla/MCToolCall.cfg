SPECIFICATION HttpSpec
CONSTANTS
  Requests = {r1, r2, r3}
  SemaphoreSize = 2
  HttpCalls = {r1}
  MaxRespBody = 2
INVARIANTS
  CallTypeOK
  SlotsConserved
  AuditAgreesWithAnswer
  MetricsMatchAudit
  HttpAnswerComplete
PROPERTIES
  ImplementsPool
  AnsweredWhateverRemotesDo
