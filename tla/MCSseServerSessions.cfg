SPECIFICATION SseSpec
CONSTANTS
  Requests = {r1}
  Sessions = {s1, s2}
  SemaphoreSize = 1
  BufferSize = 2
INVARIANTS
  SessionsMapExact
  ShutdownDrainsStreams
PROPERTIES
  BufferedIsDelivered
  ClosedStreamsEnd
  ShutdownHeldOnlyByClients
