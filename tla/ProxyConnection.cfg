\* Requests and answers in pieces of one to three units; everything may fail.
SPECIFICATION FairSpec
CONSTANTS
  Streams <- MCStreams
  ResponseShapes <- MCResponseShapes
  RequestBuffer = 5
  Accumulator = 4
  Chunk = 3
  Failures = {"connect", "send", "short", "break", "alloc", "leave", "race"}
INVARIANTS TypeOK ForwardedAsSent AnsweredInOrder BodiesAreExact BodyFits SocketsClosed
PROPERTIES ExchangesAsPromised RequestsAnswered
CHECK_DEADLOCK FALSE
