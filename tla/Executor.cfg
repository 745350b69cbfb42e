SPECIFICATION Spec
CONSTANTS
  None = None
  Buffer = 1
  MaxFrames = 3
  Requests <- MCRequests
  Answers <- MCAnswers
CHECK_DEADLOCK FALSE
INVARIANTS RequestsAreAcceptable CapturesTellTheExchange RefusalsAreHeard SocketEventsArrive
PROPERTIES AttemptsEnd
