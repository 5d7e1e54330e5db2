SPECIFICATION ServiceSpec
CONSTANTS
  p1 = p1
  p2 = p2
  c1 = c1
  c2 = c2
  Process = {p1, p2}
  CommandLine <- MCCommandLine
  Number <- MCNumber
  Readable = {"parts"}
  HttpPort = 8080
  PoolSize = 2
  Caller = {c1, c2}
  Request <- MCRequest
  MaxCalls = 3
  MaxFailures = 1
INVARIANTS
  AnswerIsOwn
  InStep
  FanOut
PROPERTIES
  EveryCallAnswered
CHECK_DEADLOCK FALSE
