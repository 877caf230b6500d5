CONSTANTS
  StreamIds = {0, 4, 8}
  MaxVarint = 20
  MaxStreams = 4
  GlitchBurst = 4
  Params <- MCParams
  Remembered <- MCRemembered
  Ends = {0, 1}
  PeerFrames = {}
  WireCap = 2
  MaxWrite = 1
  MaxExtend = 1
  Calls = {}
  NStreams = 3
  ReqLen = 2
  Responses <- MCResponses
  Malformed = {4}
  Answers = {"accepted", "rejected"}
  RecordCap = 2
SPECIFICATION AppSpec
INVARIANTS SendqValid NothingForgotten SleepsDone NobodyAsserts
PROPERTY AllAnswered
CHECK_DEADLOCK FALSE
