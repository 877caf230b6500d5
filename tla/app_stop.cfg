CONSTANTS
  StreamIds = {0, 4, 8}
  MaxVarint = 20
  MaxStreams = 4
  GlitchBurst = 4
  Params <- TightParams
  Remembered <- TightRemembered
  Ends = {0, 1}
  PeerFrames = {}
  WireCap = 2
  MaxWrite = 1
  MaxExtend = 1
  Calls = {}
  NStreams = 3
  ReqLen = 2
  Responses <- MCResponses
  Malformed = {4}
  Answers = {"accepted"}
  RecordCap = 2
SPECIFICATION AppSpec
INVARIANT SendqValid
CHECK_DEADLOCK FALSE
