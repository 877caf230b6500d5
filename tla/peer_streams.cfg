CONSTANTS
  StreamIds = {2, 3, 6, 7}
  MaxVarint = 1
  MaxStreams = 2
  GlitchBurst = 0
  Params <- NoDataParams
  Ends = {1}
  PeerFrames <- StreamControl
  WireCap = 1
  MaxWrite = 1
  MaxExtend = 1
  Calls = {"shutdown", "extend_streams", "extend_stream", "split"}
SPECIFICATION Spec
INVARIANTS StreamLimitOK
PROPERTY NoReopen
CHECK_DEADLOCK FALSE
