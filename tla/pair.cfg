CONSTANTS
  StreamIds = {0}
  MaxVarint = 2
  MaxStreams = 1
  GlitchBurst = 2
  Params <- MixedParams
  Ends = {0, 1}
  PeerFrames = {}
  WireCap = 2
  MaxWrite = 1
  MaxExtend = 1
  Calls = {"split", "shutdown_read", "extend_stream", "extend_conn", "extend_streams"}
SPECIFICATION Spec
INVARIANTS NoConnectionError BytesConserved LimitsAgree
PROPERTY FlowControl
CHECK_DEADLOCK FALSE
