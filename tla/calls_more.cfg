CONSTANTS
  StreamIds = {0}
  MaxVarint = 2
  MaxStreams = 1
  GlitchBurst = 1
  Params <- NarrowParams
  Ends = {0, 1}
  PeerFrames = {}
  WireCap = 2
  MaxWrite = 2
  MaxExtend = 1
  Calls = {"more", "split", "shutdown_read"}
SPECIFICATION SeenSpec
INVARIANT WriteMoreAccepts
CHECK_DEADLOCK FALSE
