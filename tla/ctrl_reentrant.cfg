CONSTANTS
  StreamIds = {0, 1}
  MaxVarint = 1
  MaxStreams = 1
  GlitchBurst = 1
  Params <- ZeroParams
  PeerFrames <- Peer
  MaxCalls = 4
  Reentrant = TRUE
SPECIFICATION LoopSpec
INVARIANTS ResetQueued
CHECK_DEADLOCK FALSE
