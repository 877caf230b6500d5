CONSTANTS
  StreamIds = {0}
  MaxVarint = 2
  MaxStreams = 1
  GlitchBurst = 1
  Params <- SmallParams
  Ends = {1}
  PeerFrames <- AnyFrame
  WireCap = 1
  MaxWrite = 2
  MaxExtend = 1
  Calls = {"more", "split", "shutdown_read", "shutdown_write", "extend_stream", "extend_conn"}
SPECIFICATION AnyRoleSpec
INVARIANTS TypeOK CreditOK QueueOK NoZombie PayloadOK
CHECK_DEADLOCK FALSE
