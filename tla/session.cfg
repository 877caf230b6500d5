CONSTANTS
  StreamIds = {0, 2}
  MaxVarint = 2
  MaxStreams = 1
  GlitchBurst = 2
  Params <- MCParams
  Remembered <- MCRemembered
  Ends = {0, 1}
  PeerFrames = {}
  WireCap = 1
  MaxWrite = 1
  MaxExtend = 1
  Calls = {"shutdown_write","extend_conn","extend_streams"}
SPECIFICATION SessionSpec
INVARIANTS NobodyFails EarlyCredit EarlyAgreement
PROPERTIES RejectionForgets
CHECK_DEADLOCK FALSE
