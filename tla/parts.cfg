CONSTANTS
  LineEnd = 10
  MaxPush = 8
  U64Max = 31
  Seconds = 4
  Bursts <- BurstValues
  Rates <- RateValues
  MaxDrain = 3
  MaxTime = 12
  Entries = {1, 2, 3, 4, 5, 6, 7, 8}
  PqKey <- EntryKeys
  Keys = {1, 2, 3, 4, 5, 6}
  HashBits = 4
  Hash <- Hashes
  InitialBits = 2
  Degree = 2
  KslKeys = {1, 2, 3, 4, 5, 6, 7, 8, 9}
  Alignment = 4
  HeaderLen = 2
  ObjLens = {3, 4, 6}
  PerBlock = {1, 2}
  MaxMemblocks = 3
  Base = 32
  Form <- Forms
  ParamsFrame = 3
  CloseFrames = {28, 29}
  Datagrams = {24, 25}
  MaxRecord = 5
  MaxDatagram = 3
  Bytes = {0, 1, 2, 3, 5, 10, 16, 24, 25, 29, 32, 64}
  MaxInput = 5
  Id <- Ids
  Prohibited <- ProhibitedIds
  Milliseconds = 10
  UINT64_MAX <- Largest
  MaxStreamsParam <- StreamsCap
  ParamValues <- ParamChoices
  ParamBytes = {0, 1, 2, 4, 8, 64, 95}
  MaxParamBytes = 6
  FrameType <- Types
  SomeFrames <- Frames1
  MaxFrames = 2
  BufferSizes = {100}
  LocalParams <- SmallLocal
  MaxDatagramFrameSize = 4094
  StreamId = 4
  FirstOffset = 30
  Waiting <- Queues
  WaitingMax <- StreamsQueues
  DestLens = {3, 14, 40, 4096}
  WriteLens = {0, 1, 31, 32, 4060}
  MaxRecords = 3
  MaxData = 1
  StreamIds = {0, 1}
  MaxVarint = 1
  MaxStreams = 1
  GlitchBurst = 1
  Params <- ZeroParams
  PeerFrames <- PeerOfLoop
  MaxCalls = 5
  Reentrant = FALSE
  MaxTimestamp = 15
  NsPerMs = 2
  IdleChoices <- Timeouts
  StartTimes = {1, 7}
  MaxIdleTime = 5
  MaxIdleRecords <- Records2
SPECIFICATION Spec
INVARIANTS GapsExact PqExact MapExact KslExact PoolExact LoopIsOneStep CutsDoNotMatter NeverPastRecord DecodersAgree ParamsExact FramesExact RecordFilled ZeroMeansNothing RecordsAreRead IdleTimesOut TimeoutsAgree
PROPERTY ExactBucket
CHECK_DEADLOCK FALSE
