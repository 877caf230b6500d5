CONSTANTS
  Base = 32
  Id <- Ids
  Prohibited <- ProhibitedIds
  Milliseconds = 10
  UINT64_MAX <- Largest
  MaxStreamsParam <- StreamsCap
  ParamValues <- ParamChoices
  ParamBytes = {0, 1, 2, 4, 8, 64, 95}
  MaxParamBytes = 0
  FrameType <- Types
  SomeFrames <- Frames1
  MaxFrames = 0
  BufferSizes = {100}
  LocalParams <- SmallLocal
  MaxDatagramFrameSize = 4094
  StreamId = 4
  FirstOffset = 30
  Waiting <- Queues
  WaitingMax <- StreamsQueues
  DestLens = {4094}
  WriteLens = {4090}
  MaxRecords = 3
  MaxData = 1
SPECIFICATION WriterAlone
INVARIANT ZeroAtDefaultSize
CHECK_DEADLOCK FALSE
