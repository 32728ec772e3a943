SPECIFICATION FairSpec
CONSTANTS
  Parts = {"flow", "demux", "bypass", "sync", "pins", "swo"}
  ByteMod = 4
  Data = {0, 1}
  Interval = 2
  Threshold = 1
  MaxBytes = 4
  FrameLen = 3
  TpiuFrames <- MCTpiuFrames
  FewFrames <- MCFewFrames
  RawBytes = {}
  BypassedBytes = {2, 3}
  Bypass = {FALSE}
  Timeout = 3
  max_size = 3
  MaxItems = 3
  FrameBytes = 4
  Others = {"a"}
  MaxFrames = 2
  MaxSyncs = 4
  MaxFaults = 2
  WordElems = 4
  FrameWords = 2
  Words <- MCWords
  SampleTime = 5
  BitTimes <- MCBitTimes
  Gaps = {0, 3, 250}
  ByteBits = 3
  FlushCount = 48
  PulseDepth = 1
  EdgeLimit = 16
  Scale = 16
  Thresholds <- MCThresholds
  Formats = {"nrz", "manchester"}
  SwoFrames <- MCSwoFrames
INVARIANTS
  FlowRight
  DemuxRight
  SyncRight
  PinsFramesRight
  BytesRight
PROPERTIES
  TraceLeaves
CHECK_DEADLOCK FALSE
