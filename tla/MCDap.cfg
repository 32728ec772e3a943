SPECIFICATION FairSpec
CONSTANTS
  Parts = {"packets", "calls"}
  ByteBits = 2
  CountMod = 4
  WordBytes = 4
  FifoDepth = 4
  V1Size = 8
  MaxWords = 2
  DapPackets <- MCDapPackets
  WithId = FALSE
  ShortSequences = FALSE
  Calls <- MCCalls
  Modes = {FALSE, TRUE}
  WaitRetries = {0, 1, 2}
  MatchRetry = 1
  RetryMod = 4
  SerialMod = 8
  OtherCalls = FALSE
  MaxRequests = 3
  Matching = FALSE
INVARIANTS
  PacketRight
  CallRight
PROPERTIES
  HandshakeKept
  PacketsEnd
CHECK_DEADLOCK FALSE
