SPECIFICATION FairSpec
CONSTANTS
  Parts = {"dfu", "control", "descriptors", "memory", "assembly", "leds"}
  Areas = {0, 8}
  Size = 16
  EraseSize = 4
  PageSize = 2
  BlockSize = 2
  PacketSize = 1
  CdcDepth = 2
  PhyDepth = 2
  Images <- MCImages
  MaxDownloads = 2
  MaxDfuDamage = 1
  Uid <- MCUid
  Dummies = 2
  Old = Old
  Erased = Erased
  Mixed = Mixed
  Base = 4
  Bytes = 2
  Num = 10
  ResMax = 3
  Rates <- MCRates
  InputFormats = {18}
  MaxRequests = 2
  MaxAborts = 1
  MaxDamage = 1
  Remains <- MCRemains
  MaxPacketSize = 7
  PositionLimit = 64
  ElementSize = 2
  Sets <- MCSets
  Serial <- MCSerial
  Lengths = {1, 2, 3, 6, 7, 9, 14, 16, 20}
  MaxReads = 2
  MaxLosses = 2
  Words <- MCWords
  Garbage <- MCGarbage
  WordBytes = 2
  Cells = {0, 1}
  MaxMemRequests = 2
  MaxMemGivenUp = 1
  MaxMemDamage = 1
  LedCount = 2
  ColourBits = 2
  Brightness <- MCBrightness
  BitTime = 1
  EndTime = 6
  LedStates = {{}, {"g", "b"}}
  Forced = {1}
INVARIANTS
  FlashRight
  SettingsRight
  DescriptorRight
  MemoryRight
  AssemblyRight
  LedsRight
PROPERTIES
  UsbEnds
CHECK_DEADLOCK FALSE
