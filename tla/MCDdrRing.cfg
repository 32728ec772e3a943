SPECIFICATION FairSpec
CONSTANTS
  LENGTH = 2
  RingBursts = 4
  FIFO_WORDS = 5
  MigDepth = 2
  NackStarts = {1}
  NackCounts = {2}
  MaxWords = 10
INVARIANTS
  EgressRight
  PortRight
  RingRight
PROPERTIES
  BurstsEnd
