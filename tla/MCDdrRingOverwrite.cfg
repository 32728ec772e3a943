SPECIFICATION Spec
CONSTANTS
  LENGTH = 2
  RingBursts = 2
  FIFO_WORDS = 5
  MigDepth = 1
  NackStarts = {0}
  NackCounts = {1, 2}
  MaxWords = 8
INVARIANTS
  RetransmitRight
