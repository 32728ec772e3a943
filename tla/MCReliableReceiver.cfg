SPECIFICATION FairSpec
CONSTANTS
  SeqHalf = 8
  Horizon = 4
  MaxRetries = 2
  RetryAfter = 2
  DebouncePkts = 1
  NackMaxSpan = 2
  MaxIndex = 18
INVARIANTS
  WindowRight
PROPERTIES
  GapAfterBudget
  HeldDelivered
  GapStreamSpec
