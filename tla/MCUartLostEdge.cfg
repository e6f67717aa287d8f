SPECIFICATION FairSpec
CONSTANTS
  RingCap = 3
  QUEUE_SZ = 2
  FifoSize = 2
  Trigger = 2
  Sizes <- MCSizes
  MaxSent = 2
  MaxTyped = 0
PROPERTIES OutputSent
