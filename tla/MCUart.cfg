SPECIFICATION FairSpec
CONSTANTS
  RingCap = 2
  QUEUE_SZ = 2
  FifoSize = 1
  Trigger = 2
  Sizes <- MCSizes
  MaxSent = 3
  MaxTyped = 3
INVARIANTS OutputConserved InputInOrder TxArmed
PROPERTIES HandlerReturns
