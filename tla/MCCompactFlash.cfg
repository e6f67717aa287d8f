SPECIFICATION FairSpec
CONSTANTS
  Task = {t1, t2}
  Block <- MCBlock
  Counts <- MCCounts
  MaxCount = 4
  SectorSize = 2
  IntRange = 8
  Main = t1
INVARIANTS CardFollowsHead WholeTransfer
PROPERTIES SpuriousOnly  StartedFinish
CHECK_DEADLOCK FALSE
