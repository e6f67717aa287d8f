SPECIFICATION FairSpec
CONSTANTS
  Task = {t1, t2}
  Block <- MCBlock
  Counts = {1}
  MaxCount = 4
  SectorSize = 2
  IntRange = 8
  Main = t1
PROPERTIES RequestsFinish
CHECK_DEADLOCK FALSE
