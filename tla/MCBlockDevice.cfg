SPECIFICATION MCSpec
CONSTANTS
  t1 = t1
  t2 = t2
  Task = {t1, t2}
  block_size = 3
  block_count = 4
  Entries <- MCEntries
  Uses <- MCOwnPartition
  Offsets <- MCOffsets
  Lengths <- MCLengths
  Range32 = 32
  Range16 = 8
  sector_size = 2
  sector_count = 3
  FarRange = 4
  Paragraph = 2
  base_addr = 7
  Reg0 = 5
  Reg1 = 2
  ChipIds <- MCChipIds
  ConfigId <- MCConfigId
  FlashData <- MCFlashData
  MaxPowerLoss = 1
  MaxCalls = 1
INVARIANTS Completed OneBlockAtRisk ReadsContents
PROPERTIES OnlyOwnBytes
CHECK_DEADLOCK FALSE
