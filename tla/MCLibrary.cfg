SPECIFICATION MCSpec
CONSTANTS
  MinIndex = 1
  MAX_INDEX = 3
  Header = 1
  Range16 = 64
  Base = 37
  Limit = 56
  Requests <- MCRequests
  Byte <- MCByte
  Size = 4
  MaxArr = 5
  ListHead = {l1, l2}
  Item = {a, b, c}
  NoNode = NoNode
  PrintfCalls <- MCPrintfCalls
  Cells <- MCCells
  CharRange = 4
  IntRange = 8
  LongRange = 16
  LongLongRange = 64
  PtrSize = 1
  PRINTF_NTOA_BUFFER_SIZE = 7
  IrqTask = {t1, t2}
  BootTask = t1
  Irq <- MCIrq
  idt_offset = 32
  IDT_ENTRIES = 256
  Syscalls <- MCSyscalls
INVARIANTS HeapSound FullyMerged LinksMirror LoopVisitsAll WithinBuffers IntegersConform ServedByOwn InServiceExact
PROPERTIES IsBoundedFifo ListsAreSequences
CHECK_DEADLOCK FALSE
