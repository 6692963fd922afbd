SPECIFICATION Spec
CONSTANTS
  AddrMax = 31
  SizeMax = 31
  AllocMax = 15
  ByteBase = 2
  SramLow = 8
  SramHigh = 11
  FlashBase = 4
  Layouts <- MCLayouts
CHECK_DEADLOCK FALSE
INVARIANTS
  ReportedTableIsLoaded
  StrongestIsKept
