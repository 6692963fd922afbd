SPECIFICATION CliSpec
CONSTANTS
  AddrMax = 15
  SizeMax = 15
  AllocMax = 7
  NoNumber = NoNumber
  Args <- MCArgs
  NumberIn <- MCNumberIn
  FormatNamed <- MCFormatNamed
  TextLength <- MCTextLength
  PathSize = 4
  DefaultChunk = 7
  MaxArgs = 4
CHECK_DEADLOCK FALSE
INVARIANTS
  ChunkSizeIsPositive
