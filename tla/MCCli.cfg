SPECIFICATION CliSpec
CONSTANTS
  AddrMax = 15
  SizeMax = 7
  AllocMax = 3
  NoNumber = NoNumber
  Args <- MCArgs
  NumberIn <- MCNumberIn
  FormatNamed <- MCFormatNamed
  TextLength <- MCTextLength
  PathSize = 4
  DefaultChunk = 6
  MaxArgs = 4
CHECK_DEADLOCK FALSE
INVARIANTS
  RefusedExactlyWhenWrong
  OptionsAreWhatWasGiven
