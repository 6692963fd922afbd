SPECIFICATION Spec
CONSTANTS
  AddrMax = 4200
  SizeMax = 20
  AllocMax = 8
  Byte <- MCByte
  EntrySize <- MCEntrySize
  FirstCap <- MCFirstCap
  ChunkStarts = {}
  ChunkData = {}
  ChunkLines = {}
  MaxChunks = 0
  ByteBase = 8
  Paragraph = 4
  Lines <- MCLines
  MaxLines = 5
  Contents <- MCContents
  Bases = {0, 13}
  Commands <- MCCommands
CHECK_DEADLOCK FALSE
INVARIANTS
  StatusTellsTheOutcome
  ReportIsOfTheFile
  OverlapsNameTheLines
  SortIsDeterministic
  EveryBlockFreedOnce
