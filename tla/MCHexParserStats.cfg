SPECIFICATION Spec
CONSTANTS
  AddrMax = 4200
  SizeMax = 11
  AllocMax = 5
  Byte <- MCByte
  EntrySize <- MCEntrySize
  FirstCap <- MCFirstCap
  ChunkStarts = {}
  ChunkData = {}
  ChunkLines = {}
  MaxChunks = 0
  ByteBase = 8
  Paragraph = 4
  Lines <- MCLines
  MaxLines = 1
  MaxPrior = 1
INVARIANT StatsObjectIsOptional
