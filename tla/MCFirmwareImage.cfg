SPECIFICATION ImageSpec
CONSTANTS
  AddrMax = 15
  SizeMax = 15
  AllocMax = 7
  Byte = {0}
  EntrySize <- MCEntrySize
  FirstCap <- MCFirstCap
  ChunkStarts = {0, 3, 9, 14, 15}
  ChunkData <- MCData
  ChunkLines = {0}
  MaxChunks = 5
INVARIANTS
  ImageTypeOK
  ChunksWellFormed
  SpanIsTight
  ChunkTableHolds
