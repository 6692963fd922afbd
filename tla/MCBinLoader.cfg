SPECIFICATION FairSpec
CONSTANTS
  AddrMax = 15
  SizeMax = 9
  AllocMax = 4
  Byte = {0, 1}
  EntrySize <- MCEntrySize
  FirstCap <- MCFirstCap
  ChunkStarts = {}
  ChunkData = {}
  ChunkLines = {}
  MaxChunks = 0
  Contents <- MCContents
  Bases = {0, 13}
  MaxPrior = 1
INVARIANTS
  LoadIsAllOrNothing
  LoadedBytesAreTheFiles
  NothingLeaks
PROPERTIES
  LoadReturns
