SPECIFICATION GrowthSpec
CONSTANTS
  AddrMax = 31
  SizeMax = 31
  AllocMax = 15
  Byte <- MCByte
  EntrySize <- MCEntrySize
  FirstCap <- MCFirstCap
  ChunkStarts <- MCStarts
  ChunkData <- MCData
  ChunkLines = {1, 2}
  MaxChunks = 3
INVARIANTS
  TypeOK
  RegionsCoverChunks
  RegionsSeparated
  GapsBetweenRegions
  FirstChunkWins
  OverlapsComplete
  WithinCapacity
  LayoutAccountsForBytes
PROPERTIES
  ImplementsLayout
  GrowthIsMergeTail
  ReconstructReturns
