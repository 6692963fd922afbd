SPECIFICATION FairSpec
CONSTANTS
  AddrMax = 31
  SizeMax = 15
  AllocMax = 7
  RowSymbols = 2
  Layouts <- MCLayouts
  ChunkSizes = {1, 2, 3, 4, 5, 6, 7, 8, 9, 10, 11, 12, 13, 14, 15}
CHECK_DEADLOCK FALSE
INVARIANTS
  WindowsPartitionRegions
  HeatmapShowsTheTable
  RowsAreAddressable
PROPERTIES
  WalksEnd
