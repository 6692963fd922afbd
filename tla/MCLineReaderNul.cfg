SPECIFICATION Spec
CONSTANTS
  BufferSize = 4
  Text = {"x"}
  Records <- MCRecords
  Files <- MCFiles
CHECK_DEADLOCK FALSE
INVARIANTS
  ExtraDataIsCaught
