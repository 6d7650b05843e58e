SPECIFICATION FairChunkSpec
CONSTANTS
  Chunks = {"x", "y"}
  MaxEvents = 3
  MaxItems = 6
CHECK_DEADLOCK FALSE
INVARIANTS
  ChunkTypeOK
  ItemsMatchEvents
  SuccessIsWhole
PROPERTIES
  PollReturns
