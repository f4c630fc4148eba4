CONSTANTS
  MaxDepth = 2
  Setups <- MCSetups
  Limit = 99
  Chunk = 2
  MaxStream = 5
SPECIFICATION FeedSpec
INVARIANTS
  ChunkingIsInvisible
PROPERTIES
  ImplementsWindow
