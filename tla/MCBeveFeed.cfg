CONSTANTS
  MaxDepth = 2
  MaxUsize = 15
  Setups <- MCSetups
  Limit = 5
  Chunk = 2
  MaxStream = 7
SPECIFICATION BeveSpec
INVARIANTS
  ChunkingIsInvisible
  ArrayIsItsElements
PROPERTIES
  BeveImplementsWindow
