CONSTANTS
  MaxDepth = 2
  Setups <- MCSetups
  Limit = 2
  Chunk = 3
  MaxStream = 6
SPECIFICATION JSpec
INVARIANTS
  ChunkingIsInvisible
  LimitIsOnOneValue
PROPERTIES
  ImplementsPullReader
