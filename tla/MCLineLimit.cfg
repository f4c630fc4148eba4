CONSTANTS
  MaxDepth = 2
  Setups <- MCLines
  Limit = 2
  Chunk = 3
  MaxStream = 5
SPECIFICATION JSpec
INVARIANTS
  LimitIsOnOneValue
