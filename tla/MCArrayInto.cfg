CONSTANTS
  MaxDepth = 2
  MaxUsize = 15
  Documents <- MCDocuments
  Capacities <- MCCapacities
  Chunk = 3
SPECIFICATION ASpec
INVARIANTS
  HeldIsBacked
  ReadsWhatASliceHolds
