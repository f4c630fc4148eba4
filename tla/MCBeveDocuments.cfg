CONSTANTS
  MaxDepth = 4
  MaxUsize = 65536
  MaxUnsigned = 100000
  MaxSigned = 50000
  MaxHashedKeys = 5
  MaxSearchedKeys = 4
  Seeds <- MCSeeds
  Setups <- MCSetups
  Writings <- MCWritings
  Policies <- MCPolicies
  Writers <- MCWriters
  MaxCalls = 2
SPECIFICATION Spec
CHECK_DEADLOCK FALSE
INVARIANTS
  StreamedIsDocument
  WrittenReadsBack
  WalksAgree
  SeekFindsThePointed
  DeclaredAgrees
  ReadsOver
PROPERTY
  FailureLeavesNothing
