CONSTANTS
  MaxUnsigned = 909
  MaxSigned = 190
  MaxDecade = 9
  MinDecade <- MCMinDecade
  MinFixed <- MCMinFixed
  MaxFixed = 3
  MaxNesting = 2
  HexDigits = 2
  MinRepeat = 2
  MaxHashedKeys = 5
  MaxSearchedKeys = 4
  Seeds <- MCSeeds
  Setups <- MCSetups
SPECIFICATION Spec
CHECK_DEADLOCK FALSE
INVARIANTS
  NothingLost
  LayoutSettles
  RefusedTogether
  DeclaredIsTheTree
