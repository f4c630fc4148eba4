CONSTANTS
  v1 = v1
  Key <- MCKey
  Value <- MCValue
  HashKeys <- MCHashKeys
  LinearMax = 2
  MinBuckets = 4
  MaxIndexed = 5
SPECIFICATION UnwindSpec
INVARIANTS
  TableDescribesEntries
