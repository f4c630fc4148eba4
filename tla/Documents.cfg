CONSTANTS
  Byte = {b1}
  Limit = 1
  Chunk = 2
  MaxStream = 7
  Codes = {"Framing"}
SPECIFICATION DSpec
INVARIANTS
  HeldWithinLimit
  FootprintBounded
PROPERTIES
  ReadsDoNotDisturb
  CallsReturn
  StreamEnds
  ImplementsWindow
