CONSTANTS
  Byte = {b1, b2}
  Limit = 2
  Chunk = 2
  MaxStream = 4
  Codes = {"Framing"}
SPECIFICATION Spec
INVARIANTS
  TypeOK
  WindowOfStream
  UnreadIsTheRest
  ExposesOnlyInitialized
  FailureReportedOnce
PROPERTIES
  FailureIsTerminal
  AnswersInOrder
