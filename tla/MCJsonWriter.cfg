CONSTANTS
  Capacities = {0, 3}
  Buffers <- MCBuffers
  Policies <- MCPolicies
  Texts <- MCTexts
  Strings <- MCStrings
  Letters = {"a", "1"}
  Fixed <- MCFixed
  Word = 2
  MaxText = 5
  Failures <- MCFailures
SPECIFICATION Spec
INVARIANTS
  BufferKeepsItsBounds
  StreamedIsText
  FinishTellsTheTruth
CHECK_DEADLOCK FALSE
