SPECIFICATION Spec
CONSTANTS
  Cap = 4
  DocSizes = {1, 2, 3, 4, 5}
  TextSizes = {0, 1, 5}
  MaxCalls = 3
INVARIANTS TypeOK BufferHoldsAnswer OnlyOwnAnswer
PROPERTIES FittingAnswerAccepted FailureKeepsOutputs
CHECK_DEADLOCK FALSE
