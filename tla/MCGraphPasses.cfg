CONSTANTS
  MCSize = 4
  GUID_INPUT = 10
  GUID_WEIGHT = 11
  Graphs <- MCGraphs
SPECIFICATION Spec
INVARIANTS
  KeepsWhatInputsNeed
  ProducersFirst
PROPERTY PassesEnd
CHECK_DEADLOCK FALSE
