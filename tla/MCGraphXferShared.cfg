CONSTANTS
  Graphs <- MCProducts
  Samples <- MCSamples
  Rules <- MCFactor
  Arity <- MCArity
  Budget = 1
  AlphaPercent = 105
SPECIFICATION Spec
INVARIANT MapsTheMatched
CHECK_DEADLOCK FALSE
