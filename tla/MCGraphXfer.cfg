CONSTANTS
  Graphs <- MCNets
  Samples <- MCSamples
  Rules <- MCRules
  Arity <- MCArity
  Budget = 1
  AlphaPercent = 105
SPECIFICATION Spec
INVARIANTS
  MapsTheMatched
  CandidatesWellFormed
  MeaningKept
PROPERTIES
  BestLeavesNoCheaper
  SearchEnds
CHECK_DEADLOCK FALSE
