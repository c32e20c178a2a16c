CONSTANTS
  Tensors <- MCTensors
  Shapes <- MCShapes
  Constants <- MCConstants
  MaxOnnx = 3
  Strides = {2}
  Paddings = {"same", "valid"}
  PoolSizes = {2}
SPECIFICATION ExportSpec
INVARIANTS
  OnlyFirstInputStale
  DistinctWeightsAreSafe
  ReferencesDefined
  
CHECK_DEADLOCK FALSE
