CONSTANTS
  Rows = {r1, r2, r3}
  Workers = {w1, w2, w3}
  Arrays <- MCArrays
  NullArray = NullArray
  NULL = NULL
  MAXDIM = 6
  MinBytes = 2
  MinItems = 2
SPECIFICATION OrderSpec
INVARIANT
  NullStateCombined
CHECK_DEADLOCK FALSE
