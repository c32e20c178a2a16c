CONSTANTS
  s1 = s1
  s2 = s2
  Sessions <- MCSessions
  Queries <- MCQueries
  Storages = {"plain"}
  Stored <- MCStored
  Weights <- MCWeights
  NULL = NULL
SPECIFICATION Spec
INVARIANT
  StoredArrayUnchanged
