CONSTANTS
  Workers = {w1, w2}
  Leader = leader
  Models = {m1, m2}
  ScanRows = {r1, r2}
  NONE = NONE
SPECIFICATION QuerySpec
INVARIANTS
  QueryTypeOK
  FailuresAreWorkers
