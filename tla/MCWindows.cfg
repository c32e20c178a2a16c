CONSTANTS
  Threads = {t1, t2}
  Geometries <- MCGeometries
  IDLE = IDLE
SPECIFICATION LoopSpec
INVARIANTS
  ReadsInBounds
  NoRace
  RightIffFits

  
CHECK_DEADLOCK FALSE
