CONSTANTS
  short = short
  long = long
  NullName = NullName
  NoRow = NoRow
  Tables <- MCTables
  Units <- MCUnits
  Prefix <- MCPrefix
  NameLen <- MCNameLen
  RowKinds <- MCRowKinds
  NAMEDATALEN = 64
  POOL_SIZE = 7
  LRU_CACHE_SIZE = 1
  MaxVersion = 1
  MaxTables = 2
SPECIFICATION Spec
INVARIANTS
  TypeOK
  AccountingExact
  UsageBounded
  
  LoadedIsSnapshot
  MixedPairNeedsFailedLoad
