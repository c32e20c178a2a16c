CONSTANTS
  n1 = n1
  n2 = n2
  n3 = n3
  n4 = n4
  a1 = a1
  a2 = a2
  a3 = a3
  a4 = a4
  e1 = e1
  e2 = e2
  NULL = NULL
  Names <- MCNames
  Stored <- AllStored
  Entries <- MCEntries
  Addr <- MCAddr
  Capacity = 3
SPECIFICATION CacheSpec
INVARIANTS
  ListWellFormed

  
