SPECIFICATION FairSpec

CONSTANTS
  a = a
  b = b
  c = c
  d = d
  NbProc = 3
  Entity <- MCEntity
  Owner <- MCOwner
  Local <- MCLocal
  Gid <- MCGid
  MaxOps = 5

INVARIANTS
  ListsMatch
  ValuesArrive

PROPERTIES
  EveryOperationEnds
