SPECIFICATION PeriodicFairSpec

CONSTANTS
  p1 = p1
  p2 = p2
  p3 = p3
  a = a
  b = b
  c = c
  Proc <- MCProc
  Node <- MCNode
  Owner <- MCOwner
  Payload <- MCPayload
  TagMod = 2
  MaxRound = 2

INVARIANTS
  PeriodicInv
  SchemesMirror
  EntriesMirror

PROPERTIES
  EveryUpdateEnds
