SPECIFICATION FairSpec

CONSTANTS
  p1 = p1
  p2 = p2
  stress = stress
  density = density
  Proc <- MCProc
  Links <- MCLinks
  Tags <- MCTags
  TagBits <- MCTagBits
  CountMod = 2
  Entities = 1
  MaxOps = 5

INVARIANTS
  GhostInv
  SizesAreCurrent
  GhostsFresh

PROPERTIES
  EveryOperationEnds
