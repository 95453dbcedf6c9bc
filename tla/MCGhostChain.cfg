SPECIFICATION Spec

CONSTANTS
  p1 = p1
  p2 = p2
  p3 = p3
  stress = stress
  density = density
  Proc <- MCProc
  Links <- MCLinks
  Tags <- MCTags
  TagBits <- MCTagBits
  CountMod = 2
  Entities = 1
  MaxOps = 4

INVARIANTS
  RightMessage
  GhostsFresh

PROPERTIES
  GhostPromise
