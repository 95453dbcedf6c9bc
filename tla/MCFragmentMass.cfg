SPECIFICATION FairSpec

CONSTANTS
  NbProc = 1
  Types <- MixedTypes
  Cohesive <- MCCohesive
  Facets <- MCFacets
  Touching <- MCTouching
  Partitions <- OnOneRank
  Cracks <- MCCracks
  MaxSteps = 2

INVARIANT
  FragmentsAreMeasured
