SPECIFICATION FairSpec

CONSTANTS
  NbProc = 3
  Types <- MCTypes
  Cohesive <- MCCohesive
  Facets <- MCFacets
  Touching <- MCTouching
  Partitions <- MCPartitions
  Cracks <- MCCracks
  MaxSteps = 2

INVARIANTS
  FragmentsAreComponents
  FragmentsAreMeasured

PROPERTIES
  FragmentsGetComputed
