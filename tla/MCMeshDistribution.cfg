SPECIFICATION FairSpec

CONSTANTS
  NbProc = 3
  Types <- MCTypes
  Dim <- MCDim
  Dimension = 1
  Connectivity <- MCConnectivity
  PeriodicMaster <- MCPeriodicMaster
  Mesh <- MCMesh
  Partitions <- SomePartitions

INVARIANTS
  ElementSchemesMirror
  NodeSchemesMirror
  NodesHaveOneOwner

PROPERTIES
  DistributionEnds
