SPECIFICATION FairSpec

CONSTANTS
  NbProc = 2
  Types <- MCTypes
  Dim <- MCDim
  Dimension = 1
  Connectivity <- MCConnectivity
  PeriodicMaster <- MCPeriodicMaster
  Mesh <- PeriodicWithTags
  Partitions <- PartitionsOfTwo

INVARIANT
  NodalDataFit
