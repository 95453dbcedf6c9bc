SPECIFICATION FairSpec

CONSTANTS
  e0 = e0
  e1 = e1
  e2 = e2
  e3 = e3
  NbProc = 3
  NbSites = 2
  Element <- MCElement
  Host <- MCHost
  At <- MCAt
  Facet <- MCFacet

INVARIANTS
  TypeOK
  IdsUnique
  IdsComplete

PROPERTIES
  KeepsIds
  UpdateEnds
