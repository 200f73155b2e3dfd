SPECIFICATION Spec
CONSTANTS
  Surfaces <- SurfaceSet
  Available <- AvailableKinds
  MaxLeaves = 4
  Uneven <- UnevenShares
INVARIANTS
  VerbsKeepLeaves
  DropTakesItsPlace
  CloseKeepsTheRest
  CycleComesBack
