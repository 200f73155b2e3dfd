SPECIFICATION StoreSpec
CONSTANTS
  Id = {i1, i2, i3}
  MaxEntries = 2
  Version = {v1, v2}
  Process = {p1, p2}
  Mixes <- Overlaps
SYMMETRY Symmetry
INVARIANTS
  CapHolds
PROPERTIES
  LockedChangesAreAtomic
