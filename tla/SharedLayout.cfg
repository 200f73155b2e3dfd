SPECIFICATION Spec
CONSTANTS
  A = A
  B = B
  C = C
  t1 = t1
  t2 = t2
  Tab = {t1, t2}
  Windows <- WindowList
  Kinds <- KindSets
  Lendable <- PageOfA
  MaxMoves = 3
SYMMETRY TabsAlike
CHECK_DEADLOCK FALSE
INVARIANTS
  LiveInOnePlace
  OverlayHasReason
