SPECIFICATION Spec
CONSTANTS
  Workers = {w1, w2}
  w1 = w1
  w2 = w2
  Names = {n1, n2}
  n1 = n1
  n2 = n2
  Contents = {1, 2}
  Rounds = 2
  MaxWindows = 1
  MaxRemoved = 1
SYMMETRY Symmetry
INVARIANTS
  FragmentsAreFollowed
  SeedsAreCollected
