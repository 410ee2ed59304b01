SPECIFICATION Spec
CONSTANTS
  Calls = {c1, c2, c3, c4}
  Limit = 2
  Window = 3
  MaxDelay = 1
  MaxTime = 7
SYMMETRY CallSymmetry
INVARIANT WindowBound
CHECK_DEADLOCK FALSE
