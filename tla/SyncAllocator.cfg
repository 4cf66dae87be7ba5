SPECIFICATION Spec
CONSTANTS
  Workers = {w1, w2, w3}
  NONE = NONE
  FreeLen = 1
  Bump = 2
  FileLen = 3
  GrowBy = 2
  MaxAlloc = 6
INVARIANTS InsideFile DrawnOnce
PROPERTY NeverShrinks
CHECK_DEADLOCK FALSE
