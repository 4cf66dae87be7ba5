SPECIFICATION Spec
CONSTANTS
  Keys = {k1}
  Pages = {p1}
  Slots = {s1, s2}
  NIL = NIL
  MaxSync = 2
  MaxCrash = 2
  MaxReaders = 0
  WriteThrough = FALSE
  LossAfterCrash = TRUE
SYMMETRY Symmetry
INVARIANT ConsistentWhenIdle
CHECK_DEADLOCK FALSE
