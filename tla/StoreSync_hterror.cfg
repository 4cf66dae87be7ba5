SPECIFICATION ErrorSpec
CONSTANTS
  Keys = {k1}
  Pages = {p1}
  Slots = {s1, s2}
  NIL = NIL
  MaxSync = 2
  MaxCrash = 0
  MaxReaders = 0
  WriteThrough = FALSE
  LossAfterCrash = FALSE
INVARIANT ConsistentWhenIdle
CHECK_DEADLOCK FALSE
