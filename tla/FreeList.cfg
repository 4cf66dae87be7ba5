SPECIFICATION Spec
CONSTANTS
  MaxPns = 3
  GrowBy = 4
  MaxSync = 5
  Allocs = {0, 2, 6}
  Frees = {0, 1, 3, 5}
  MaxPn = 14
INVARIANTS Conservation NthPopIsPop ManifestIntact ExactPreallocation InsideFile
CHECK_DEADLOCK FALSE
