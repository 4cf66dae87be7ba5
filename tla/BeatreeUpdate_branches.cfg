SPECIFICATION Spec
CONSTANTS
  KeyBits = 4
  LeafBody = 9
  BranchBody = 20
  ItemBytes = 6
  PointerBytes = 4
  ByteBits = 8
  Garbage = 0
  Workers <- ThreeWorkers
  Large <- LargeValues
  Changesets <- ThreeSyncs
  MaxFails = 0
INVARIANTS TreeIsMap
