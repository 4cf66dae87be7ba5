SPECIFICATION Spec
CONSTANTS
  KeyBits = 4
  LeafBody = 9
  BranchBody = 38
  ItemBytes = 6
  PointerBytes = 4
  ByteBits = 8
  Garbage = 0
  Workers <- ThreeWorkers
  Large <- LargeValues
  Changesets <- ThreeSyncs
  MaxFails = 1
INVARIANTS TreeIsMap WellFormed PagesConserved NeighboursAgree OnlyIoFails NoStandstill
