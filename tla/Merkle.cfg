CONSTANTS
  KeyBits = 8
  DEPTH = 2
  PAGE_ELISION_THRESHOLD = 3
  NumBuckets = 8
  TagUnit = 8
  PageHash <- MCHash
  KeySeq <- MCKeySeq
  MAX_INFLIGHT = 2
  Junk <- MCJunk
  NumWorkers = 2
  Scenarios <- MCScenarios
  PAGE_LIMIT = 1
  LEAF_ITEMS = 2
  BRANCH_LEAVES = 2
SPECIFICATION Spec
INVARIANTS NoPanic SeekFindsTerminal RootIsTrieRoot PagesHoldTheTrie RedoRestores WitnessVerifies MultiProofVerifies IteratorAgreesWithLookup
