SPECIFICATION FairSpec
CONSTANTS
  Keys = {k1}
  Pages = {p1}
  Slots = {s1, s2}
  NIL = NIL
  MaxSync = 2
  MaxCrash = 2
  MaxReaders = 1
  WriteThrough = FALSE
  LossAfterCrash = FALSE
INVARIANTS TypeOK ConsistentWhenIdle Durable Recoverable OpenFailsNeedlessly IInv
PROPERTIES AtomicCommits CommitReturns Reopens
CHECK_DEADLOCK FALSE
