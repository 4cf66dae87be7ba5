SPECIFICATION Spec
CONSTANTS
    Threads = {t1}
    Keys = {k1, k2}
    Values = {v}
    Absent = absent
    MAX_SEGMENT_SIZE = 1
    MAX_ROLLBACK_LOG_LEN = 2
    Scenarios <- Rollbacks
CHECK_DEADLOCK FALSE
INVARIANTS OpensAfterRollbacks
