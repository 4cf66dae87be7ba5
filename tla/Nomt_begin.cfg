SPECIFICATION FairSpec
CONSTANTS
    Threads = {t1, t2}
    Keys = {k1, k2}
    Values = {v}
    Absent = absent
    MAX_SEGMENT_SIZE = 2
    MAX_ROLLBACK_LOG_LEN = 3
    Scenarios <- TwoSessions
CHECK_DEADLOCK FALSE
PROPERTIES BeginReturns
