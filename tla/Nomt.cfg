SPECIFICATION Spec
CONSTANTS
    Threads = {t1, t2}
    Keys = {k1, k2}
    Values = {v}
    Absent = absent
    MAX_SEGMENT_SIZE = 2
    MAX_ROLLBACK_LOG_LEN = 3
    Scenarios <- AllScenarios
SYMMETRY Symmetry
CHECK_DEADLOCK FALSE
INVARIANTS TypeOK RootMatchesStore SessionReadsItsRoot LogIsHistory OpenFailuresExplained NoPanic
PROPERTIES RollbackRestores SessionsPreventWrites
