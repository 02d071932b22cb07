SPECIFICATION FairSpec
CONSTANTS
    NCPU = 4
    MaxProc = 7
    Apps <- AllApps
INVARIANTS DistinctCpus IoeOnceIfTidy PipeBalance
PROPERTY AllEnter
CHECK_DEADLOCK FALSE
