SPECIFICATION FairTaskSpec
CONSTANTS
    t1 = t1
    t2 = t2
    NoTask = NoTask
    Tasks = {t1, t2}
    v1 = v1
    v2 = v2
    Tabs = {v1, v2}
    TaskOf <- MCTaskOf
    MaxLogs = 1
    MaxFaults = 1
INVARIANTS
    StatusTrue
    LoggerKept
PROPERTY
    TaskEnds
CHECK_DEADLOCK FALSE
