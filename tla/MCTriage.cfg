SPECIFICATION FairSpec
CONSTANTS
    search = search
    interval = interval
    rescore = rescore
    user = user
    single = single
    NoOne = NoOne
    N = 2
    First = {1}
    Triggers = {search, interval}
    Manual = {}
    Rescores = {rescore}
    Pages = {user}
    Singles = {single}
    AutoLimit = 3
    BatchSize = 2
    PageSize = 2
    RetryChunk = 2
    MaxProfile = 2
    MaxStarts = 2
    MaxFaults = 1
    MaxChanges = 1
INVARIANTS
    EachJobOnce
PROPERTIES
    ScoresRight
    TriageEnds
CHECK_DEADLOCK FALSE
