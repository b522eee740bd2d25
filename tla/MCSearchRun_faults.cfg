SPECIFICATION FairSpec
CONSTANTS
    adzuna = adzuna
    jobicy = jobicy
    pull = pull
    worker = worker
    web = web
    NoOne = NoOne
    PullOf <- MCPullOf
    Enabled <- MCEnabled
    MaxRunsPerDay <- MCMaxRunsPerDay
    DayLength = 2
    Runners = {worker, web}
    Pulls = {pull}
    Excluded = {jobicy}
    CooldownTime = 1
    MaxTime = 0
    MaxRows = 2
    Raises = TRUE
    MaxUncaught = 1
    MaxTransient = 1
    MaxCrashes = 1
INVARIANTS
    OneRun
    NoRunStranded
PROPERTIES
    FinalIsFinal
    LockReleased
CHECK_DEADLOCK FALSE
