SPECIFICATION Spec
CONSTANTS
    adzuna = adzuna
    jobicy = jobicy
    pull = pull
    worker = worker
    web = web
    NoOne = NoOne
    PullOf <- MCPullOf
    Enabled <- MCEnabled
    MaxRunsPerDay <- MCMaxRunsPerDay
    DayLength = 2
    Runners = {worker, web}
    Pulls = {}
    Excluded = {}
    CooldownTime = 2
    MaxTime = 4
    MaxRows = 3
    Raises = FALSE
    MaxUncaught = 0
    MaxTransient = 0
    MaxCrashes = 0
INVARIANTS
    DailyLimit
PROPERTIES
    CooldownRespected
CHECK_DEADLOCK FALSE
