SPECIFICATION FairSpec
CONSTANTS
    c1 = c1
    c2 = c2
    c3 = c3
    src = src
    x1 = x1
    x2 = x2
    here = here
    there = there
    NoExt = NoExt
    Callers = {c1, c2, c3}
    Sources <- MCSources
    ExtIds <- MCExtIds
    Names <- MCNames
    Locations <- MCLocations
    Norm <- MCNorm
    DbLower <- MCDbLower
    Batches <- MeetingBatches
    MaxTransient = 2
INVARIANTS
    UniqueExternal
PROPERTIES
    ConflictCostsNothing
    EveryCallEnds
