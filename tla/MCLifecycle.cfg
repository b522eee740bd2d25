SPECIFICATION Spec
CONSTANTS
    a = a
    b = b
    v1 = v1
    v2 = v2
    None = None
    t1 = t1
    t2 = t2
    Clis <- MCClis
    Names <- MCNames
    Network <- MCNetwork
    Refs <- MCRefs
    Broken <- MCBroken
    Match <- MCMatch
    MaxCommands = 3
    MaxFaults = 1
SYMMETRY MCSymmetry
INVARIANTS
    RegistryTrue
    DataKept
    GoodImageKept
PROPERTY
    NothingNeededLost
CHECK_DEADLOCK FALSE
