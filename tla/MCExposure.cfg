SPECIFICATION Spec
CONSTANTS
    a = a
    b = b
    x = x
    y = y
    default = default
    other = other
    squireA = squireA
    squireB = squireB
    jobsB = jobsB
    None = None
    Local <- MCLocal
    Net <- MCNet
    Worlds <- MCWorlds
    Pairs <- MCPairs
    Shared <- MCShared
    Hosts <- MCHosts
    Label <- MCLabel
    MaxCommands <- MCMaxCommands
    MaxFaults = 2
SYMMETRY MCSymmetry
INVARIANT
    StageIsTrue
    ProvisionedRouted
PROPERTY
    SharedKept
CHECK_DEADLOCK FALSE
