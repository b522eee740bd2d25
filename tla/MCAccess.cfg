SPECIFICATION Spec
CONSTANTS
    r1 = r1
    r2 = r2
    w1 = w1
    w2 = w2
    b1 = b1
    b2 = b2
    t1 = t1
    t2 = t2
    None = None
    Requests <- MCRequests
    Web <- MCWeb
    Browsers <- MCBrowsers
    Terminals <- MCTerminals
    Parts <- MCParts
    MaxClients = 2
    MaxAttempts = 2
    MaxFailures = 1
    MaxBegun <- MCMaxBegun
    MaxFaults = 1
SYMMETRY MCSymmetry
INVARIANTS
    RevokedRefused
    TokensRight
    RegistrationBounded
    SessionKnowsPassword
PROPERTY
    KeyRight
CHECK_DEADLOCK FALSE
