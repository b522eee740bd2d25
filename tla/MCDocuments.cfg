SPECIFICATION Spec
CONSTANTS
    p1 = p1
    p2 = p2
    None = None
    Procs = {p1, p2}
    MaxJobRequests = 3
    MaxResumeRequests = 4
    MaxPostings = 3
    MaxFaults = 1
INVARIANTS
    RowsAndFiles
    KitRight
    OneBase
SYMMETRY MCSymmetry
CHECK_DEADLOCK FALSE
