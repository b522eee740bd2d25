SPECIFICATION Spec
CONSTANTS
    p1 = p1
    p2 = p2
    ann = ann
    ANN = ANN
    mail = mail
    badge = badge
    acme = acme
    health = health
    Marker = Marker
    None = None
    Procs = {p1, p2}
    Names = {ann, ANN}
    Shaped = {mail}
    Labelled = {badge}
    Orgs = {acme}
    Sensitive = {health}
    Fold <- MCFold
    Inputs = {ann}
    MaxAttempts = 2
    MaxCalls = 2
    MaxEdits = 1
    MaxFaults = 1
INVARIANTS
    ValuesComeBack
    NothingLeaves
PROPERTY
    VaultKept
SYMMETRY MCSymmetry
CHECK_DEADLOCK FALSE
