SPECIFICATION Spec
CONSTANTS
    cloud = cloud
    ollama = ollama
    backup = backup
    none = none
    legacy = legacy
    NoProvider = none
    Legacy = legacy
    Local = {ollama}
    Providers = {cloud, ollama, backup}
    Ranked <- MCThree
    InitialRows <- EnabledRows
    InitialSettings <- LocalInClear
    HardErrors = TRUE
    NullAnswers = TRUE
    MaxEdits = 1
INVARIANTS
    FailsRightly
    CalledInOrder
PROPERTY
    RawOnlyIfAgreed
CHECK_DEADLOCK FALSE
