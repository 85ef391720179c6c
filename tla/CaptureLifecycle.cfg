SPECIFICATION FairSpec
CONSTANTS
    Session = {s1}
    NoSession = none
    MaxFrames = 1
    ProgressEvery = 1
    MaxFault = 2
    MaxCrash = 1
    RemoteEnabled = TRUE
    MaximumPrivacy = TRUE
    UserDeletes = TRUE
INVARIANTS
    AudioIsKept
    EndsAreOwned
    PurgeIsFinal
PROPERTIES
    OperationsEnd
CHECK_DEADLOCK FALSE
