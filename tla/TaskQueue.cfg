CONSTANTS
    Task = {t1, t2}
    Session = {s1}
    Slot = {p1, p2}
    Priority <- MCPriority
    RetryPolicy <- MCRetryPolicy
    Lease = 1
    MaxStamp = 1
    MaxCharge = 1
    Utterance = {r1}
    MaxVersion = 2
    MaxRevision = 4
    MaxApplied = 1
    MaxFailure = 1
    MaxBuffered = 1
    NoEvent = NoEvent
SPECIFICATION WorkSpec
INVARIANTS
    DispatchIsSound
    ScreenIsWhole
PROPERTIES
    FailedNeverRunsAgain
    AbandonedIsReclaimable
    EverythingArrives
CHECK_DEADLOCK FALSE
